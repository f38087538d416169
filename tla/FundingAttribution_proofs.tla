----------------------- MODULE FundingAttribution_proofs -----------------------
(***************************************************************************)
(* Proofs about FundingAttribution: whatever is recorded, deleted, edited, *)
(* re-rated and rebuilt, in any order, by any users, the books stay typed, *)
(* no row is orphaned or adopted, no money is spent twice, no purchase     *)
(* attributes more than it consumed, no request touches another user's     *)
(* money, and a full rebuild is exact; and while events are only added, an *)
(* asset that is reported complete is paid for.                            *)
(***************************************************************************)
EXTENDS FundingAttribution, SumTheorems

-----------------------------------------------------------------------------
(* Lists.                                                                  *)

Aged(lots, S) == InOrder(S, LAMBDA k, l : Precedes(lots, k, l))

(* Lots, oldest first. *)
LEMMA LotsInOrder ==
    ASSUME NEW S, KeySet(S), NEW lots,
           \A x \in S : lots[x].created_at \in Nat
    PROVE  Aged(lots, S) \in Seq(S)
<1> DEFINE key == [x \in S |-> lots[x].created_at]
           Before(x) == {y \in S : key[y] < key[x] \/ (key[y] = key[x] /\ y < x)}
           Ahead(x) == {y \in S : Precedes(lots, y, x)}
           Nth(n) == CHOOSE x \in S : Cardinality(Ahead(x)) = n - 1
<1>1. \A n \in 1 .. Cardinality(S) : \E x \in S : Cardinality(Before(x)) = n - 1
  <2>1. \A x \in S : key[x] \in Nat
    OBVIOUS
  <2> HIDE DEF key
  <2> QED BY <2>1, TimeRanks
<1>2. \A x \in S : Before(x) = Ahead(x)
  BY DEF Precedes
<1>3. \A n \in 1 .. Cardinality(S) : \E x \in S : Cardinality(Ahead(x)) = n - 1
  <2> HIDE DEF Before, Ahead
  <2> QED BY <1>1, <1>2
<1>4. \A n \in 1 .. Cardinality(S) : Nth(n) \in S
  <2> HIDE DEF Ahead
  <2> QED BY <1>3
<1>5. Cardinality(S) \in Nat
  BY FS_CardinalityType DEF KeySet
<1>6. Aged(lots, S) = [n \in 1 .. Cardinality(S) |-> Nth(n)]
  BY DEF InOrder, Aged
<1>7. [n \in 1 .. Cardinality(S) |-> Nth(n)] \in Seq(S)
  <2> HIDE DEF Nth
  <2> QED BY <1>4, <1>5
<1> QED BY <1>6, <1>7

ByPurchase(rows, evs, S) ==
    InOrder(S, LAMBDA a, b : Sooner(LAMBDA i : evs[rows[i].target_event].time, a, b))

(* The attributions of an asset, in the order of their purchases. *)
LEMMA RowsInOrder ==
    ASSUME NEW S, KeySet(S), NEW rows, NEW evs,
           \A x \in S : evs[rows[x].target_event].time \in Nat
    PROVE  ByPurchase(rows, evs, S) \in Seq(S)
<1> DEFINE key == [x \in S |-> evs[rows[x].target_event].time]
           Before(x) == {y \in S : key[y] < key[x] \/ (key[y] = key[x] /\ y < x)}
           Ahead(x) == {y \in S : Sooner(LAMBDA i : evs[rows[i].target_event].time, y, x)}
           Nth(n) == CHOOSE x \in S : Cardinality(Ahead(x)) = n - 1
<1>1. \A n \in 1 .. Cardinality(S) : \E x \in S : Cardinality(Before(x)) = n - 1
  <2>1. \A x \in S : key[x] \in Nat
    OBVIOUS
  <2> HIDE DEF key
  <2> QED BY <2>1, TimeRanks
<1>2. \A x \in S : Before(x) = Ahead(x)
  BY DEF Sooner
<1>3. \A n \in 1 .. Cardinality(S) : \E x \in S : Cardinality(Ahead(x)) = n - 1
  <2> HIDE DEF Before, Ahead
  <2> QED BY <1>1, <1>2
<1>4. \A n \in 1 .. Cardinality(S) : Nth(n) \in S
  <2> HIDE DEF Ahead
  <2> QED BY <1>3
<1>5. Cardinality(S) \in Nat
  BY FS_CardinalityType DEF KeySet
<1>6. ByPurchase(rows, evs, S) = [n \in 1 .. Cardinality(S) |-> Nth(n)]
  BY DEF InOrder, ByPurchase
<1>7. [n \in 1 .. Cardinality(S) |-> Nth(n)] \in Seq(S)
  <2> HIDE DEF Nth
  <2> QED BY <1>4, <1>5
<1> QED BY <1>6, <1>7

-----------------------------------------------------------------------------
(* What the consumptions of a lot took.                                    *)

Amounts(C) == [c \in DOMAIN C |-> C[c].amount]
Shares(C) == [c \in DOMAIN C |-> C[c].basis]
From(C, l) == {c \in DOMAIN C : C[c].lot = l}
Taken(C, l) == SumFunctionOnSet(Amounts(C), From(C, l))
Cost(C, l) == SumFunctionOnSet(Shares(C), From(C, l))

(* The names of the model. *)
LEMMA TakenNames ==
    ASSUME NEW b, NEW l
    PROVE  /\ AmountTaken(b, DrawnFrom(b, l)) = Taken(b.consumptions, l)
           /\ BasisTaken(b, DrawnFrom(b, l)) = Cost(b.consumptions, l)
  BY DEF AmountTaken, BasisTaken, DrawnFrom, Taken, Cost, Amounts, Shares, From

(* The consumptions of a lot are a finite set of rows with typed columns. *)
LEMMA FromTyped ==
    ASSUME NEW C, IsTable(C, Consumption), NEW l
    PROVE  /\ IsFiniteSet(From(C, l))
           /\ \A c \in From(C, l) : Amounts(C)[c] \in Nat /\ Shares(C)[c] \in Nat
           /\ Taken(C, l) \in Nat /\ Cost(C, l) \in Nat
<1>1. IsFiniteSet(From(C, l))
  <2>1. From(C, l) \subseteq DOMAIN C /\ IsFiniteSet(DOMAIN C)
    BY DEF From, IsTable
  <2> QED BY <2>1, FS_Subset
<1>2. \A c \in From(C, l) : Amounts(C)[c] \in Nat /\ Shares(C)[c] \in Nat
  BY DEF From, Amounts, Shares, IsTable, Consumption
<1>3. Taken(C, l) \in Nat /\ Cost(C, l) \in Nat
  <2> HIDE DEF From
  <2> QED BY <1>1, <1>2, SumNat DEF Taken, Cost
<1> QED BY <1>1, <1>2, <1>3

(* No consumption, nothing taken. *)
LEMMA NothingTaken ==
    ASSUME NEW C, NEW l, \A c \in DOMAIN C : C[c].lot # l
    PROVE  Taken(C, l) = 0 /\ Cost(C, l) = 0
<1>1. From(C, l) = {}
  BY DEF From
<1> QED BY <1>1, SumEmpty DEF Taken, Cost

(* A new consumption adds its amount and its share to those of its lot. *)
LEMMA InsertTaken ==
    ASSUME NEW C, IsTable(C, Consumption), NEW row \in Consumption
    PROVE  /\ Taken(Insert(C, row), row.lot) = Taken(C, row.lot) + row.amount
           /\ Cost(Insert(C, row), row.lot) = Cost(C, row.lot) + row.basis
           /\ \A l : l # row.lot => /\ Taken(Insert(C, row), l) = Taken(C, l)
                                    /\ Cost(Insert(C, row), l) = Cost(C, l)
<1> DEFINE D == Insert(C, row)
           n == NextId(C)
<1>1. /\ DOMAIN D = DOMAIN C \cup {n} /\ n \notin DOMAIN C
      /\ D[n] = row /\ \A i \in DOMAIN C : D[i] = C[i]
  <2>1. n \notin DOMAIN C
    BY FreshKey
  <2>2. /\ DOMAIN Insert(C, row) = DOMAIN C \cup {NextId(C)}
        /\ Insert(C, row)[NextId(C)] = row
        /\ \A i \in DOMAIN C : Insert(C, row)[i] = C[i]
    <3> HIDE DEF D, n
    <3> QED BY InsertRow
  <2> QED BY <2>1, <2>2
<1> HIDE DEF D, n
<1>2. \A l : l # row.lot => From(D, l) = From(C, l)
  BY <1>1 DEF From
<1>3. From(D, row.lot) = From(C, row.lot) \cup {n} /\ n \notin From(C, row.lot)
  BY <1>1 DEF From
<1>4. \A l : /\ \A c \in From(C, l) : Amounts(D)[c] = Amounts(C)[c]
            /\ \A c \in From(C, l) : Shares(D)[c] = Shares(C)[c]
  BY <1>1 DEF From, Amounts, Shares
<1>5. Amounts(D)[n] = row.amount /\ Shares(D)[n] = row.basis
  BY <1>1 DEF Amounts, Shares
<1>6. \A l : /\ SumFunctionOnSet(Amounts(D), From(C, l)) = Taken(C, l)
            /\ SumFunctionOnSet(Shares(D), From(C, l)) = Cost(C, l)
  <2> TAKE l
  <2>1. IsFiniteSet(From(C, l))
    BY FromTyped
  <2>2. SumFunctionOnSet(Amounts(D), From(C, l)) = SumFunctionOnSet(Amounts(C), From(C, l))
    BY <1>4, <2>1, SumSame
  <2>3. SumFunctionOnSet(Shares(D), From(C, l)) = SumFunctionOnSet(Shares(C), From(C, l))
    BY <1>4, <2>1, SumSame
  <2> QED BY <2>2, <2>3 DEF Taken, Cost
<1>7. /\ Taken(D, row.lot) = Taken(C, row.lot) + row.amount
      /\ Cost(D, row.lot) = Cost(C, row.lot) + row.basis
  <2>1. /\ IsFiniteSet(From(C, row.lot))
        /\ \A c \in From(C, row.lot) : Amounts(D)[c] \in Int /\ Shares(D)[c] \in Int
        /\ Amounts(D)[n] \in Int /\ Shares(D)[n] \in Int
    BY <1>4, <1>5, FromTyped DEF Consumption
  <2>2. SumFunctionOnSet(Amounts(D), From(C, row.lot) \cup {n})
          = SumFunctionOnSet(Amounts(D), From(C, row.lot)) + Amounts(D)[n]
    BY <1>3, <2>1, SumAdd
  <2>3. SumFunctionOnSet(Shares(D), From(C, row.lot) \cup {n})
          = SumFunctionOnSet(Shares(D), From(C, row.lot)) + Shares(D)[n]
    BY <1>3, <2>1, SumAdd
  <2> QED BY <1>3, <1>5, <1>6, <2>2, <2>3 DEF Taken, Cost
<1>8. \A l : l # row.lot => Taken(D, l) = Taken(C, l) /\ Cost(D, l) = Cost(C, l)
  BY <1>2, <1>6 DEF Taken, Cost
<1> QED BY <1>7, <1>8 DEF D

(* Deleting consumptions can only reduce what a lot's consumptions took. *)
LEMMA WithoutTaken ==
    ASSUME NEW C, IsTable(C, Consumption), NEW S, NEW l
    PROVE  Taken(Without(C, S), l) <= Taken(C, l) /\ Cost(Without(C, S), l) <= Cost(C, l)
<1> DEFINE D == Without(C, S)
<1>1. DOMAIN D = DOMAIN C \ S /\ \A i \in DOMAIN D : D[i] = C[i]
  BY WithoutRows
<1>2. IsTable(D, Consumption)
  BY WithoutRows
<1> HIDE DEF D
<1>3. From(D, l) \in SUBSET From(C, l)
  BY <1>1 DEF From
<1>4. \A c \in From(D, l) : Amounts(D)[c] = Amounts(C)[c] /\ Shares(D)[c] = Shares(C)[c]
  BY <1>1 DEF From, Amounts, Shares
<1>5. IsFiniteSet(From(D, l))
  BY <1>2, FromTyped
<1>6. /\ SumFunctionOnSet(Amounts(C), From(D, l)) = Taken(D, l)
      /\ SumFunctionOnSet(Shares(C), From(D, l)) = Cost(D, l)
  <2>1. SumFunctionOnSet(Amounts(D), From(D, l)) = SumFunctionOnSet(Amounts(C), From(D, l))
    BY <1>4, <1>5, SumSame
  <2>2. SumFunctionOnSet(Shares(D), From(D, l)) = SumFunctionOnSet(Shares(C), From(D, l))
    BY <1>4, <1>5, SumSame
  <2> QED BY <2>1, <2>2 DEF Taken, Cost
<1> DEFINE rest == From(C, l) \ From(D, l)
<1>7. /\ IsFiniteSet(From(C, l)) /\ IsFiniteSet(rest)
      /\ \A c \in From(C, l) : Amounts(C)[c] \in Nat /\ Shares(C)[c] \in Nat
      /\ \A c \in rest : Amounts(C)[c] \in Nat /\ Shares(C)[c] \in Nat
  BY FromTyped, FS_Subset
<1>8. /\ Taken(C, l) = Taken(D, l) + SumFunctionOnSet(Amounts(C), rest)
      /\ Cost(C, l) = Cost(D, l) + SumFunctionOnSet(Shares(C), rest)
  <2>1. \A c \in From(C, l) : Amounts(C)[c] \in Int /\ Shares(C)[c] \in Int
    BY <1>7
  <2>2. SumFunctionOnSet(Amounts(C), From(C, l))
          = SumFunctionOnSet(Amounts(C), From(D, l)) + SumFunctionOnSet(Amounts(C), rest)
    BY <1>3, <1>7, <2>1, SumPart
  <2>3. SumFunctionOnSet(Shares(C), From(C, l))
          = SumFunctionOnSet(Shares(C), From(D, l)) + SumFunctionOnSet(Shares(C), rest)
    BY <1>3, <1>7, <2>1, SumPart
  <2> QED BY <1>6, <2>2, <2>3 DEF Taken, Cost
<1>9. /\ SumFunctionOnSet(Amounts(C), rest) \in Nat /\ SumFunctionOnSet(Shares(C), rest) \in Nat
  <2> HIDE DEF rest
  <2> QED BY <1>7, SumNat
<1>10. Taken(D, l) \in Nat /\ Cost(D, l) \in Nat
  BY <1>2, FromTyped
<1> HIDE DEF rest
<1> QED BY <1>8, <1>9, <1>10 DEF D
-----------------------------------------------------------------------------
(* What purchases attribute, and what they consumed, by event and lot.     *)

Measures == {"native", "rmb"}

SizeOf(m, C) == [c \in DOMAIN C |-> IF m = "native" THEN C[c].amount ELSE C[c].basis]
PayerOf(C) == [c \in DOMAIN C |-> <<C[c].event, C[c].lot>>]
Paid(m, C, k) == GroupSum(SizeOf(m, C), PayerOf(C), k)

PartOf(m, A) == [a \in DOMAIN A |-> IF m = "native" THEN A[a].native_amount ELSE A[a].rmb_basis]
BuyerOf(A) == [a \in DOMAIN A |-> <<A[a].target_event, A[a].source_lot>>]
Carries(m, A, k) == GroupSum(PartOf(m, A), BuyerOf(A), k)

(* Attributions A, and the drawn rows R still to be attributed, are within *)
(* the consumptions C.                                                     *)
Covered(A, R, C) ==
    \A m \in Measures : \A k : Carries(m, A, k) + Paid(m, R, k) <= Paid(m, C, k)

Backed(A, C) == \A m \in Measures : \A k : Carries(m, A, k) <= Paid(m, C, k)

(* Sums over rows are natural numbers. *)
LEMMA PaidNat ==
    ASSUME NEW C, IsTable(C, Consumption), NEW m
    PROVE  /\ IsFiniteSet(DOMAIN C) /\ SizeOf(m, C) \in [DOMAIN C -> Nat]
           /\ \A k : Paid(m, C, k) \in Nat
<1>1. IsFiniteSet(DOMAIN C) /\ SizeOf(m, C) \in [DOMAIN C -> Nat]
  BY DEF IsTable, SizeOf, Consumption
<1>2. ASSUME NEW k PROVE Paid(m, C, k) \in Nat
  BY <1>1, GroupNat DEF Paid
<1> QED BY <1>1, <1>2

LEMMA AttributedNat ==
    ASSUME NEW A, IsTable(A, Attribution), NEW m
    PROVE  /\ IsFiniteSet(DOMAIN A) /\ PartOf(m, A) \in [DOMAIN A -> Nat]
           /\ \A k : Carries(m, A, k) \in Nat
<1>1. IsFiniteSet(DOMAIN A) /\ PartOf(m, A) \in [DOMAIN A -> Nat]
  BY DEF IsTable, PartOf, Attribution
<1>2. ASSUME NEW k PROVE Carries(m, A, k) \in Nat
  BY <1>1, GroupNat DEF Carries
<1> QED BY <1>1, <1>2

(* Table D is table C and one more row. *)
OneMore(C, D, n, row) ==
    /\ n \notin DOMAIN C /\ DOMAIN D = DOMAIN C \cup {n} /\ D[n] = row
    /\ \A c \in DOMAIN C : D[c] = C[c]

(* A consumption adds its size to its event and lot. *)
LEMMA PaidAdded ==
    ASSUME NEW C, IsTable(C, Consumption), NEW D, IsTable(D, Consumption),
           NEW n, NEW row, OneMore(C, D, n, row), NEW m, NEW k
    PROVE  Paid(m, D, k) = Paid(m, C, k)
             + (IF <<row.event, row.lot>> = k THEN (IF m = "native" THEN row.amount ELSE row.basis)
                                              ELSE 0)
<1>1. /\ IsFiniteSet(DOMAIN C) /\ SizeOf(m, C) \in [DOMAIN C -> Nat]
      /\ SizeOf(m, D) \in [DOMAIN D -> Nat]
  BY PaidNat
<1>2. /\ n \notin DOMAIN C /\ DOMAIN D = DOMAIN C \cup {n} /\ D[n] = row
      /\ \A c \in DOMAIN C : D[c] = C[c]
  BY DEF OneMore
<1>3. \A c \in DOMAIN C : SizeOf(m, D)[c] = SizeOf(m, C)[c] /\ PayerOf(D)[c] = PayerOf(C)[c]
  BY <1>2 DEF SizeOf, PayerOf
<1>4. /\ SizeOf(m, D)[n] = (IF m = "native" THEN row.amount ELSE row.basis)
      /\ PayerOf(D)[n] = <<row.event, row.lot>>
  BY <1>2 DEF SizeOf, PayerOf
<1> DEFINE f == SizeOf(m, C)
           g == SizeOf(m, D)
           E == DOMAIN C
           key == PayerOf(C)
           other == PayerOf(D)
<1>5. /\ IsFiniteSet(E) /\ f \in [E -> Nat] /\ n \notin E /\ g \in [E \cup {n} -> Nat]
      /\ \A x \in E : g[x] = f[x] /\ other[x] = key[x]
  BY <1>1, <1>2, <1>3
<1>6. GroupSum(g, other, k) = GroupSum(f, key, k) + (IF other[n] = k THEN g[n] ELSE 0)
  <2> HIDE DEF f, g, E, key, other
  <2> QED BY <1>5, GroupAdded
<1> QED BY <1>4, <1>6 DEF Paid

(* An attribution adds its share to its event and lot. *)
LEMMA AttributedAdded ==
    ASSUME NEW A, IsTable(A, Attribution), NEW B, IsTable(B, Attribution),
           NEW n, NEW row, OneMore(A, B, n, row), NEW m, NEW k
    PROVE  Carries(m, B, k) = Carries(m, A, k)
             + (IF <<row.target_event, row.source_lot>> = k
                THEN (IF m = "native" THEN row.native_amount ELSE row.rmb_basis) ELSE 0)
<1>1. /\ IsFiniteSet(DOMAIN A) /\ PartOf(m, A) \in [DOMAIN A -> Nat]
      /\ PartOf(m, B) \in [DOMAIN B -> Nat]
  BY AttributedNat
<1>2. /\ n \notin DOMAIN A /\ DOMAIN B = DOMAIN A \cup {n} /\ B[n] = row
      /\ \A a \in DOMAIN A : B[a] = A[a]
  BY DEF OneMore
<1>3. \A a \in DOMAIN A : PartOf(m, B)[a] = PartOf(m, A)[a] /\ BuyerOf(B)[a] = BuyerOf(A)[a]
  BY <1>2 DEF PartOf, BuyerOf
<1>4. /\ PartOf(m, B)[n] = (IF m = "native" THEN row.native_amount ELSE row.rmb_basis)
      /\ BuyerOf(B)[n] = <<row.target_event, row.source_lot>>
  BY <1>2 DEF PartOf, BuyerOf
<1> DEFINE f == PartOf(m, A)
           g == PartOf(m, B)
           E == DOMAIN A
           key == BuyerOf(A)
           other == BuyerOf(B)
<1>5. /\ IsFiniteSet(E) /\ f \in [E -> Nat] /\ n \notin E /\ g \in [E \cup {n} -> Nat]
      /\ \A x \in E : g[x] = f[x] /\ other[x] = key[x]
  BY <1>1, <1>2, <1>3
<1>6. GroupSum(g, other, k) = GroupSum(f, key, k) + (IF other[n] = k THEN g[n] ELSE 0)
  <2> HIDE DEF f, g, E, key, other
  <2> QED BY <1>5, GroupAdded
<1> QED BY <1>4, <1>6 DEF Carries

(* Nothing drawn is left to attribute: the books are backed. *)
LEMMA CoveredBacked ==
    ASSUME NEW A, IsTable(A, Attribution), NEW C, IsTable(C, Consumption),
           NEW R, IsTable(R, Consumption), Covered(A, R, C)
    PROVE  Backed(A, C)
<1> SUFFICES ASSUME NEW m \in Measures, NEW k PROVE Carries(m, A, k) <= Paid(m, C, k)
  BY DEF Backed
<1>1. Paid(m, R, k) \in Nat /\ Paid(m, C, k) \in Nat /\ Carries(m, A, k) \in Nat
  BY PaidNat, AttributedNat
<1>2. Carries(m, A, k) + Paid(m, R, k) <= Paid(m, C, k)
  BY DEF Covered
<1> QED BY <1>1, <1>2

(* Before anything is drawn. *)
LEMMA BackedCovered ==
    ASSUME NEW A, IsTable(A, Attribution), NEW C, IsTable(C, Consumption), Backed(A, C)
    PROVE  Covered(A, <<>>, C)
<1> SUFFICES ASSUME NEW m \in Measures, NEW k
             PROVE  Carries(m, A, k) + Paid(m, <<>>, k) <= Paid(m, C, k)
  BY DEF Covered
<1>1. Paid(m, <<>>, k) = 0
  <2> DEFINE f == SizeOf(m, <<>>)
             key == PayerOf(<<>>)
  <2>1. DOMAIN f = {}
    BY DEF SizeOf
  <2> HIDE DEF f, key
  <2>2. GroupSum(f, key, k) = 0
    BY <2>1, GroupEmpty
  <2> QED BY <2>2 DEF Paid, f, key
<1>2. Carries(m, A, k) \in Nat /\ Carries(m, A, k) <= Paid(m, C, k)
  BY AttributedNat DEF Backed
<1> QED BY <1>1, <1>2

(* More consumptions back no less. *)
LEMMA MoreBacked ==
    ASSUME NEW A, IsTable(A, Attribution), NEW C, IsTable(C, Consumption), Backed(A, C),
           NEW D, IsTable(D, Consumption), NEW n, NEW row \in Consumption, OneMore(C, D, n, row)
    PROVE  Backed(A, D)
<1> SUFFICES ASSUME NEW m \in Measures, NEW k PROVE Carries(m, A, k) <= Paid(m, D, k)
  BY DEF Backed
<1> DEFINE more == IF <<row.event, row.lot>> = k
                   THEN (IF m = "native" THEN row.amount ELSE row.basis) ELSE 0
<1>1. Paid(m, D, k) = Paid(m, C, k) + more
  BY PaidAdded
<1>2. more \in Nat
  BY DEF Consumption
<1>3. /\ Carries(m, A, k) \in Nat /\ Paid(m, C, k) \in Nat
      /\ Carries(m, A, k) <= Paid(m, C, k)
  BY PaidNat, AttributedNat DEF Backed
<1> HIDE DEF more
<1> QED BY <1>1, <1>2, <1>3

(* A drawn row covers itself. *)
LEMMA DrawnCovered ==
    ASSUME NEW A, IsTable(A, Attribution), NEW C, IsTable(C, Consumption),
           NEW D, IsTable(D, Consumption), NEW R, IsTable(R, Consumption),
           NEW Q, IsTable(Q, Consumption), NEW n, NEW i, NEW row,
           OneMore(C, D, n, row), OneMore(R, Q, i, row), Covered(A, R, C)
    PROVE  Covered(A, Q, D)
<1> SUFFICES ASSUME NEW m \in Measures, NEW k
             PROVE  Carries(m, A, k) + Paid(m, Q, k) <= Paid(m, D, k)
  BY DEF Covered
<1> DEFINE more == IF <<row.event, row.lot>> = k
                   THEN (IF m = "native" THEN row.amount ELSE row.basis) ELSE 0
<1>1. Paid(m, D, k) = Paid(m, C, k) + more
  BY PaidAdded
<1>2. Paid(m, Q, k) = Paid(m, R, k) + more
  BY PaidAdded
<1>3. Carries(m, A, k) + Paid(m, R, k) <= Paid(m, C, k)
  BY DEF Covered
<1>4. /\ Carries(m, A, k) \in Nat /\ Paid(m, R, k) \in Nat /\ Paid(m, C, k) \in Nat
      /\ Paid(m, D, k) \in Nat
  BY PaidNat, AttributedNat
<1>5. more \in Int
  <2>1. row \in Consumption
    BY DEF OneMore, IsTable
  <2> QED BY <2>1 DEF Consumption
<1> HIDE DEF more
<1> QED BY <1>1, <1>2, <1>3, <1>4, <1>5

(* A drawn row is attributed. *)
LEMMA AttributedCovered ==
    ASSUME NEW A, IsTable(A, Attribution), NEW B, IsTable(B, Attribution),
           NEW C, IsTable(C, Consumption), NEW R, IsTable(R, Consumption),
           NEW Q, IsTable(Q, Consumption), NEW n, NEW i, NEW row, NEW new,
           OneMore(A, B, n, new), OneMore(R, Q, i, row), Covered(A, Q, C),
           new.target_event = row.event, new.source_lot = row.lot,
           new.native_amount = row.amount, new.rmb_basis = row.basis
    PROVE  Covered(B, R, C)
<1> SUFFICES ASSUME NEW m \in Measures, NEW k
             PROVE  Carries(m, B, k) + Paid(m, R, k) <= Paid(m, C, k)
  BY DEF Covered
<1> DEFINE more == IF <<row.event, row.lot>> = k
                   THEN (IF m = "native" THEN row.amount ELSE row.basis) ELSE 0
<1>1. Carries(m, B, k) = Carries(m, A, k) + more
  BY AttributedAdded
<1>2. Paid(m, Q, k) = Paid(m, R, k) + more
  BY PaidAdded
<1>3. Carries(m, A, k) + Paid(m, Q, k) <= Paid(m, C, k)
  BY DEF Covered
<1>4. /\ Carries(m, A, k) \in Nat /\ Paid(m, R, k) \in Nat /\ Paid(m, C, k) \in Nat
  BY PaidNat, AttributedNat
<1>5. more \in Int
  <2>1. row \in Consumption
    BY DEF OneMore, IsTable
  <2> QED BY <2>1 DEF Consumption
<1> HIDE DEF more
<1> QED BY <1>1, <1>2, <1>3, <1>4, <1>5

(* Attributions that only shrank are still backed. *)
LEMMA ShrunkBacked ==
    ASSUME NEW A, IsTable(A, Attribution), NEW B, IsTable(B, Attribution),
           DOMAIN B \subseteq DOMAIN A,
           \A a \in DOMAIN B : /\ B[a].target_event = A[a].target_event
                               /\ B[a].source_lot = A[a].source_lot
                               /\ B[a].native_amount <= A[a].native_amount
                               /\ B[a].rmb_basis <= A[a].rmb_basis,
           NEW C, IsTable(C, Consumption), Backed(A, C)
    PROVE  /\ Backed(B, C)
           /\ \A m \in Measures : \A k : Carries(m, B, k) <= Carries(m, A, k)
<1>1. ASSUME NEW m \in Measures, NEW k PROVE Carries(m, B, k) <= Carries(m, A, k)
  <2> DEFINE f == PartOf(m, A)
             g == PartOf(m, B)
             D == DOMAIN A
             E == DOMAIN B
             key == BuyerOf(A)
             other == BuyerOf(B)
  <2>1. IsFiniteSet(D) /\ f \in [D -> Nat] /\ g \in [E -> Nat] /\ E \in SUBSET D
    BY AttributedNat
  <2>2. \A x \in E : g[x] <= f[x] /\ other[x] = key[x]
    BY DEF PartOf, BuyerOf
  <2>3. GroupSum(g, other, k) <= GroupSum(f, key, k)
    <3> HIDE DEF f, g, D, E, key, other
    <3> QED BY <2>1, <2>2, GroupFewer
  <2> QED BY <2>3 DEF Carries
<1>2. ASSUME NEW m \in Measures, NEW k PROVE Carries(m, B, k) <= Paid(m, C, k)
  <2>1. Carries(m, B, k) \in Nat /\ Carries(m, A, k) \in Nat /\ Paid(m, C, k) \in Nat
    BY PaidNat, AttributedNat
  <2>2. Carries(m, A, k) <= Paid(m, C, k)
    BY DEF Backed
  <2> QED BY <1>1, <2>1, <2>2
<1> QED BY <1>1, <1>2 DEF Backed

(* So are those that remain when rows are deleted, if no consumption goes  *)
(* without the attributions of its event and lot.                          *)
LEMMA WithoutBacked ==
    ASSUME NEW A, IsTable(A, Attribution), NEW B, IsTable(B, Attribution),
           DOMAIN B \subseteq DOMAIN A, \A a \in DOMAIN B : B[a] = A[a],
           NEW C, IsTable(C, Consumption), NEW D, IsTable(D, Consumption),
           DOMAIN D \subseteq DOMAIN C, \A c \in DOMAIN D : D[c] = C[c],
           \A a \in DOMAIN B : \A c \in DOMAIN C : c \notin DOMAIN D =>
              ~ (B[a].target_event = C[c].event /\ B[a].source_lot = C[c].lot),
           Backed(A, C)
    PROVE  Backed(B, D)
<1> SUFFICES ASSUME NEW m \in Measures, NEW k PROVE Carries(m, B, k) <= Paid(m, D, k)
  BY DEF Backed
<1>1. /\ Carries(m, B, k) \in Nat /\ Carries(m, A, k) \in Nat
      /\ Paid(m, C, k) \in Nat /\ Paid(m, D, k) \in Nat
  BY PaidNat, AttributedNat
<1>2. CASE \A a \in DOMAIN B : BuyerOf(B)[a] # k
  <2> DEFINE g == PartOf(m, B)
             other == BuyerOf(B)
  <2>1. \A x \in DOMAIN g : other[x] # k
    BY <1>2 DEF PartOf
  <2> HIDE DEF g, other
  <2>2. GroupSum(g, other, k) = 0
    BY <2>1, GroupEmpty
  <2>3. Carries(m, B, k) = 0
    BY <2>2 DEF Carries, g, other
  <2> QED BY <1>1, <2>3
<1>3. CASE \E a \in DOMAIN B : BuyerOf(B)[a] = k
  <2>1. PICK a \in DOMAIN B : BuyerOf(B)[a] = k
    BY <1>3
  <2>2. \A c \in DOMAIN C : c \notin DOMAIN D => PayerOf(C)[c] # k
    BY <2>1 DEF BuyerOf, PayerOf
  <2>3. Paid(m, D, k) = Paid(m, C, k)
    <3> DEFINE f == SizeOf(m, C)
               g == SizeOf(m, D)
               S == DOMAIN C
               E == DOMAIN D
               key == PayerOf(C)
               other == PayerOf(D)
    <3>1. IsFiniteSet(S) /\ f \in [S -> Nat] /\ g \in [E -> Nat] /\ E \in SUBSET S
      BY PaidNat
    <3>2. \A x \in E : g[x] = f[x] /\ other[x] = key[x]
      BY DEF SizeOf, PayerOf
    <3>3. \A x \in S : x \notin E => key[x] # k
      BY <2>2
    <3>4. GroupSum(g, other, k) = GroupSum(f, key, k)
      <4> HIDE DEF f, g, S, E, key, other
      <4> QED BY <3>1, <3>2, <3>3, GroupSame
    <3> QED BY <3>4 DEF Paid
  <2>4. Carries(m, B, k) <= Carries(m, A, k)
    <3>1. \A x \in DOMAIN B : /\ B[x].target_event = A[x].target_event
                              /\ B[x].source_lot = A[x].source_lot
                              /\ B[x].native_amount <= A[x].native_amount
                              /\ B[x].rmb_basis <= A[x].rmb_basis
      BY DEF IsTable, Attribution
    <3> QED BY <3>1, ShrunkBacked
  <2>5. Carries(m, A, k) <= Paid(m, C, k)
    BY DEF Backed
  <2> QED BY <1>1, <2>3, <2>4, <2>5
<1> QED BY <1>2, <1>3

(* BackedIn says it of the events and lots that have attributions. *)
LEMMA BackedRows ==
    ASSUME NEW b, RowsTyped(b)
    PROVE  BackedIn(b) <=> Backed(b.attributions, b.consumptions)
<1> DEFINE A == b.attributions
           C == b.consumptions
           alike(e, l) == {i \in DOMAIN A : A[i].target_event = e /\ A[i].source_lot = l}
           paid(e, l) == {c \in DrawnFrom(b, l) : C[c].event = e}
           Fits(e, l) == /\ AmountCarried(b, alike(e, l)) <= AmountTaken(b, paid(e, l))
                         /\ BasisCarried(b, alike(e, l)) <= BasisTaken(b, paid(e, l))
<1>1. IsTable(A, Attribution) /\ IsTable(C, Consumption)
  BY DEF RowsTyped
<1>2. BackedIn(b) <=> \A a \in DOMAIN A : Fits(A[a].target_event, A[a].source_lot)
  BY DEF BackedIn
<1>3. ASSUME NEW e, NEW l
      PROVE  Fits(e, l) <=> \A m \in Measures : Carries(m, A, <<e, l>>) <= Paid(m, C, <<e, l>>)
  <2>1. /\ Group(DOMAIN A, BuyerOf(A), <<e, l>>) = alike(e, l)
        /\ Group(DOMAIN C, PayerOf(C), <<e, l>>) = paid(e, l)
    BY DEF Group, BuyerOf, PayerOf, DrawnFrom
  <2>2. /\ PartOf("native", A) = [a \in DOMAIN A |-> A[a].native_amount]
        /\ PartOf("rmb", A) = [a \in DOMAIN A |-> A[a].rmb_basis]
        /\ SizeOf("native", C) = [c \in DOMAIN C |-> C[c].amount]
        /\ SizeOf("rmb", C) = [c \in DOMAIN C |-> C[c].basis]
    BY DEF PartOf, SizeOf
  <2>3. \A m : DOMAIN PartOf(m, A) = DOMAIN A /\ DOMAIN SizeOf(m, C) = DOMAIN C
    BY DEF PartOf, SizeOf
  <2>4. /\ Carries("native", A, <<e, l>>) = AmountCarried(b, alike(e, l))
        /\ Carries("rmb", A, <<e, l>>) = BasisCarried(b, alike(e, l))
        /\ Paid("native", C, <<e, l>>) = AmountTaken(b, paid(e, l))
        /\ Paid("rmb", C, <<e, l>>) = BasisTaken(b, paid(e, l))
    <3> HIDE DEF alike, paid
    <3> QED BY <2>1, <2>2, <2>3 DEF Carries, Paid, GroupSum, AmountCarried, BasisCarried,
                                    AmountTaken, BasisTaken
  <2> HIDE DEF alike, paid
  <2> QED BY <2>4 DEF Measures
<1> HIDE DEF Fits
<1>4. ASSUME Backed(A, C) PROVE BackedIn(b)
  <2>1. \A e, l : Fits(e, l)
    BY <1>3, <1>4 DEF Backed
  <2> QED BY <1>2, <2>1
<1>5. ASSUME BackedIn(b) PROVE Backed(A, C)
  <2> SUFFICES ASSUME NEW m \in Measures, NEW k PROVE Carries(m, A, k) <= Paid(m, C, k)
    BY DEF Backed
  <2>1. CASE \A a \in DOMAIN A : BuyerOf(A)[a] # k
    <3> DEFINE g == PartOf(m, A)
               other == BuyerOf(A)
    <3>1. \A x \in DOMAIN g : other[x] # k
      BY <2>1 DEF PartOf
    <3> HIDE DEF g, other
    <3>2. GroupSum(g, other, k) = 0
      BY <3>1, GroupEmpty
    <3>3. Carries(m, A, k) = 0 /\ Paid(m, C, k) \in Nat
      BY <1>1, <3>2, PaidNat DEF Carries, g, other
    <3> QED BY <3>3
  <2>2. CASE \E a \in DOMAIN A : BuyerOf(A)[a] = k
    <3>1. PICK a \in DOMAIN A : BuyerOf(A)[a] = k
      BY <2>2
    <3>2. k = <<A[a].target_event, A[a].source_lot>>
      BY <3>1 DEF BuyerOf
    <3>3. Fits(A[a].target_event, A[a].source_lot)
      BY <1>2, <1>5
    <3> QED BY <1>3, <3>2, <3>3
  <2> QED BY <2>1, <2>2
<1> QED BY <1>4, <1>5
-----------------------------------------------------------------------------
(* What an event accounts for: the money it drew, and the money that its   *)
(* gaps say was lacking for an asset.                                      *)

Spenders(C) == [c \in DOMAIN C |-> C[c].event]
Drew(C, d) == GroupSum(Amounts(C), Spenders(C), d)

Shortfalls(G) == [g \in DOMAIN G |-> G[g].shortfall]
Buyers(G) == [g \in DOMAIN G |-> IF G[g].asset \in Assets THEN G[g].event ELSE 0]
Lacked(G, d) == GroupSum(Shortfalls(G), Buyers(G), d)

Accounted(b, d) == Drew(b.consumptions, d) + Lacked(b.gaps, d)

(* The events that are not served account for what they did. *)
OldAccounts(before, b, served) ==
    \A d \in Nat \ {0} : d \notin served => Accounted(b, d) = Accounted(before, d)

LEMMA AccountsNat ==
    ASSUME NEW b, RowsTyped(b), NEW d
    PROVE  /\ Drew(b.consumptions, d) \in Nat /\ Lacked(b.gaps, d) \in Nat
           /\ Accounted(b, d) \in Nat
<1>1. /\ IsFiniteSet(DOMAIN b.consumptions)
      /\ Amounts(b.consumptions) \in [DOMAIN b.consumptions -> Nat]
  BY DEF RowsTyped, IsTable, Amounts, Consumption
<1>2. IsFiniteSet(DOMAIN b.gaps) /\ Shortfalls(b.gaps) \in [DOMAIN b.gaps -> Nat]
  BY DEF RowsTyped, IsTable, Shortfalls, Gap
<1>3. Drew(b.consumptions, d) \in Nat
  BY <1>1, GroupNat DEF Drew
<1>4. Lacked(b.gaps, d) \in Nat
  BY <1>2, GroupNat DEF Lacked
<1> QED BY <1>3, <1>4 DEF Accounted

(* The same consumptions and gaps account for the same. *)
LEMMA SameAccounts ==
    ASSUME NEW a, NEW b, a.consumptions = b.consumptions, a.gaps = b.gaps
    PROVE  \A d : Accounted(a, d) = Accounted(b, d)
  BY DEF Accounted

(* A new consumption accounts for its amount. *)
LEMMA DrewMore ==
    ASSUME NEW C, IsTable(C, Consumption), NEW D, IsTable(D, Consumption),
           NEW n, NEW row, OneMore(C, D, n, row), NEW k
    PROVE  Drew(D, k) = Drew(C, k) + (IF row.event = k THEN row.amount ELSE 0)
<1>1. /\ IsFiniteSet(DOMAIN C) /\ Amounts(C) \in [DOMAIN C -> Nat]
      /\ Amounts(D) \in [DOMAIN D -> Nat]
  BY DEF IsTable, Amounts, Consumption
<1>2. /\ n \notin DOMAIN C /\ DOMAIN D = DOMAIN C \cup {n} /\ D[n] = row
      /\ \A c \in DOMAIN C : D[c] = C[c]
  BY DEF OneMore
<1>3. /\ \A c \in DOMAIN C : Amounts(D)[c] = Amounts(C)[c] /\ Spenders(D)[c] = Spenders(C)[c]
      /\ Amounts(D)[n] = row.amount /\ Spenders(D)[n] = row.event
  BY <1>2 DEF Amounts, Spenders
<1> DEFINE f == Amounts(C)
           g == Amounts(D)
           S == DOMAIN C
           key == Spenders(C)
           other == Spenders(D)
<1>4. /\ IsFiniteSet(S) /\ f \in [S -> Nat] /\ n \notin S /\ g \in [S \cup {n} -> Nat]
      /\ \A x \in S : g[x] = f[x] /\ other[x] = key[x]
  BY <1>1, <1>2, <1>3
<1>5. GroupSum(g, other, k) = GroupSum(f, key, k) + (IF other[n] = k THEN g[n] ELSE 0)
  <2> HIDE DEF f, g, S, key, other
  <2> QED BY <1>4, GroupAdded
<1> QED BY <1>3, <1>5 DEF Drew

(* A new gap accounts for its shortfall, if it is one of an asset. *)
LEMMA LackedMore ==
    ASSUME NEW G, IsTable(G, Gap), NEW H, IsTable(H, Gap),
           NEW n, NEW row, OneMore(G, H, n, row), NEW k
    PROVE  Lacked(H, k) = Lacked(G, k)
             + (IF (IF row.asset \in Assets THEN row.event ELSE 0) = k THEN row.shortfall ELSE 0)
<1>1. /\ IsFiniteSet(DOMAIN G) /\ Shortfalls(G) \in [DOMAIN G -> Nat]
      /\ Shortfalls(H) \in [DOMAIN H -> Nat]
  BY DEF IsTable, Shortfalls, Gap
<1>2. /\ n \notin DOMAIN G /\ DOMAIN H = DOMAIN G \cup {n} /\ H[n] = row
      /\ \A x \in DOMAIN G : H[x] = G[x]
  BY DEF OneMore
<1>3. /\ \A x \in DOMAIN G : Shortfalls(H)[x] = Shortfalls(G)[x] /\ Buyers(H)[x] = Buyers(G)[x]
      /\ Shortfalls(H)[n] = row.shortfall
      /\ Buyers(H)[n] = (IF row.asset \in Assets THEN row.event ELSE 0)
  BY <1>2 DEF Shortfalls, Buyers
<1> DEFINE f == Shortfalls(G)
           g == Shortfalls(H)
           S == DOMAIN G
           key == Buyers(G)
           other == Buyers(H)
<1>4. /\ IsFiniteSet(S) /\ f \in [S -> Nat] /\ n \notin S /\ g \in [S \cup {n} -> Nat]
      /\ \A x \in S : g[x] = f[x] /\ other[x] = key[x]
  BY <1>1, <1>2, <1>3
<1>5. GroupSum(g, other, k) = GroupSum(f, key, k) + (IF other[n] = k THEN g[n] ELSE 0)
  <2> HIDE DEF f, g, S, key, other
  <2> QED BY <1>4, GroupAdded
<1> QED BY <1>3, <1>5 DEF Lacked

-----------------------------------------------------------------------------
(* Sound books.                                                            *)

NotOverspent(lot, taken, cost) ==
    /\ taken + lot.remaining_amount <= lot.original_amount
    /\ lot.original_basis # NoBasis => cost + lot.remaining_basis <= lot.original_basis

(* SpentOnceIn, lot by lot. *)
LEMMA SpentLots ==
    ASSUME NEW b
    PROVE  SpentOnceIn(b) <=>
             (\A l \in DOMAIN b.lots :
                NotOverspent(b.lots[l], Taken(b.consumptions, l), Cost(b.consumptions, l)))
  BY TakenNames DEF SpentOnceIn, NotOverspent

ExactLot(b, evs, l) ==
    /\ b.lots[l].created_at = evs[b.lots[l].source_event].time
    /\ b.lots[l].original_amount = b.lots[l].remaining_amount + Taken(b.consumptions, l)

PaidInTime(b, evs, c) ==
    b.lots[b.consumptions[c].lot].created_at <= evs[b.consumptions[c].event].time

(* Exact, row by row. *)
LEMMA ExactRows ==
    ASSUME NEW b, NEW evs, NEW u
    PROVE  Exact(b, evs, u) <=>
             (/\ \A l \in DOMAIN b.lots : b.lots[l].user = u => ExactLot(b, evs, l)
              /\ \A c \in DOMAIN b.consumptions :
                   evs[b.consumptions[c].event].user = u => PaidInTime(b, evs, c))
  BY TakenNames DEF Exact, ExactLot, PaidInTime

(* The rows of everybody but user u. *)
OtherLots(b, u) == {l \in DOMAIN b.lots : b.lots[l].user # u}
OtherConsumptions(b, u) ==
    {c \in DOMAIN b.consumptions : b.lots[b.consumptions[c].lot].user # u}
OtherGaps(b, u) == {g \in DOMAIN b.gaps : b.gaps[g].user # u}

OthersKept(before, b, u) ==
    /\ OtherLots(b, u) = OtherLots(before, u)
    /\ \A l \in OtherLots(before, u) : b.lots[l] = before.lots[l]
    /\ OtherConsumptions(b, u) = OtherConsumptions(before, u)
    /\ \A c \in OtherConsumptions(before, u) : b.consumptions[c] = before.consumptions[c]
    /\ OtherGaps(b, u) = OtherGaps(before, u)
    /\ \A g \in OtherGaps(before, u) : b.gaps[g] = before.gaps[g]

(* What the handlers of the events in `served', user u's, keep; `exact' is *)
(* TRUE while books that were cleared are replayed.                        *)
Sound(before, evs, u, exact, served, b) ==
    /\ RowsTyped(b)
    /\ NoStraysIn(b, evs)
    /\ SpentOnceIn(b)
    /\ Backed(b.attributions, b.consumptions)
    /\ OthersKept(before, b, u)
    /\ exact => Exact(b, evs, u)
    /\ exact \/ OldAccounts(before, b, served)

BookSet == [lots : TableOf(Lot), consumptions : TableOf(Consumption),
            attributions : TableOf(Attribution), gaps : TableOf(Gap)]

SoundBooks(before, evs, u, exact, served) ==
    {b \in BookSet : Sound(before, evs, u, exact, served, b)}

(* Event e of history evs is user u's, and one of those that are served. *)
Handles(evs, e, u, served) ==
    IsTable(evs, Event) /\ e \in DOMAIN evs /\ evs[e].user = u /\ e \in served

(* Typed tables make typed books. *)
LEMMA TypedBooks ==
    ASSUME NEW b, RowsTyped(b), HasTables(b)
    PROVE  b \in BookSet
  BY TableInSet DEF RowsTyped, HasTables, BookSet

(* A new lot of the handler's event keeps the books sound. *)
LEMMA OpenLotSound ==
    ASSUME NEW before, NEW evs, NEW u, NEW exact, NEW served,
           NEW b \in SoundBooks(before, evs, u, exact, served),
           NEW e, Handles(evs, e, u, served),
           NEW currency \in STRING, NEW amount \in Nat, NEW basis \in Bases
    PROVE  OpenLot(b, e, evs[e], currency, amount, basis)
             \in SoundBooks(before, evs, u, exact, served)
<1> DEFINE lot == NewLot(u, currency, e, amount, basis, evs[e].time)
           n == NextId(b.lots)
           d == OpenLot(b, e, evs[e], currency, amount, basis)
<1>0. /\ b \in BookSet /\ RowsTyped(b) /\ NoStraysIn(b, evs) /\ SpentOnceIn(b)
      /\ OthersKept(before, b, u) /\ (exact => Exact(b, evs, u))
  BY DEF SoundBooks, Sound
<1>1. /\ evs[e] \in Event /\ evs[e].user = u /\ e \in Nat /\ e \in DOMAIN evs
      /\ u \in Users /\ evs[e].time \in Times
  BY DEF Handles, IsTable, Event
<1>2. lot \in Lot
  BY <1>1, NoBasisAssumption DEF NewLot, Lot, LotRow, LotChecks, Bases, Statuses
<1>3. d = [lots |-> Insert(b.lots, lot), consumptions |-> b.consumptions,
           attributions |-> b.attributions, gaps |-> b.gaps]
  BY <1>0, <1>1 DEF OpenLot, BookSet
<1> HIDE DEF d
<1>4. /\ n \notin DOMAIN b.lots /\ DOMAIN d.lots = DOMAIN b.lots \cup {n}
      /\ d.lots[n] = lot /\ \A i \in DOMAIN b.lots : d.lots[i] = b.lots[i]
      /\ d.consumptions = b.consumptions /\ d.attributions = b.attributions /\ d.gaps = b.gaps
  <2> HIDE DEF lot
  <2>1. IsTable(b.lots, Lot)
    BY <1>0 DEF RowsTyped
  <2>2. n \notin DOMAIN b.lots
    BY <2>1, FreshKey
  <2>3. /\ DOMAIN Insert(b.lots, lot) = DOMAIN b.lots \cup {NextId(b.lots)}
        /\ Insert(b.lots, lot)[NextId(b.lots)] = lot
        /\ \A i \in DOMAIN b.lots : Insert(b.lots, lot)[i] = b.lots[i]
    BY <2>1, InsertRow
  <2> QED BY <1>3, <2>2, <2>3
<1> HIDE DEF n
<1>5. RowsTyped(d)
  <2> HIDE DEF lot
  <2>1. IsTable(Insert(b.lots, lot), Lot)
    BY <1>0, <1>2, InsertTyped DEF RowsTyped
  <2> QED BY <1>0, <1>3, <2>1 DEF RowsTyped
<1>6. d \in BookSet
  <2>1. HasTables(d)
    BY <1>3 DEF HasTables
  <2> QED BY <1>5, <2>1, TypedBooks
<1>7. lot.user = u /\ lot.source_event = e /\ lot.created_at = evs[e].time
      /\ lot.remaining_amount = amount /\ lot.original_amount = amount
      /\ lot.original_basis = basis /\ lot.remaining_basis = basis
  BY DEF NewLot
<1> HIDE DEF lot
<1>8. NoStraysIn(d, evs)
  BY <1>0, <1>1, <1>4, <1>7 DEF NoStraysIn, SameOwner
<1>9. Taken(b.consumptions, n) = 0 /\ Cost(b.consumptions, n) = 0
  <2>1. \A c \in DOMAIN b.consumptions : b.consumptions[c].lot # n
    BY <1>0, <1>4 DEF NoStraysIn, SameOwner
  <2> QED BY <2>1, NothingTaken
<1>10. SpentOnceIn(d)
  <2>1. \A l \in DOMAIN b.lots :
          NotOverspent(b.lots[l], Taken(b.consumptions, l), Cost(b.consumptions, l))
    BY <1>0, SpentLots
  <2>2. NotOverspent(lot, Taken(b.consumptions, n), Cost(b.consumptions, n))
    BY <1>7, <1>9 DEF NotOverspent, Bases
  <2>3. \A l \in DOMAIN d.lots :
          NotOverspent(d.lots[l], Taken(d.consumptions, l), Cost(d.consumptions, l))
    BY <1>4, <2>1, <2>2
  <2> QED BY <2>3, SpentLots
<1>11. OthersKept(before, d, u)
  <2>1. OtherLots(d, u) = OtherLots(b, u)
    BY <1>4, <1>7 DEF OtherLots
  <2>2. OtherConsumptions(d, u) = OtherConsumptions(b, u)
    BY <1>0, <1>4 DEF OtherConsumptions, NoStraysIn, SameOwner
  <2>3. OtherGaps(d, u) = OtherGaps(b, u)
    BY <1>4 DEF OtherGaps
  <2>4. \A l \in OtherLots(b, u) : d.lots[l] = b.lots[l]
    BY <1>4 DEF OtherLots
  <2> QED BY <1>0, <1>4, <2>1, <2>2, <2>3, <2>4 DEF OthersKept
<1>12. exact => Exact(d, evs, u)
  <2> SUFFICES ASSUME exact PROVE Exact(d, evs, u)
    OBVIOUS
  <2>1. /\ \A l \in DOMAIN b.lots : b.lots[l].user = u => ExactLot(b, evs, l)
        /\ \A c \in DOMAIN b.consumptions :
             evs[b.consumptions[c].event].user = u => PaidInTime(b, evs, c)
    BY <1>0, ExactRows
  <2>2. ExactLot(d, evs, n)
    BY <1>4, <1>7, <1>9 DEF ExactLot
  <2>3. \A l \in DOMAIN b.lots : b.lots[l].user = u => ExactLot(d, evs, l)
    BY <1>4, <2>1 DEF ExactLot
  <2>4. \A c \in DOMAIN b.consumptions : b.consumptions[c].lot \in DOMAIN b.lots
    BY <1>0 DEF NoStraysIn, SameOwner
  <2>5. \A c \in DOMAIN b.consumptions :
          evs[b.consumptions[c].event].user = u => PaidInTime(d, evs, c)
    BY <1>4, <2>1, <2>4 DEF PaidInTime
  <2>6. /\ \A l \in DOMAIN d.lots : d.lots[l].user = u => ExactLot(d, evs, l)
        /\ \A c \in DOMAIN d.consumptions :
             evs[d.consumptions[c].event].user = u => PaidInTime(d, evs, c)
    BY <1>4, <2>2, <2>3, <2>5
  <2> QED BY <2>6, ExactRows
<1>13. Backed(d.attributions, d.consumptions)
  BY <1>4 DEF SoundBooks, Sound
<1>14. exact \/ OldAccounts(before, d, served)
  <2>1. \A k : Accounted(d, k) = Accounted(b, k)
    BY <1>4, SameAccounts
  <2> QED BY <2>1 DEF SoundBooks, Sound, OldAccounts
<1> QED BY <1>5, <1>6, <1>8, <1>10, <1>11, <1>12, <1>13, <1>14 DEF SoundBooks, Sound, d
-----------------------------------------------------------------------------
(* Drawing on a lot.                                                       *)

(* A quotient below q + 1 is at most q. *)
LEMMA QuotientBound ==
    ASSUME NEW n \in Nat, NEW d \in Nat \ {0}, NEW q \in Nat, n < d * (q + 1)
    PROVE  n \div d \in 0 .. q
  BY Z3

(* A share of an amount is at most the whole, however it is rounded. *)
LEMMA ShareWithin ==
    ASSUME NEW basis \in Nat, NEW whole \in Nat, NEW part \in 0 .. whole
    PROVE  BasisShare(basis, part, whole) \in 0 .. basis
<1>1. CASE part = whole
  BY <1>1 DEF BasisShare
<1>2. CASE part # whole
  <2> DEFINE n == 2 * (basis * part) + whole
             d == 2 * whole
  <2>0. whole \in Nat \ {0}
    BY <1>2
  <2>1. basis * part \in Nat /\ basis * whole \in Nat /\ basis * part <= basis * whole
    BY Z3
  <2>2. d * (basis + 1) = 2 * (basis * whole) + 2 * whole
    BY Z3
  <2>3. n \in Nat /\ d \in Nat \ {0} /\ n < d * (basis + 1)
    BY <2>0, <2>1, <2>2
  <2> HIDE DEF n, d
  <2>4. n \div d \in 0 .. basis
    BY <2>3, QuotientBound
  <2> QED BY <1>2, <2>4 DEF BasisShare, RoundHalfUp, n, d
<1> QED BY <1>1, <1>2

Payable(b, u, time) ==
    {l \in DOMAIN b.lots : /\ b.lots[l].user = u /\ b.lots[l].original_basis # NoBasis
                           /\ b.lots[l].created_at <= time}

(* The columns of a lot. *)
LEMMA LotColumns ==
    ASSUME NEW lot \in Lot
    PROVE  /\ lot \in LotRow /\ LotChecks(lot)
           /\ lot.user \in Users /\ lot.currency \in STRING /\ lot.source_event \in Nat
           /\ lot.original_amount \in Nat /\ lot.remaining_amount \in Nat
           /\ lot.status \in Statuses /\ lot.created_at \in Times
           /\ lot.original_basis \in Bases /\ lot.remaining_basis \in Bases
           /\ lot.original_basis # NoBasis =>
                /\ lot.original_basis \in Nat /\ lot.remaining_basis \in Nat
                /\ lot.remaining_basis <= lot.original_basis
  BY DEF Lot, LotRow, LotChecks, Bases

(* A priced lot that gives up an amount it holds stays a good row. *)
LEMMA ConsumedRow ==
    ASSUME NEW lot \in Lot, lot.original_basis # NoBasis,
           NEW amount \in 0 .. lot.remaining_amount
    PROVE  LET share == BasisShare(lot.remaining_basis, amount, lot.remaining_amount)
               after == Consumed(lot, amount)
           IN  /\ share \in 0 .. lot.remaining_basis
               /\ after \in Lot
               /\ after.user = lot.user /\ after.created_at = lot.created_at
               /\ after.source_event = lot.source_event
               /\ after.original_amount = lot.original_amount
               /\ after.original_basis = lot.original_basis
               /\ after.remaining_amount = lot.remaining_amount - amount
               /\ after.remaining_basis = lot.remaining_basis - share
<1> DEFINE share == BasisShare(lot.remaining_basis, amount, lot.remaining_amount)
           after == Consumed(lot, amount)
<1>1. /\ lot \in LotRow /\ LotChecks(lot) /\ lot.remaining_amount \in Nat
      /\ lot.original_basis \in Nat /\ lot.remaining_basis \in Nat
      /\ lot.remaining_basis <= lot.original_basis
  BY LotColumns
<1>2. share \in 0 .. lot.remaining_basis
  BY <1>1, ShareWithin
<1>3. after = [lot EXCEPT !.remaining_amount = lot.remaining_amount - amount,
                          !.remaining_basis = lot.remaining_basis - share,
                          !.status = IF amount = lot.remaining_amount
                                     THEN "FULLY_CONSUMED" ELSE lot.status]
  BY DEF Consumed
<1> HIDE DEF share, after
<1>4. lot.remaining_amount - amount \in Nat /\ lot.remaining_basis - share \in Nat
  BY <1>1, <1>2
<1>5. /\ after.user = lot.user /\ after.created_at = lot.created_at
      /\ after.source_event = lot.source_event
      /\ after.original_amount = lot.original_amount
      /\ after.original_basis = lot.original_basis
      /\ after.remaining_amount = lot.remaining_amount - amount
      /\ after.remaining_basis = lot.remaining_basis - share
      /\ after.status = IF amount = lot.remaining_amount THEN "FULLY_CONSUMED" ELSE lot.status
  BY <1>1, <1>3 DEF LotRow
<1>6. after \in LotRow
  BY <1>1, <1>3, <1>4 DEF LotRow, Bases, Statuses
<1>7. LotChecks(after)
  BY <1>1, <1>2, <1>4, <1>5, NoBasisAssumption DEF LotChecks, LotRow
<1> QED BY <1>2, <1>5, <1>6, <1>7 DEF Lot, share, after

Spent(b, e, l, amount) ==
    [lots |-> [b.lots EXCEPT ![l] = Consumed(b.lots[l], amount)],
     consumptions |-> Insert(b.consumptions, ConsumptionOf(l, b.lots[l], e, amount)),
     attributions |-> b.attributions, gaps |-> b.gaps]

(* Taking an amount out of a lot that may pay keeps the books sound. *)
LEMMA SpentSound ==
    ASSUME NEW before, NEW evs, NEW u, NEW exact, NEW served,
           NEW b \in SoundBooks(before, evs, u, exact, served),
           NEW e, Handles(evs, e, u, served), NEW l \in Payable(b, u, evs[e].time),
           NEW amount \in 0 .. b.lots[l].remaining_amount
    PROVE  /\ Spent(b, e, l, amount) \in SoundBooks(before, evs, u, exact, served)
           /\ Payable(Spent(b, e, l, amount), u, evs[e].time) = Payable(b, u, evs[e].time)
           /\ ConsumptionOf(l, b.lots[l], e, amount) \in Consumption
           /\ OneMore(b.consumptions, Spent(b, e, l, amount).consumptions,
                      NextId(b.consumptions), ConsumptionOf(l, b.lots[l], e, amount))
           /\ Spent(b, e, l, amount).attributions = b.attributions
           /\ Accounted(Spent(b, e, l, amount), e) = Accounted(b, e) + amount
<1> DEFINE lot == b.lots[l]
           row == ConsumptionOf(l, lot, e, amount)
           n == NextId(b.consumptions)
           d == Spent(b, e, l, amount)
<1>0. /\ b \in BookSet /\ RowsTyped(b) /\ NoStraysIn(b, evs) /\ SpentOnceIn(b)
      /\ OthersKept(before, b, u) /\ (exact => Exact(b, evs, u))
  BY DEF SoundBooks, Sound
<1>1. /\ evs[e].user = u /\ e \in Nat /\ e \in DOMAIN evs /\ evs[e].time \in Nat
  BY FundingAttributionAssumption DEF Handles, IsTable, Event
<1>2. /\ l \in DOMAIN b.lots /\ lot \in Lot /\ lot.user = u /\ l \in Nat
      /\ lot.original_basis # NoBasis /\ lot.created_at <= evs[e].time
  BY <1>0 DEF Payable, RowsTyped, IsTable
<1> DEFINE share == BasisShare(lot.remaining_basis, amount, lot.remaining_amount)
           after == Consumed(lot, amount)
<1>3. /\ share \in 0 .. lot.remaining_basis /\ after \in Lot
      /\ after.user = lot.user /\ after.created_at = lot.created_at
      /\ after.source_event = lot.source_event
      /\ after.original_amount = lot.original_amount
      /\ after.original_basis = lot.original_basis
      /\ after.remaining_amount = lot.remaining_amount - amount
      /\ after.remaining_basis = lot.remaining_basis - share
  <2>1. amount \in 0 .. lot.remaining_amount
    OBVIOUS
  <2> HIDE DEF lot
  <2> QED BY <1>2, <2>1, ConsumedRow
<1>4. /\ lot.remaining_amount \in Nat /\ lot.original_amount \in Nat
      /\ lot.remaining_basis \in Nat /\ lot.original_basis \in Nat
      /\ lot.created_at \in Times
  <2> HIDE DEF lot
  <2> QED BY <1>2, LotColumns
<1>5. /\ row.lot = l /\ row.event = e /\ row.amount = amount /\ row.basis = share
      /\ row \in Consumption
  <2>1. amount \in Nat /\ share \in Nat /\ lot.remaining_amount - amount \in Nat
    BY <1>3, <1>4
  <2>2. row = [lot |-> l, event |-> e, amount |-> amount, basis |-> share,
               remaining_after |-> lot.remaining_amount - amount]
    BY DEF ConsumptionOf
  <2> HIDE DEF row, share, lot
  <2> QED BY <1>1, <1>2, <2>1, <2>2 DEF Consumption
<1> HIDE DEF share
<1>6. d = [lots |-> [b.lots EXCEPT ![l] = after], consumptions |-> Insert(b.consumptions, row),
           attributions |-> b.attributions, gaps |-> b.gaps]
  BY DEF Spent
<1> HIDE DEF row, after, d
<1>7. /\ DOMAIN d.lots = DOMAIN b.lots /\ d.lots[l] = after
      /\ \A k \in DOMAIN b.lots : k # l => d.lots[k] = b.lots[k]
      /\ d.attributions = b.attributions /\ d.gaps = b.gaps
      /\ d.consumptions = Insert(b.consumptions, row)
  BY <1>2, <1>6
<1>8. /\ n \notin DOMAIN b.consumptions
      /\ DOMAIN d.consumptions = DOMAIN b.consumptions \cup {n}
      /\ d.consumptions[n] = row
      /\ \A c \in DOMAIN b.consumptions : d.consumptions[c] = b.consumptions[c]
  <2>1. IsTable(b.consumptions, Consumption)
    BY <1>0 DEF RowsTyped
  <2>2. n \notin DOMAIN b.consumptions
    BY <2>1, FreshKey
  <2>3. /\ DOMAIN Insert(b.consumptions, row) = DOMAIN b.consumptions \cup {NextId(b.consumptions)}
        /\ Insert(b.consumptions, row)[NextId(b.consumptions)] = row
        /\ \A i \in DOMAIN b.consumptions : Insert(b.consumptions, row)[i] = b.consumptions[i]
    BY <2>1, InsertRow
  <2> QED BY <1>7, <2>2, <2>3
<1> HIDE DEF n
<1>9. RowsTyped(d)
  <2>1. IsTable(d.consumptions, Consumption)
    BY <1>0, <1>5, <1>7, InsertTyped DEF RowsTyped
  <2>2. IsTable([b.lots EXCEPT ![l] = after], Lot)
    BY <1>0, <1>2, <1>3, UpdateRow DEF RowsTyped
  <2> QED BY <1>0, <1>6, <2>1, <2>2 DEF RowsTyped
<1>10. d \in BookSet
  <2>1. HasTables(d)
    BY <1>6 DEF HasTables
  <2> QED BY <1>9, <2>1, TypedBooks
<1>11. \A k \in DOMAIN b.lots : /\ d.lots[k].user = b.lots[k].user
                               /\ d.lots[k].source_event = b.lots[k].source_event
                               /\ d.lots[k].created_at = b.lots[k].created_at
                               /\ d.lots[k].original_basis = b.lots[k].original_basis
  BY <1>3, <1>7
<1>12. NoStraysIn(d, evs)
  BY <1>0, <1>1, <1>2, <1>5, <1>7, <1>8, <1>11 DEF NoStraysIn, SameOwner
<1>13. /\ Taken(d.consumptions, l) = Taken(b.consumptions, l) + amount
       /\ Cost(d.consumptions, l) = Cost(b.consumptions, l) + share
       /\ \A k : k # l => /\ Taken(d.consumptions, k) = Taken(b.consumptions, k)
                          /\ Cost(d.consumptions, k) = Cost(b.consumptions, k)
  <2>1. IsTable(b.consumptions, Consumption)
    BY <1>0 DEF RowsTyped
  <2>2. /\ Taken(Insert(b.consumptions, row), row.lot) = Taken(b.consumptions, row.lot) + row.amount
        /\ Cost(Insert(b.consumptions, row), row.lot) = Cost(b.consumptions, row.lot) + row.basis
        /\ \A k : k # row.lot =>
              /\ Taken(Insert(b.consumptions, row), k) = Taken(b.consumptions, k)
              /\ Cost(Insert(b.consumptions, row), k) = Cost(b.consumptions, k)
    BY <1>5, <2>1, InsertTaken
  <2> QED BY <1>5, <1>7, <2>2
<1>14. Taken(b.consumptions, l) \in Nat /\ Cost(b.consumptions, l) \in Nat
  BY <1>0, FromTyped DEF RowsTyped
<1>15. SpentOnceIn(d)
  <2>1. \A k \in DOMAIN b.lots :
          NotOverspent(b.lots[k], Taken(b.consumptions, k), Cost(b.consumptions, k))
    BY <1>0, SpentLots
  <2>2. NotOverspent(after, Taken(d.consumptions, l), Cost(d.consumptions, l))
    BY <1>2, <1>3, <1>4, <1>13, <1>14, <2>1 DEF NotOverspent
  <2>3. \A k \in DOMAIN d.lots :
          NotOverspent(d.lots[k], Taken(d.consumptions, k), Cost(d.consumptions, k))
    BY <1>7, <1>13, <2>1, <2>2
  <2> QED BY <2>3, SpentLots
<1>16. OthersKept(before, d, u)
  <2>1. OtherLots(d, u) = OtherLots(b, u)
    BY <1>7, <1>11 DEF OtherLots
  <2>2. OtherConsumptions(d, u) = OtherConsumptions(b, u)
    BY <1>0, <1>2, <1>5, <1>7, <1>8, <1>11 DEF OtherConsumptions, NoStraysIn, SameOwner
  <2>3. OtherGaps(d, u) = OtherGaps(b, u)
    BY <1>7 DEF OtherGaps
  <2>4. \A k \in OtherLots(b, u) : d.lots[k] = b.lots[k]
    BY <1>2, <1>7 DEF OtherLots
  <2>5. \A c \in OtherConsumptions(b, u) : d.consumptions[c] = b.consumptions[c]
    BY <1>8 DEF OtherConsumptions
  <2> QED BY <1>0, <1>7, <2>1, <2>2, <2>3, <2>4, <2>5 DEF OthersKept
<1>17. exact => Exact(d, evs, u)
  <2> SUFFICES ASSUME exact PROVE Exact(d, evs, u)
    OBVIOUS
  <2>1. /\ \A k \in DOMAIN b.lots : b.lots[k].user = u => ExactLot(b, evs, k)
        /\ \A c \in DOMAIN b.consumptions :
             evs[b.consumptions[c].event].user = u => PaidInTime(b, evs, c)
    BY <1>0, ExactRows
  <2>2. ExactLot(d, evs, l)
    BY <1>2, <1>3, <1>4, <1>7, <1>13, <1>14, <2>1 DEF ExactLot
  <2>3. \A k \in DOMAIN b.lots : k # l /\ b.lots[k].user = u => ExactLot(d, evs, k)
    BY <1>7, <1>13, <2>1 DEF ExactLot
  <2>4. \A c \in DOMAIN b.consumptions : b.consumptions[c].lot \in DOMAIN b.lots
    BY <1>0 DEF NoStraysIn, SameOwner
  <2>5. \A c \in DOMAIN b.consumptions :
          evs[b.consumptions[c].event].user = u => PaidInTime(d, evs, c)
    BY <1>8, <1>11, <2>1, <2>4 DEF PaidInTime
  <2>6. PaidInTime(d, evs, n)
    BY <1>2, <1>5, <1>8, <1>11 DEF PaidInTime
  <2>7. /\ \A k \in DOMAIN d.lots : d.lots[k].user = u => ExactLot(d, evs, k)
        /\ \A c \in DOMAIN d.consumptions :
             evs[d.consumptions[c].event].user = u => PaidInTime(d, evs, c)
    BY <1>7, <1>8, <1>11, <2>2, <2>3, <2>5, <2>6
  <2> QED BY <2>7, ExactRows
<1>18. Payable(d, u, evs[e].time) = Payable(b, u, evs[e].time)
  BY <1>7, <1>11 DEF Payable
<1>19. OneMore(b.consumptions, d.consumptions, n, row)
  BY <1>8 DEF OneMore
<1>20. Backed(d.attributions, d.consumptions)
  <2>1. /\ IsTable(b.consumptions, Consumption) /\ IsTable(d.consumptions, Consumption)
        /\ IsTable(b.attributions, Attribution) /\ Backed(b.attributions, b.consumptions)
    BY <1>9 DEF SoundBooks, Sound, RowsTyped
  <2>2. Backed(b.attributions, d.consumptions)
    BY <1>5, <1>19, <2>1, MoreBacked
  <2> QED BY <1>7, <2>2
<1>21. \A k : Accounted(d, k) = Accounted(b, k) + (IF e = k THEN amount ELSE 0)
  <2> SUFFICES ASSUME NEW k
               PROVE  Accounted(d, k) = Accounted(b, k) + (IF e = k THEN amount ELSE 0)
    OBVIOUS
  <2>1. IsTable(b.consumptions, Consumption) /\ IsTable(d.consumptions, Consumption)
    BY <1>0, <1>9 DEF RowsTyped
  <2>2. Drew(d.consumptions, k)
          = Drew(b.consumptions, k) + (IF row.event = k THEN row.amount ELSE 0)
    BY <1>19, <2>1, DrewMore
  <2>3. Drew(b.consumptions, k) \in Nat /\ Lacked(b.gaps, k) \in Nat /\ amount \in Nat
    BY <1>0, <1>4, AccountsNat
  <2> QED BY <1>5, <1>7, <2>2, <2>3 DEF Accounted
<1>22. exact \/ OldAccounts(before, d, served)
  <2>1. \A k : k \notin served => Accounted(d, k) = Accounted(b, k)
    <3>1. \A k : Accounted(b, k) \in Nat
      BY <1>0, AccountsNat
    <3> QED BY <1>21, <3>1 DEF Handles
  <2> QED BY <2>1 DEF SoundBooks, Sound, OldAccounts
<1> QED BY <1>5, <1>7, <1>9, <1>10, <1>12, <1>15, <1>16, <1>17, <1>18, <1>19, <1>20, <1>21, <1>22
        DEF SoundBooks, Sound, d, row, n

(* What event e takes from the lots in C. *)
DrawnRows(e, C) == {row \in Consumption : row.lot \in C /\ row.event = e}

(* A list of rows is a table. *)
LEMMA DrawnTable ==
    ASSUME NEW e, NEW C, NEW list \in Seq(DrawnRows(e, C))
    PROVE  IsTable(list, Consumption)
<1>1. DOMAIN list = 1 .. Len(list) /\ Len(list) \in Nat
  OBVIOUS
<1>2. IsFiniteSet(1 .. Len(list))
  BY <1>1, FS_Interval
<1> QED BY <1>1, <1>2 DEF IsTable, DrawnRows

(* The state of allocate()'s loop, when C are the lots that may pay. *)
Draws(before, evs, u, exact, served, e, C) ==
    {run \in [book : SoundBooks(before, evs, u, exact, served), left : Nat, cost : Nat,
              drawn : Seq(DrawnRows(e, C))] :
        /\ Payable(run.book, u, evs[e].time) = C
        /\ Covered(run.book.attributions, run.drawn, run.book.consumptions)}

(* What event e accounts for, with what it still has to pay. *)
Due(run, e) == Accounted(run.book, e) + run.left

(* One turn of allocate()'s loop. *)
LEMMA DrawSound ==
    ASSUME NEW before, NEW evs, NEW u, NEW exact, NEW served,
           NEW e, Handles(evs, e, u, served), NEW C,
           NEW run \in Draws(before, evs, u, exact, served, e, C), NEW l \in C
    PROVE  /\ Draw(run, e, l) \in Draws(before, evs, u, exact, served, e, C)
           /\ Due(Draw(run, e, l), e) = Due(run, e)
<1>1. CASE run.left = 0
  BY <1>1 DEF Draw
<1>2. CASE run.left # 0
  <2> DEFINE lot == run.book.lots[l]
             amount == Smaller(lot.remaining_amount, run.left)
             row == ConsumptionOf(l, lot, e, amount)
             after == Spent(run.book, e, l, amount)
             next == Draw(run, e, l)
  <2>1. /\ run.book \in SoundBooks(before, evs, u, exact, served)
        /\ run.left \in Nat /\ run.cost \in Nat /\ run.drawn \in Seq(DrawnRows(e, C))
        /\ l \in Payable(run.book, u, evs[e].time) /\ Payable(run.book, u, evs[e].time) = C
        /\ Covered(run.book.attributions, run.drawn, run.book.consumptions)
        /\ run = [book |-> run.book, left |-> run.left, cost |-> run.cost, drawn |-> run.drawn]
    BY DEF Draws
  <2>2. run.book.lots[l].remaining_amount \in Nat /\ l \in DOMAIN run.book.lots
    <3>1. IsTable(run.book.lots, Lot) /\ l \in DOMAIN run.book.lots
      BY <2>1 DEF SoundBooks, Sound, RowsTyped, Payable
    <3>2. run.book.lots[l] \in Lot
      BY <3>1 DEF IsTable
    <3> QED BY <3>1, <3>2, LotColumns
  <2>3. amount \in 0 .. run.book.lots[l].remaining_amount /\ amount \in 0 .. run.left
    BY <2>1, <2>2 DEF Smaller
  <2>4. run.book = [lots |-> run.book.lots, consumptions |-> run.book.consumptions,
                    attributions |-> run.book.attributions, gaps |-> run.book.gaps]
    BY <2>1 DEF SoundBooks, BookSet
  <2>5. next \in [book : {after}, left : {run.left - row.amount}, cost : {run.cost + row.basis},
                  drawn : {Append(run.drawn, row)}]
    <3>1. next = [run EXCEPT !.book.lots[l] = Consumed(@, row.amount),
                             !.book.consumptions = Insert(@, row),
                             !.left = @ - row.amount, !.cost = @ + row.basis,
                             !.drawn = Append(@, row)]
      BY <1>2 DEF Draw
    <3>2. after = [lots |-> [run.book.lots EXCEPT ![l] = Consumed(run.book.lots[l], row.amount)],
                   consumptions |-> Insert(run.book.consumptions, row),
                   attributions |-> run.book.attributions, gaps |-> run.book.gaps]
      BY DEF ConsumptionOf, Spent
    <3>3. next \in [book : {[lots |-> [run.book.lots EXCEPT ![l] = Consumed(run.book.lots[l], row.amount)],
                             consumptions |-> Insert(run.book.consumptions, row),
                             attributions |-> run.book.attributions, gaps |-> run.book.gaps]},
                    left : {run.left - row.amount}, cost : {run.cost + row.basis},
                    drawn : {Append(run.drawn, row)}]
      <4> HIDE DEF next, row, amount, after
      <4> QED BY <2>1, <2>4, <3>1
    <3> QED BY <3>2, <3>3
  <2> HIDE DEF amount
  <2>6. /\ Spent(run.book, e, l, amount) \in SoundBooks(before, evs, u, exact, served)
        /\ Payable(Spent(run.book, e, l, amount), u, evs[e].time)
             = Payable(run.book, u, evs[e].time)
        /\ ConsumptionOf(l, run.book.lots[l], e, amount) \in Consumption
        /\ OneMore(run.book.consumptions, Spent(run.book, e, l, amount).consumptions,
                   NextId(run.book.consumptions), ConsumptionOf(l, run.book.lots[l], e, amount))
        /\ Spent(run.book, e, l, amount).attributions = run.book.attributions
        /\ Accounted(Spent(run.book, e, l, amount), e) = Accounted(run.book, e) + amount
    BY <2>1, <2>3, SpentSound
  <2>7. row \in DrawnRows(e, C) /\ row.amount = amount /\ row.basis \in Nat
    BY <2>6 DEF ConsumptionOf, Consumption, DrawnRows
  <2>8. /\ run.left - row.amount \in Nat /\ run.cost + row.basis \in Nat
        /\ Append(run.drawn, row) \in Seq(DrawnRows(e, C))
    <3> HIDE DEF row
    <3> QED BY <2>1, <2>3, <2>7
  <2>9. /\ after \in SoundBooks(before, evs, u, exact, served)
        /\ Payable(after, u, evs[e].time) = C
        /\ OneMore(run.book.consumptions, after.consumptions, NextId(run.book.consumptions), row)
        /\ after.attributions = run.book.attributions
    BY <2>1, <2>6
  <2>11. Covered(after.attributions, Append(run.drawn, row), after.consumptions)
    <3> DEFINE drawn == run.drawn
               longer == Append(drawn, row)
    <3> HIDE DEF row, after
    <3>1. drawn \in Seq(DrawnRows(e, C)) /\ longer \in Seq(DrawnRows(e, C))
      BY <2>1, <2>8
    <3>2. OneMore(drawn, longer, Len(drawn) + 1, row)
      BY <3>1 DEF OneMore
    <3> HIDE DEF longer, drawn
    <3>3. IsTable(drawn, Consumption) /\ IsTable(longer, Consumption)
      BY <3>1, DrawnTable
    <3>4. /\ IsTable(run.book.consumptions, Consumption) /\ IsTable(after.consumptions, Consumption)
          /\ IsTable(run.book.attributions, Attribution)
      BY <2>1, <2>9 DEF SoundBooks, Sound, RowsTyped
    <3>5. Covered(run.book.attributions, drawn, run.book.consumptions)
      BY <2>1 DEF drawn
    <3>6. Covered(run.book.attributions, longer, after.consumptions)
      BY <2>9, <3>2, <3>3, <3>4, <3>5, DrawnCovered
    <3> QED BY <2>9, <3>6 DEF longer, drawn
  <2>10. next \in Draws(before, evs, u, exact, served, e, C)
    <3> HIDE DEF next, after, row
    <3> QED BY <2>5, <2>8, <2>9, <2>11 DEF Draws
  <2>12. Due(next, e) = Due(run, e)
    <3>1. Accounted(after, e) = Accounted(run.book, e) + amount
      BY <2>6
    <3>2. Accounted(run.book, e) \in Nat
      BY <2>1, AccountsNat DEF SoundBooks, Sound
    <3>3. next.book = after /\ next.left = run.left - amount
      <4> HIDE DEF next, after, row
      <4> QED BY <2>5, <2>7
    <3> HIDE DEF next, after, row
    <3> QED BY <2>1, <2>3, <3>1, <3>2, <3>3 DEF Due
  <2> QED BY <2>10, <2>12
<1> QED BY <1>1, <1>2

(* A gap of the handler's event keeps the books sound. *)
LEMMA RecordGapSound ==
    ASSUME NEW before, NEW evs, NEW u, NEW exact, NEW served,
           NEW b \in SoundBooks(before, evs, u, exact, served),
           NEW e, Handles(evs, e, u, served),
           NEW currency \in STRING, NEW asset \in Assets \cup {NoAsset}, NEW shortfall \in Nat
    PROVE  /\ RecordGap(b, e, evs[e], currency, asset, shortfall)
                \in SoundBooks(before, evs, u, exact, served)
           /\ RecordGap(b, e, evs[e], currency, asset, shortfall).lots = b.lots
           /\ RecordGap(b, e, evs[e], currency, asset, shortfall).attributions = b.attributions
           /\ RecordGap(b, e, evs[e], currency, asset, shortfall).consumptions = b.consumptions
           /\ asset \in Assets =>
                Accounted(RecordGap(b, e, evs[e], currency, asset, shortfall), e)
                  = Accounted(b, e) + shortfall
<1> DEFINE row == [user |-> u, event |-> e, asset |-> asset,
                   currency |-> currency, shortfall |-> shortfall]
           n == NextId(b.gaps)
           d == RecordGap(b, e, evs[e], currency, asset, shortfall)
<1>0. /\ b \in BookSet /\ RowsTyped(b) /\ NoStraysIn(b, evs) /\ SpentOnceIn(b)
      /\ OthersKept(before, b, u) /\ (exact => Exact(b, evs, u))
  BY DEF SoundBooks, Sound
<1>1. /\ evs[e].user = u /\ e \in Nat /\ e \in DOMAIN evs /\ u \in Users
  BY DEF Handles, IsTable, Event
<1>2. row \in Gap /\ row.user = u /\ row.event = e
  BY <1>1 DEF Gap
<1>3. d = [lots |-> b.lots, consumptions |-> b.consumptions,
           attributions |-> b.attributions, gaps |-> Insert(b.gaps, row)]
  BY <1>0, <1>1 DEF RecordGap, BookSet
<1> HIDE DEF d, row
<1>4. /\ n \notin DOMAIN b.gaps /\ DOMAIN d.gaps = DOMAIN b.gaps \cup {n}
      /\ d.gaps[n] = row /\ \A i \in DOMAIN b.gaps : d.gaps[i] = b.gaps[i]
  <2>1. IsTable(b.gaps, Gap)
    BY <1>0 DEF RowsTyped
  <2>2. n \notin DOMAIN b.gaps
    BY <2>1, FreshKey
  <2>3. /\ DOMAIN Insert(b.gaps, row) = DOMAIN b.gaps \cup {NextId(b.gaps)}
        /\ Insert(b.gaps, row)[NextId(b.gaps)] = row
        /\ \A i \in DOMAIN b.gaps : Insert(b.gaps, row)[i] = b.gaps[i]
    BY <2>1, InsertRow
  <2> QED BY <1>3, <2>2, <2>3
<1> HIDE DEF n
<1>5. RowsTyped(d)
  <2>1. IsTable(Insert(b.gaps, row), Gap)
    BY <1>0, <1>2, InsertTyped DEF RowsTyped
  <2> QED BY <1>0, <1>3, <2>1 DEF RowsTyped
<1>6. d \in BookSet
  <2>1. HasTables(d)
    BY <1>3 DEF HasTables
  <2> QED BY <1>5, <2>1, TypedBooks
<1>7. /\ d.lots = b.lots /\ d.consumptions = b.consumptions /\ d.attributions = b.attributions
  BY <1>3
<1>8. NoStraysIn(d, evs)
  BY <1>0, <1>1, <1>2, <1>4, <1>7 DEF NoStraysIn, SameOwner
<1>9. SpentOnceIn(d)
  <2>1. \A l \in DOMAIN b.lots :
          NotOverspent(b.lots[l], Taken(b.consumptions, l), Cost(b.consumptions, l))
    BY <1>0, SpentLots
  <2> QED BY <1>7, <2>1, SpentLots
<1>10. OthersKept(before, d, u)
  <2>1. OtherLots(d, u) = OtherLots(b, u)
    BY <1>7 DEF OtherLots
  <2>2. OtherConsumptions(d, u) = OtherConsumptions(b, u)
    BY <1>7 DEF OtherConsumptions
  <2>3. OtherGaps(d, u) = OtherGaps(b, u)
    BY <1>2, <1>4 DEF OtherGaps
  <2>4. \A g \in OtherGaps(b, u) : d.gaps[g] = b.gaps[g]
    BY <1>4 DEF OtherGaps
  <2> QED BY <1>0, <1>7, <2>1, <2>2, <2>3, <2>4 DEF OthersKept
<1>11. exact => Exact(d, evs, u)
  <2> SUFFICES ASSUME exact PROVE Exact(d, evs, u)
    OBVIOUS
  <2>1. /\ \A l \in DOMAIN b.lots : b.lots[l].user = u => ExactLot(b, evs, l)
        /\ \A c \in DOMAIN b.consumptions :
             evs[b.consumptions[c].event].user = u => PaidInTime(b, evs, c)
    BY <1>0, ExactRows
  <2>2. /\ \A l \in DOMAIN d.lots : d.lots[l].user = u => ExactLot(d, evs, l)
        /\ \A c \in DOMAIN d.consumptions :
             evs[d.consumptions[c].event].user = u => PaidInTime(d, evs, c)
    BY <1>7, <2>1 DEF ExactLot, PaidInTime
  <2> QED BY <2>2, ExactRows
<1>12. Backed(d.attributions, d.consumptions)
  BY <1>7 DEF SoundBooks, Sound
<1>13. /\ row.asset = asset /\ row.shortfall = shortfall
       /\ OneMore(b.gaps, d.gaps, n, row)
  BY <1>4 DEF row, OneMore
<1>14. \A k : Accounted(d, k) = Accounted(b, k)
          + (IF (IF asset \in Assets THEN e ELSE 0) = k THEN shortfall ELSE 0)
  <2> SUFFICES ASSUME NEW k
               PROVE  Accounted(d, k) = Accounted(b, k)
                        + (IF (IF asset \in Assets THEN e ELSE 0) = k THEN shortfall ELSE 0)
    OBVIOUS
  <2>1. IsTable(b.gaps, Gap) /\ IsTable(d.gaps, Gap)
    BY <1>0, <1>5 DEF RowsTyped
  <2>2. Lacked(d.gaps, k) = Lacked(b.gaps, k)
          + (IF (IF row.asset \in Assets THEN row.event ELSE 0) = k THEN row.shortfall ELSE 0)
    BY <1>13, <2>1, LackedMore
  <2>3. Drew(b.consumptions, k) \in Nat /\ Lacked(b.gaps, k) \in Nat
    BY <1>0, AccountsNat
  <2> QED BY <1>2, <1>7, <1>13, <2>2, <2>3 DEF Accounted
<1>15. exact \/ OldAccounts(before, d, served)
  <2>1. \A k \in Nat \ {0} : k \notin served => Accounted(d, k) = Accounted(b, k)
    <3>1. \A k : Accounted(b, k) \in Nat
      BY <1>0, AccountsNat
    <3> QED BY <1>14, <3>1 DEF Handles
  <2> QED BY <2>1 DEF SoundBooks, Sound, OldAccounts
<1>16. asset \in Assets => Accounted(d, e) = Accounted(b, e) + shortfall
  BY <1>14
<1> QED BY <1>5, <1>6, <1>7, <1>8, <1>9, <1>10, <1>11, <1>12, <1>15, <1>16
        DEF SoundBooks, Sound, d

DrawOn(e, q, r, run, l) == Draw(run, e, l)

Drawing == INSTANCE FoldTheorems WITH Op <- DrawOn

(* allocate() keeps the books sound, and draws on lots that may pay. *)
LEMMA AllocateSound ==
    ASSUME NEW before, NEW evs, NEW u, NEW exact, NEW served,
           NEW b \in SoundBooks(before, evs, u, exact, served),
           NEW e, Handles(evs, e, u, served),
           NEW currency \in STRING, NEW needed \in Nat, NEW asset \in Assets \cup {NoAsset}
    PROVE  /\ Allocate(b, e, evs[e], currency, needed, asset)
                \in Draws(before, evs, u, exact, served, e, Payable(b, u, evs[e].time))
           /\ asset \in Assets =>
                Accounted(Allocate(b, e, evs[e], currency, needed, asset).book, e)
                  = Accounted(b, e) + needed
<1> DEFINE C == Payable(b, u, evs[e].time)
           D == Accounted(b, e) + needed
           X == {r \in Draws(before, evs, u, exact, served, e, C) : Due(r, e) = D}
           K == Where(b.lots, LAMBDA k : Spendable(k, u, currency, evs[e].time))
           order == InOrder(K, LAMBDA k, l : Precedes(b.lots, k, l))
           start == [book |-> b, left |-> needed, cost |-> 0, drawn |-> <<>>]
           run == FoldLeft(LAMBDA r, l : Draw(r, e, l), start, order)
           end == Allocate(b, e, evs[e], currency, needed, asset)
<1>1. evs[e].user = u
  BY DEF Handles
<1>2. /\ IsTable(b.lots, Lot)
      /\ \A l \in DOMAIN b.lots : b.lots[l] \in Lot /\ b.lots[l].created_at \in Nat
  <2>1. IsTable(b.lots, Lot)
    BY DEF SoundBooks, Sound, RowsTyped
  <2>2. \A l \in DOMAIN b.lots : b.lots[l] \in Lot
    BY <2>1 DEF IsTable
  <2> QED BY <2>1, <2>2, LotColumns, FundingAttributionAssumption
<1>3. K \subseteq DOMAIN b.lots /\ KeySet(K)
  <2>1. K \subseteq DOMAIN b.lots
    BY DEF Where
  <2> HIDE DEF K
  <2> QED BY <1>2, <2>1, FS_Subset DEF IsTable, KeySet
<1>4. K \subseteq C
  <2>1. \A l \in K : /\ l \in DOMAIN b.lots /\ b.lots[l].user = u
                     /\ b.lots[l].status = "AVAILABLE" /\ b.lots[l].created_at <= evs[e].time
    BY DEF Where, Spendable
  <2>2. \A l \in K : LotChecks(b.lots[l])
    BY <1>2, <2>1, LotColumns
  <2> HIDE DEF K
  <2> QED BY <2>1, <2>2 DEF Payable, LotChecks
<1>5. order \in Seq(K)
  <2>1. \A x \in K : b.lots[x].created_at \in Nat
    BY <1>2, <1>3
  <2> DEFINE lots == b.lots
  <2> HIDE DEF K, lots
  <2>2. \A x \in K : lots[x].created_at \in Nat
    BY <2>1 DEF lots
  <2>3. Aged(lots, K) \in Seq(K)
    BY <1>3, <2>2, LotsInOrder
  <2> QED BY <2>3 DEF lots, Aged
<1>6. start \in X
  <2>1. Covered(b.attributions, <<>>, b.consumptions)
    <3>1. /\ IsTable(b.attributions, Attribution) /\ IsTable(b.consumptions, Consumption)
          /\ Backed(b.attributions, b.consumptions)
      BY DEF SoundBooks, Sound, RowsTyped
    <3> QED BY <3>1, BackedCovered
  <2>2. start \in Draws(before, evs, u, exact, served, e, C)
    BY <2>1 DEF Draws
  <2>3. Due(start, e) = D
    BY DEF Due
  <2> QED BY <2>2, <2>3
<1>7. \A x \in X : \A l \in K : DrawOn(e, e, e, x, l) \in X
  <2> SUFFICES ASSUME NEW x \in X, NEW l \in K PROVE DrawOn(e, e, e, x, l) \in X
    OBVIOUS
  <2>1. l \in C /\ x \in Draws(before, evs, u, exact, served, e, C) /\ Due(x, e) = D
    BY <1>4
  <2> HIDE DEF C, K, D
  <2>2. /\ Draw(x, e, l) \in Draws(before, evs, u, exact, served, e, C)
        /\ Due(Draw(x, e, l), e) = Due(x, e)
    BY <2>1, DrawSound
  <2> QED BY <2>1, <2>2 DEF DrawOn
<1>8. Drawing!Folded(e, e, e, start, order) \in X
  <2> HIDE DEF X, K, start, order
  <2> QED BY <1>5, <1>6, <1>7, Drawing!Stays
<1>9. run = Drawing!Folded(e, e, e, start, order)
  <2> HIDE DEF start, order
  <2> QED BY DEF DrawOn, Drawing!Folded, Drawing!FoldLeft, Drawing!MapThenFoldSet,
                 FoldLeft, MapThenFoldSet, Drawing!Max, Max
<1>10. run \in Draws(before, evs, u, exact, served, e, C) /\ Due(run, e) = D
  BY <1>8, <1>9
<1>11. end = IF run.left = 0 THEN run
             ELSE [run EXCEPT !.book = RecordGap(@, e, evs[e], currency, asset, run.left)]
  BY <1>1 DEF Allocate
<1>14. Accounted(run.book, e) \in Nat /\ run.left \in Nat
  <2>1. run.book \in SoundBooks(before, evs, u, exact, served) /\ run.left \in Nat
    BY <1>10 DEF Draws
  <2> QED BY <2>1, AccountsNat DEF SoundBooks, Sound
<1> HIDE DEF run, end, K, order, start, D
<1>12. CASE run.left = 0
  <2>1. end = run
    BY <1>11, <1>12
  <2>2. Accounted(run.book, e) = D
    BY <1>10, <1>12, <1>14 DEF Due
  <2> HIDE DEF C
  <2>3. end \in Draws(before, evs, u, exact, served, e, C) /\ Accounted(end.book, e) = D
    BY <1>10, <2>1, <2>2
  <2> QED BY <2>3 DEF end, C, D
<1>13. CASE run.left # 0
  <2> DEFINE gapped == RecordGap(run.book, e, evs[e], currency, asset, run.left)
  <2>1. /\ run.book \in SoundBooks(before, evs, u, exact, served) /\ run.left \in Nat
        /\ run.cost \in Nat /\ run.drawn \in Seq(DrawnRows(e, C))
        /\ Payable(run.book, u, evs[e].time) = C
        /\ Covered(run.book.attributions, run.drawn, run.book.consumptions)
        /\ run = [book |-> run.book, left |-> run.left, cost |-> run.cost, drawn |-> run.drawn]
    BY <1>10 DEF Draws
  <2>2. /\ gapped \in SoundBooks(before, evs, u, exact, served) /\ gapped.lots = run.book.lots
        /\ gapped.attributions = run.book.attributions
        /\ gapped.consumptions = run.book.consumptions
        /\ asset \in Assets => Accounted(gapped, e) = Accounted(run.book, e) + run.left
    <3> DEFINE left == run.left
               book == run.book
    <3>1. book \in SoundBooks(before, evs, u, exact, served) /\ left \in Nat
      BY <2>1
    <3> HIDE DEF left, book, C
    <3>2. /\ RecordGap(book, e, evs[e], currency, asset, left)
               \in SoundBooks(before, evs, u, exact, served)
          /\ RecordGap(book, e, evs[e], currency, asset, left).lots = book.lots
          /\ RecordGap(book, e, evs[e], currency, asset, left).attributions = book.attributions
          /\ RecordGap(book, e, evs[e], currency, asset, left).consumptions = book.consumptions
          /\ asset \in Assets =>
               Accounted(RecordGap(book, e, evs[e], currency, asset, left), e)
                 = Accounted(book, e) + left
      BY <3>1, RecordGapSound
    <3> QED BY <3>2 DEF left, book
  <2>3. end = [book |-> gapped, left |-> run.left, cost |-> run.cost, drawn |-> run.drawn]
    <3> HIDE DEF gapped
    <3>1. end = [run EXCEPT !.book = gapped]
      BY <1>11, <1>13 DEF gapped
    <3> QED BY <2>1, <3>1
  <2> HIDE DEF gapped
  <2>4. Payable(gapped, u, evs[e].time) = C
    BY <2>1, <2>2 DEF Payable
  <2> HIDE DEF C
  <2>5. end \in Draws(before, evs, u, exact, served, e, C)
    BY <2>1, <2>2, <2>3, <2>4 DEF Draws
  <2>6. asset \in Assets => Accounted(end.book, e) = D
    BY <1>10, <2>2, <2>3 DEF Due
  <2> QED BY <2>5, <2>6 DEF end, C, D
<1> QED BY <1>12, <1>13
-----------------------------------------------------------------------------
(* The entries of an event.                                                *)

(* The members of a list. *)
Entering(cash) == {c \in ToSet(cash) : c.currency # CNY /\ c.delta > 0}
Leaving(cash) == {c \in ToSet(cash) : c.currency # CNY /\ c.delta < 0}

(* The foreign-currency legs of an event's cash. *)
LEMMA CashLegs ==
    ASSUME NEW cash \in Seq(CashEntry)
    PROVE  /\ Inflows(cash) \in Seq(ToSet(Inflows(cash)))
           /\ \A c \in ToSet(Inflows(cash)) :
                c \in CashEntry /\ c.currency \in STRING /\ c.delta \in Nat
           /\ Outflows(cash) \in Seq(ToSet(Outflows(cash)))
           /\ \A c \in ToSet(Outflows(cash)) :
                c.currency \in STRING /\ c.delta \in Int /\ -c.delta \in Nat
<1>1. Inflows(cash) = Chosen(cash, Entering(cash)) /\ Outflows(cash) = Chosen(cash, Leaving(cash))
  BY DEF Inflows, Outflows, Entering, Leaving
<1>2. Entering(cash) \subseteq ToSet(cash) /\ Leaving(cash) \subseteq ToSet(cash)
  BY DEF Entering, Leaving
<1>3. /\ Chosen(cash, Entering(cash)) \in Seq(ToSet(Chosen(cash, Entering(cash))))
      /\ ToSet(Chosen(cash, Entering(cash))) \subseteq Entering(cash)
      /\ Entering(cash) \subseteq CashEntry
  BY <1>2, ChosenMembers
<1>4. /\ Chosen(cash, Leaving(cash)) \in Seq(ToSet(Chosen(cash, Leaving(cash))))
      /\ ToSet(Chosen(cash, Leaving(cash))) \subseteq Leaving(cash)
      /\ Leaving(cash) \subseteq CashEntry
  BY <1>2, ChosenMembers
<1>5. \A c \in Entering(cash) : c \in CashEntry => c.currency \in STRING /\ c.delta \in Nat
  BY DEF Entering, CashEntry
<1>6. \A c \in Leaving(cash) : c \in CashEntry =>
        c.currency \in STRING /\ c.delta \in Int /\ -c.delta \in Nat
  BY DEF Leaving, CashEntry
<1> QED BY <1>1, <1>3, <1>4, <1>5, <1>6

Bought(assets) == {x \in ToSet(assets) : /\ x.currency # CNY /\ x.quantity > 0
                                         /\ x.amount # NoBasis}
Sold(assets) == {x \in ToSet(assets) : x.quantity < 0 /\ x.amount # NoBasis}
Priced(assets, currency) ==
    {x \in ToSet(assets) : x.currency = currency /\ x.rate # NoBasis}

(* The legs of an event's assets. *)
LEMMA AssetLegs ==
    ASSUME NEW ev, ev.assets \in Seq(AssetEntry)
    PROVE  /\ Purchased(ev) \in Seq(ToSet(Purchased(ev)))
           /\ \A x \in ToSet(Purchased(ev)) :
                x.asset \in Assets /\ x.currency \in STRING /\ x.amount \in Nat
           /\ Redeemed(ev) \in Seq(ToSet(Redeemed(ev)))
           /\ \A x \in ToSet(Redeemed(ev)) :
                /\ x.currency \in {y.currency : y \in ToSet(ev.assets)}
                /\ x.asset \in Assets /\ x.amount \in Nat /\ x.rate \in Bases
<1> DEFINE assets == ev.assets
<1>1. Purchased(ev) = Chosen(assets, Bought(assets)) /\ Redeemed(ev) = Chosen(assets, Sold(assets))
  BY DEF Purchased, Redeemed, Bought, Sold
<1>2. assets \in Seq(AssetEntry)
  OBVIOUS
<1>3. \A x \in Sold(assets) : x.currency \in {y.currency : y \in ToSet(ev.assets)}
  BY DEF Sold
<1> HIDE DEF assets
<1>4. Bought(assets) \subseteq ToSet(assets) /\ Sold(assets) \subseteq ToSet(assets)
  BY DEF Bought, Sold
<1>5. /\ Chosen(assets, Bought(assets)) \in Seq(ToSet(Chosen(assets, Bought(assets))))
      /\ ToSet(Chosen(assets, Bought(assets))) \subseteq Bought(assets)
      /\ Bought(assets) \subseteq AssetEntry
  BY <1>2, <1>4, ChosenMembers
<1>6. /\ Chosen(assets, Sold(assets)) \in Seq(ToSet(Chosen(assets, Sold(assets))))
      /\ ToSet(Chosen(assets, Sold(assets))) \subseteq Sold(assets)
      /\ Sold(assets) \subseteq AssetEntry
  BY <1>2, <1>4, ChosenMembers
<1>7. \A x \in Bought(assets) : x \in AssetEntry =>
        x.asset \in Assets /\ x.currency \in STRING /\ x.amount \in Nat
  BY DEF Bought, AssetEntry, Bases
<1>8. \A x \in Sold(assets) : x \in AssetEntry =>
        x.asset \in Assets /\ x.amount \in Nat /\ x.rate \in Bases
  BY DEF Sold, AssetEntry, Bases
<1>9. \A x \in ToSet(Purchased(ev)) :
        x.asset \in Assets /\ x.currency \in STRING /\ x.amount \in Nat
  BY <1>1, <1>5, <1>7
<1>10. \A x \in ToSet(Redeemed(ev)) :
        /\ x.currency \in {y.currency : y \in ToSet(ev.assets)}
        /\ x.asset \in Assets /\ x.amount \in Nat /\ x.rate \in Bases
  BY <1>1, <1>3, <1>6, <1>8
<1> QED BY <1>1, <1>5, <1>6, <1>9, <1>10

(* The entries of an event of the history. *)
LEMMA Entries ==
    ASSUME NEW evs, NEW e, NEW u, NEW served, Handles(evs, e, u, served)
    PROVE  /\ evs[e].cash \in Seq(CashEntry) /\ evs[e].assets \in Seq(AssetEntry)
           /\ evs[e].user = u
  BY DEF Handles, IsTable, Event
-----------------------------------------------------------------------------
(* Handlers.                                                               *)

OpenOn(e, ev, basis, b, c) == OpenLot(b, e, ev, c.currency, c.delta, basis[c])

Opening == INSTANCE FoldTheorems WITH Op <- OpenOn

(* Opening a lot for every inflow keeps the books sound. *)
LEMMA OpenEachSound ==
    ASSUME NEW before, NEW evs, NEW u, NEW exact, NEW served,
           NEW b \in SoundBooks(before, evs, u, exact, served),
           NEW e, Handles(evs, e, u, served),
           NEW basis, \A c \in ToSet(Inflows(evs[e].cash)) : basis[c] \in Bases
    PROVE  OpenEach(b, e, evs[e], basis) \in SoundBooks(before, evs, u, exact, served)
<1> DEFINE ev == evs[e]
           list == Inflows(ev.cash)
           X == SoundBooks(before, evs, u, exact, served)
<1>1. /\ list \in Seq(ToSet(list))
      /\ \A c \in ToSet(list) : c.currency \in STRING /\ c.delta \in Nat /\ basis[c] \in Bases
  BY Entries, CashLegs
<1>2. \A x \in X : \A c \in ToSet(list) : OpenOn(e, ev, basis, x, c) \in X
  <2> SUFFICES ASSUME NEW x \in X, NEW c \in ToSet(list) PROVE OpenOn(e, ev, basis, x, c) \in X
    OBVIOUS
  <2> DEFINE currency == c.currency
             amount == c.delta
             value == basis[c]
  <2>1. currency \in STRING /\ amount \in Nat /\ value \in Bases
    BY <1>1
  <2>2. OpenOn(e, ev, basis, x, c) = OpenLot(x, e, evs[e], currency, amount, value)
    BY DEF OpenOn
  <2> HIDE DEF currency, amount, value, list
  <2>3. OpenLot(x, e, evs[e], currency, amount, value) \in SoundBooks(before, evs, u, exact, served)
    BY <2>1, OpenLotSound
  <2> QED BY <2>2, <2>3
<1>3. Opening!Folded(e, ev, basis, b, list) \in X
  <2> HIDE DEF X, list, ev
  <2>1. b \in X
    BY DEF X
  <2> QED BY <1>1, <1>2, <2>1, Opening!Stays
<1>4. OpenEach(b, e, ev, basis) = Opening!Folded(e, ev, basis, b, list)
  BY DEF OpenEach, OpenOn, Opening!Folded, Opening!FoldLeft, Opening!MapThenFoldSet,
         FoldLeft, MapThenFoldSet, Opening!Max, Max
<1> QED BY <1>3, <1>4

(* What a cash entry may be worth. *)
LEMMA CashValues ==
    ASSUME NEW c \in CashEntry, c.delta \in Nat
    PROVE  CashBasis(c) \in Bases /\ ManualBasis(c) \in Bases
<1>1. /\ c.rmb \in Bases /\ c.rate \in Bases /\ c.raw.rmb_basis \in Bases
  BY DEF CashEntry
<1>2. c.rate # NoBasis => c.delta * c.rate \in Nat
  <2>1. ASSUME NEW r \in Nat PROVE c.delta * r \in Nat
    BY Z3
  <2> QED BY <1>1, <2>1 DEF Bases
<1>3. CashBasis(c) \in Bases
  BY <1>1, <1>2 DEF CashBasis, Bases
<1>4. ManualBasis(c) \in Bases
  BY <1>1 DEF ManualBasis, Bases
<1> QED BY <1>3, <1>4

(* Buying currency. *)
LEMMA FxBuySound ==
    ASSUME NEW before, NEW evs, NEW u, NEW exact, NEW served,
           NEW b \in SoundBooks(before, evs, u, exact, served),
           NEW e, Handles(evs, e, u, served)
    PROVE  FxBuy(b, e, evs[e]) \in SoundBooks(before, evs, u, exact, served)
<1> DEFINE S == ToSet(Inflows(evs[e].cash))
           basis == [c \in S |-> CashBasis(c)]
<1>1. \A c \in S : CashBasis(c) \in Bases
  BY Entries, CashLegs, CashValues
<1>2. \A c \in ToSet(Inflows(evs[e].cash)) : basis[c] \in Bases
  BY <1>1
<1> HIDE DEF basis
<1>3. OpenEach(b, e, evs[e], basis) \in SoundBooks(before, evs, u, exact, served)
  BY <1>2, OpenEachSound
<1> QED BY <1>3 DEF FxBuy, basis

(* A manual adjustment. *)
LEMMA ManualAdjustmentSound ==
    ASSUME NEW before, NEW evs, NEW u, NEW exact, NEW served,
           NEW b \in SoundBooks(before, evs, u, exact, served),
           NEW e, Handles(evs, e, u, served)
    PROVE  ManualAdjustment(b, e, evs[e]) \in SoundBooks(before, evs, u, exact, served)
<1> DEFINE S == ToSet(Inflows(evs[e].cash))
           basis == [c \in S |-> ManualBasis(c)]
<1>1. \A c \in S : ManualBasis(c) \in Bases
  BY Entries, CashLegs, CashValues
<1>2. \A c \in ToSet(Inflows(evs[e].cash)) : basis[c] \in Bases
  BY <1>1
<1> HIDE DEF basis
<1>3. OpenEach(b, e, evs[e], basis) \in SoundBooks(before, evs, u, exact, served)
  BY <1>2, OpenEachSound
<1> QED BY <1>3 DEF ManualAdjustment, basis

(* The parts of what an allocation returns. *)
LEMMA Allocated ==
    ASSUME NEW before, NEW evs, NEW u, NEW exact, NEW served, NEW e, NEW C,
           NEW run \in Draws(before, evs, u, exact, served, e, C)
    PROVE  /\ run.book \in SoundBooks(before, evs, u, exact, served)
           /\ run.left \in Nat /\ run.cost \in Nat /\ run.drawn \in Seq(DrawnRows(e, C))
           /\ Payable(run.book, u, evs[e].time) = C
           /\ Covered(run.book.attributions, run.drawn, run.book.consumptions)
  BY DEF Draws

SellOn(e, ev, r, b, c) == Allocate(b, e, ev, c.currency, -c.delta, NoAsset).book

Selling == INSTANCE FoldTheorems WITH Op <- SellOn

(* Selling currency. *)
LEMMA FxSellSound ==
    ASSUME NEW before, NEW evs, NEW u, NEW exact, NEW served,
           NEW b \in SoundBooks(before, evs, u, exact, served),
           NEW e, Handles(evs, e, u, served)
    PROVE  FxSell(b, e, evs[e]) \in SoundBooks(before, evs, u, exact, served)
<1> DEFINE ev == evs[e]
           list == Outflows(ev.cash)
           X == SoundBooks(before, evs, u, exact, served)
<1>1. /\ list \in Seq(ToSet(list))
      /\ \A c \in ToSet(list) : c.currency \in STRING /\ -c.delta \in Nat
  BY Entries, CashLegs
<1>2. \A x \in X : \A c \in ToSet(list) : SellOn(e, ev, e, x, c) \in X
  <2> SUFFICES ASSUME NEW x \in X, NEW c \in ToSet(list) PROVE SellOn(e, ev, e, x, c) \in X
    OBVIOUS
  <2> DEFINE currency == c.currency
             amount == -c.delta
             run == Allocate(x, e, evs[e], currency, amount, NoAsset)
  <2>1. currency \in STRING /\ amount \in Nat /\ NoAsset \in Assets \cup {NoAsset}
    BY <1>1
  <2>2. SellOn(e, ev, e, x, c) = run.book
    BY DEF SellOn
  <2> HIDE DEF currency, amount, list, run
  <2>3. run \in Draws(before, evs, u, exact, served, e, Payable(x, u, evs[e].time))
    <3>1. Allocate(x, e, evs[e], currency, amount, NoAsset)
            \in Draws(before, evs, u, exact, served, e, Payable(x, u, evs[e].time))
      BY <2>1, AllocateSound
    <3> QED BY <3>1 DEF run
  <2> QED BY <2>2, <2>3, Allocated
<1>3. Selling!Folded(e, ev, e, b, list) \in X
  <2> HIDE DEF X, list, ev
  <2>1. b \in X
    BY DEF X
  <2> QED BY <1>1, <1>2, <2>1, Selling!Stays
<1>4. FxSell(b, e, ev) = Selling!Folded(e, ev, e, b, list)
  BY DEF FxSell, SellOn, Selling!Folded, Selling!FoldLeft, Selling!MapThenFoldSet,
         FoldLeft, MapThenFoldSet, Selling!Max, Max
<1> QED BY <1>3, <1>4

(* Swapping currencies. *)
LEMMA FxSwapSound ==
    ASSUME NEW before, NEW evs, NEW u, NEW exact, NEW served,
           NEW b \in SoundBooks(before, evs, u, exact, served),
           NEW e, Handles(evs, e, u, served)
    PROVE  FxSwap(b, e, evs[e]) \in SoundBooks(before, evs, u, exact, served)
<1> DEFINE out == Outflows(evs[e].cash)
           in == Inflows(evs[e].cash)
           X == SoundBooks(before, evs, u, exact, served)
<1>1. /\ out \in Seq(ToSet(out)) /\ in \in Seq(ToSet(in))
      /\ \A c \in ToSet(out) : c.currency \in STRING /\ -c.delta \in Nat
      /\ \A c \in ToSet(in) : c.currency \in STRING /\ c.delta \in Nat
  BY Entries, CashLegs
<1>2. CASE in = <<>> \/ out = <<>>
  BY <1>2 DEF FxSwap
<1>3. CASE in # <<>> /\ out # <<>>
  <2> DEFINE source == Head(out)
             target == Head(in)
             from == source.currency
             amount == -source.delta
             to == target.currency
             bought == target.delta
             run == Allocate(b, e, evs[e], from, amount, NoAsset)
             basis == IF run.left = 0 THEN run.cost ELSE NoBasis
  <2>1. /\ from \in STRING /\ amount \in Nat /\ to \in STRING /\ bought \in Nat
        /\ NoAsset \in Assets \cup {NoAsset}
    <3> HIDE DEF out, in
    <3>1. source \in ToSet(out) /\ target \in ToSet(in)
      BY <1>1, <1>3
    <3> QED BY <1>1, <3>1
  <2>2. FxSwap(b, e, evs[e]) = OpenLot(run.book, e, evs[e], to, bought, basis)
    BY <1>3 DEF FxSwap
  <2> HIDE DEF from, amount, to, bought, run, basis
  <2>3. run \in Draws(before, evs, u, exact, served, e, Payable(b, u, evs[e].time))
    <3>1. Allocate(b, e, evs[e], from, amount, NoAsset)
            \in Draws(before, evs, u, exact, served, e, Payable(b, u, evs[e].time))
      BY <2>1, AllocateSound
    <3> QED BY <3>1 DEF run
  <2>4. run.book \in SoundBooks(before, evs, u, exact, served) /\ run.cost \in Nat
    BY <2>3, Allocated
  <2>5. basis \in Bases
    BY <2>4 DEF basis, Bases
  <2> DEFINE book == run.book
  <2>6. book \in SoundBooks(before, evs, u, exact, served)
    BY <2>4
  <2> HIDE DEF book
  <2>7. OpenLot(book, e, evs[e], to, bought, basis) \in SoundBooks(before, evs, u, exact, served)
    BY <2>1, <2>5, <2>6, OpenLotSound
  <2> QED BY <2>2, <2>7 DEF book
<1> QED BY <1>2, <1>3

WithRows(b, A) ==
    [lots |-> b.lots, consumptions |-> b.consumptions, attributions |-> A, gaps |-> b.gaps]

(* Attributions that tie lots and events of one owner, and that the          *)
(* consumptions back, keep the books sound.                                *)
LEMMA AttributionsSound ==
    ASSUME NEW before, NEW evs, NEW u, NEW exact, NEW served,
           NEW b \in SoundBooks(before, evs, u, exact, served),
           NEW A, IsTable(A, Attribution), Backed(A, b.consumptions),
           \A a \in DOMAIN A : SameOwner(b, evs, A[a].source_lot, A[a].target_event)
    PROVE  WithRows(b, A) \in SoundBooks(before, evs, u, exact, served)
<1> DEFINE d == WithRows(b, A)
<1>0. /\ b \in BookSet /\ RowsTyped(b) /\ NoStraysIn(b, evs) /\ SpentOnceIn(b)
      /\ OthersKept(before, b, u) /\ (exact => Exact(b, evs, u))
  BY DEF SoundBooks, Sound
<1>1. /\ d.lots = b.lots /\ d.consumptions = b.consumptions /\ d.gaps = b.gaps
      /\ d.attributions = A
      /\ d = [lots |-> d.lots, consumptions |-> d.consumptions,
              attributions |-> d.attributions, gaps |-> d.gaps]
  BY DEF WithRows
<1> HIDE DEF d
<1>2. RowsTyped(d)
  BY <1>0, <1>1 DEF RowsTyped
<1>3. d \in BookSet
  BY <1>1, <1>2, TypedBooks DEF HasTables
<1>4. NoStraysIn(d, evs)
  BY <1>0, <1>1 DEF NoStraysIn, SameOwner
<1>5. SpentOnceIn(d)
  <2>1. \A l \in DOMAIN b.lots :
          NotOverspent(b.lots[l], Taken(b.consumptions, l), Cost(b.consumptions, l))
    BY <1>0, SpentLots
  <2> QED BY <1>1, <2>1, SpentLots
<1>6. OthersKept(before, d, u)
  <2>1. OtherLots(d, u) = OtherLots(b, u) /\ OtherConsumptions(d, u) = OtherConsumptions(b, u)
        /\ OtherGaps(d, u) = OtherGaps(b, u)
    BY <1>1 DEF OtherLots, OtherConsumptions, OtherGaps
  <2> QED BY <1>0, <1>1, <2>1 DEF OthersKept
<1>7. exact => Exact(d, evs, u)
  <2> SUFFICES ASSUME exact PROVE Exact(d, evs, u)
    OBVIOUS
  <2>1. /\ \A l \in DOMAIN b.lots : b.lots[l].user = u => ExactLot(b, evs, l)
        /\ \A c \in DOMAIN b.consumptions :
             evs[b.consumptions[c].event].user = u => PaidInTime(b, evs, c)
    BY <1>0, ExactRows
  <2>2. /\ \A l \in DOMAIN d.lots : d.lots[l].user = u => ExactLot(d, evs, l)
        /\ \A c \in DOMAIN d.consumptions :
             evs[d.consumptions[c].event].user = u => PaidInTime(d, evs, c)
    BY <1>1, <2>1 DEF ExactLot, PaidInTime
  <2> QED BY <2>2, ExactRows
<1>8. Backed(d.attributions, d.consumptions)
  BY <1>1
<1>9. exact \/ OldAccounts(before, d, served)
  <2>1. \A k : Accounted(d, k) = Accounted(b, k)
    BY <1>1, SameAccounts
  <2> QED BY <2>1 DEF SoundBooks, Sound, OldAccounts
<1> QED BY <1>2, <1>3, <1>4, <1>5, <1>6, <1>7, <1>8, <1>9 DEF SoundBooks, Sound, d

(* The state of a redemption's loop over the attributions of books b. *)
Releases(before, evs, u, exact, served, b) ==
    {run \in [book : SoundBooks(before, evs, u, exact, served), left : Nat, carried : Nat] :
        /\ DOMAIN run.book.attributions = DOMAIN b.attributions
        /\ run.book.lots = b.lots /\ run.book.gaps = b.gaps}

(* One turn of it: money is taken back from one attribution. *)
LEMMA ReleaseSound ==
    ASSUME NEW before, NEW evs, NEW u, NEW exact, NEW served, NEW b,
           NEW run \in Releases(before, evs, u, exact, served, b), NEW a \in DOMAIN b.attributions
    PROVE  Release(run, a) \in Releases(before, evs, u, exact, served, b)
<1> DEFINE D == DOMAIN b.attributions
           row == run.book.attributions[a]
           amount == Smaller(row.native_amount, run.left)
           basis == BasisShare(row.rmb_basis, amount, row.native_amount)
           smaller == [row EXCEPT !.native_amount = @ - amount, !.rmb_basis = @ - basis]
           A == [run.book.attributions EXCEPT ![a] = smaller]
           next == Release(run, a)
<1>1. /\ run.book \in SoundBooks(before, evs, u, exact, served)
      /\ run.left \in Nat /\ run.carried \in Nat
      /\ DOMAIN run.book.attributions = D
      /\ run.book.lots = b.lots /\ run.book.gaps = b.gaps
      /\ run = [book |-> run.book, left |-> run.left, carried |-> run.carried]
  BY DEF Releases
<1>2. /\ IsTable(run.book.attributions, Attribution)
      /\ \A k \in D : SameOwner(run.book, evs, run.book.attributions[k].source_lot,
                                run.book.attributions[k].target_event)
      /\ run.book = [lots |-> run.book.lots, consumptions |-> run.book.consumptions,
                     attributions |-> run.book.attributions, gaps |-> run.book.gaps]
  BY <1>1 DEF SoundBooks, Sound, RowsTyped, NoStraysIn, BookSet
<1>3. row \in Attribution
  BY <1>1, <1>2 DEF IsTable
<1>4. /\ row.native_amount \in Nat /\ row.rmb_basis \in Nat
      /\ amount \in 0 .. row.native_amount /\ amount \in 0 .. run.left
  BY <1>1, <1>3 DEF Attribution, Smaller
<1>5. basis \in 0 .. row.rmb_basis
  <2> HIDE DEF row, amount
  <2> QED BY <1>4, ShareWithin
<1>6. /\ smaller \in Attribution /\ smaller.source_lot = row.source_lot
      /\ smaller.target_event = row.target_event
  <2> HIDE DEF row, amount, basis
  <2>1. row.native_amount - amount \in Nat /\ row.rmb_basis - basis \in Nat
    BY <1>4, <1>5
  <2> QED BY <1>3, <2>1 DEF Attribution
<1>9. smaller.native_amount <= row.native_amount /\ smaller.rmb_basis <= row.rmb_basis
  <2>1. /\ smaller.native_amount = row.native_amount - amount
        /\ smaller.rmb_basis = row.rmb_basis - basis
    BY <1>3 DEF Attribution
  <2> HIDE DEF smaller, row, amount, basis
  <2> QED BY <1>4, <1>5, <2>1
<1>7. CASE run.left = 0 \/ row.native_amount = 0
  BY <1>7 DEF Release
<1>8. CASE ~ (run.left = 0 \/ row.native_amount = 0)
  <2>1. next = [run EXCEPT !.book.attributions[a] = smaller, !.left = @ - amount,
                           !.carried = @ + basis]
    BY <1>8 DEF Release
  <2> HIDE DEF smaller, amount, basis, row
  <2>2. next \in [book : {WithRows(run.book, A)}, left : {run.left - amount},
                  carried : {run.carried + basis}]
    <3>1. next \in [book : {[lots |-> run.book.lots, consumptions |-> run.book.consumptions,
                             attributions |-> A, gaps |-> run.book.gaps]},
                    left : {run.left - amount}, carried : {run.carried + basis}]
      <4> HIDE DEF next
      <4> QED BY <1>1, <1>2, <2>1
    <3> QED BY <3>1 DEF WithRows
  <2>3. run.left - amount \in Nat /\ run.carried + basis \in Nat
    BY <1>1, <1>4, <1>5
  <2>4. /\ IsTable(A, Attribution) /\ DOMAIN A = D
        /\ \A k \in D : SameOwner(run.book, evs, A[k].source_lot, A[k].target_event)
    <3>1. /\ IsTable(A, Attribution) /\ DOMAIN A = DOMAIN run.book.attributions
          /\ A[a] = smaller
          /\ \A k \in DOMAIN run.book.attributions : k # a => A[k] = run.book.attributions[k]
      BY <1>1, <1>2, <1>6, UpdateRow
    <3> HIDE DEF A
    <3> QED BY <1>1, <1>2, <1>6, <3>1 DEF row
  <2> DEFINE after == WithRows(run.book, A)
  <2>7. Backed(A, run.book.consumptions)
    <3> DEFINE old == run.book.attributions
               C == run.book.consumptions
    <3>1. IsTable(old, Attribution) /\ IsTable(C, Consumption) /\ Backed(old, C)
      BY <1>1 DEF SoundBooks, Sound, RowsTyped
    <3>2. /\ DOMAIN A = DOMAIN old /\ A[a] = smaller /\ old[a] = row /\ a \in DOMAIN old
          /\ \A k \in DOMAIN old : k # a => A[k] = old[k]
      <4>1. /\ DOMAIN A = DOMAIN run.book.attributions /\ A[a] = smaller
            /\ \A k \in DOMAIN run.book.attributions : k # a => A[k] = run.book.attributions[k]
        BY <1>1, <1>2, <1>6, UpdateRow
      <4> QED BY <1>1, <4>1 DEF row
    <3>3. /\ smaller.native_amount <= row.native_amount /\ smaller.rmb_basis <= row.rmb_basis
          /\ smaller.target_event = row.target_event /\ smaller.source_lot = row.source_lot
      BY <1>6, <1>9
    <3> HIDE DEF A, old, C
    <3>4. \A k \in DOMAIN old : old[k].native_amount \in Nat /\ old[k].rmb_basis \in Nat
      BY <3>1 DEF IsTable, Attribution
    <3>5. \A k \in DOMAIN A : /\ A[k].target_event = old[k].target_event
                              /\ A[k].source_lot = old[k].source_lot
                              /\ A[k].native_amount <= old[k].native_amount
                              /\ A[k].rmb_basis <= old[k].rmb_basis
      BY <3>2, <3>3, <3>4
    <3>6. IsTable(A, Attribution)
      BY <2>4
    <3>7. Backed(A, C)
      BY <3>1, <3>2, <3>5, <3>6, ShrunkBacked
    <3> QED BY <3>7 DEF C
  <2>5. /\ after \in SoundBooks(before, evs, u, exact, served) /\ DOMAIN after.attributions = D
        /\ after.lots = b.lots /\ after.gaps = b.gaps
    <3>1. after.attributions = A /\ after.lots = b.lots /\ after.gaps = b.gaps
      BY <1>1 DEF WithRows
    <3>2. \A k \in DOMAIN A : SameOwner(run.book, evs, A[k].source_lot, A[k].target_event)
      BY <2>4
    <3> DEFINE book == run.book
    <3> HIDE DEF A
    <3>3. WithRows(run.book, A) \in SoundBooks(before, evs, u, exact, served)
      BY <1>1, <2>4, <2>7, <3>2, AttributionsSound
    <3> QED BY <2>4, <3>1, <3>3
  <2>6. next \in Releases(before, evs, u, exact, served, b)
    <3> HIDE DEF next, after
    <3> QED BY <2>2, <2>3, <2>5 DEF Releases, after
  <2> QED BY <2>6
<1> QED BY <1>7, <1>8

ReleaseOn(p, q, r, run, a) == Release(run, a)

Releasing == INSTANCE FoldTheorems WITH Op <- ReleaseOn

(* The attributions of an asset are rows of the table. *)
LEMMA CarryingList ==
    ASSUME NEW before, NEW evs, NEW u, NEW exact, NEW served,
           NEW b \in SoundBooks(before, evs, u, exact, served),
           IsTable(evs, Event), NEW asset
    PROVE  CarryingRows(b, evs, asset) \in Seq(DOMAIN b.attributions)
<1> DEFINE S == Where(b.attributions, LAMBDA r : r.target_asset = asset)
           rows == b.attributions
<1>1. /\ IsTable(rows, Attribution)
      /\ \A a \in DOMAIN rows : rows[a].target_event \in DOMAIN evs
  BY DEF SoundBooks, Sound, RowsTyped, NoStraysIn, SameOwner
<1>2. S \subseteq DOMAIN rows
  BY DEF Where
<1>3. CarryingRows(b, evs, asset) = ByPurchase(rows, evs, S)
  BY DEF CarryingRows, ByPurchase
<1> HIDE DEF S, rows
<1>4. KeySet(S)
  BY <1>1, <1>2, FS_Subset DEF IsTable, KeySet
<1>5. \A x \in S : evs[rows[x].target_event].time \in Nat
  BY <1>1, <1>2, FundingAttributionAssumption DEF IsTable, Event
<1>6. ByPurchase(rows, evs, S) \in Seq(S)
  BY <1>4, <1>5, RowsInOrder
<1> QED BY <1>2, <1>3, <1>6 DEF rows

(* Taking money back from the attributions of an asset. *)
LEMMA ReleasedSound ==
    ASSUME NEW before, NEW evs, NEW u, NEW exact, NEW served,
           NEW b \in SoundBooks(before, evs, u, exact, served),
           IsTable(evs, Event), NEW asset, NEW amount \in Nat
    PROVE  FoldLeft(Release, [book |-> b, left |-> amount, carried |-> 0],
                    CarryingRows(b, evs, asset))
             \in Releases(before, evs, u, exact, served, b)
<1> DEFINE D == DOMAIN b.attributions
           X == Releases(before, evs, u, exact, served, b)
           start == [book |-> b, left |-> amount, carried |-> 0]
           list == CarryingRows(b, evs, asset)
<1>1. list \in Seq(D)
  BY CarryingList
<1>2. start \in X
  BY DEF Releases
<1>3. \A x \in X : \A a \in D : ReleaseOn(u, u, u, x, a) \in X
  <2>1. ASSUME NEW x \in Releases(before, evs, u, exact, served, b), NEW a \in DOMAIN b.attributions
        PROVE  Release(x, a) \in Releases(before, evs, u, exact, served, b)
    BY ReleaseSound
  <2> QED BY <2>1 DEF ReleaseOn
<1>4. Releasing!Folded(u, u, u, start, list) \in X
  <2> HIDE DEF X, D, list, start
  <2> QED BY <1>1, <1>2, <1>3, Releasing!Stays
<1>5. FoldLeft(Release, start, list) = Releasing!Folded(u, u, u, start, list)
  <2> HIDE DEF start, list
  <2> QED BY DEF ReleaseOn, Releasing!Folded, Releasing!FoldLeft, Releasing!MapThenFoldSet,
                 FoldLeft, MapThenFoldSet, Releasing!Max, Max
<1> QED BY <1>4, <1>5

ReleaseAssetOn(evs, q, r, acc, x) ==
    LET run == FoldLeft(Release, [book |-> acc.book, left |-> x.amount, carried |-> 0],
                        CarryingRows(acc.book, evs, x.asset))
    IN  [book |-> run.book, carried |-> [acc.carried EXCEPT ![x.currency] = @ + run.carried]]

ReleasingAll == INSTANCE FoldTheorems WITH Op <- ReleaseAssetOn

Currencies(ev) == {x.currency : x \in ToSet(ev.assets)}

(* Taking money back for every redeemed asset. *)
LEMMA ReleaseAllSound ==
    ASSUME NEW before, NEW evs, NEW u, NEW exact, NEW served,
           NEW b \in SoundBooks(before, evs, u, exact, served),
           NEW e, Handles(evs, e, u, served)
    PROVE  /\ ReleaseAll(b, evs, evs[e]).book \in SoundBooks(before, evs, u, exact, served)
           /\ ReleaseAll(b, evs, evs[e]).carried \in [Currencies(evs[e]) -> Nat]
           /\ ReleaseAll(b, evs, evs[e]).book.lots = b.lots
           /\ ReleaseAll(b, evs, evs[e]).book.gaps = b.gaps
<1> DEFINE ev == evs[e]
           K == Currencies(ev)
           Books == {d \in SoundBooks(before, evs, u, exact, served) :
                       d.lots = b.lots /\ d.gaps = b.gaps}
           X == [book : Books, carried : [K -> Nat]]
           list == Redeemed(ev)
           start == [book |-> b, carried |-> [c \in K |-> 0]]
<1>1. IsTable(evs, Event)
  BY DEF Handles
<1>2. /\ list \in Seq(ToSet(list))
      /\ \A x \in ToSet(list) : x.currency \in K /\ x.amount \in Nat
  BY Entries, AssetLegs DEF Currencies
<1>3. start \in X
  OBVIOUS
<1> HIDE DEF K, list, start
<1>4. ASSUME NEW acc \in X, NEW x \in ToSet(list)
      PROVE  ReleaseAssetOn(evs, e, e, acc, x) \in X
  <2> DEFINE book == acc.book
             amount == x.amount
             asset == x.asset
             run == FoldLeft(Release, [book |-> book, left |-> amount, carried |-> 0],
                             CarryingRows(book, evs, asset))
  <2>1. /\ book \in SoundBooks(before, evs, u, exact, served) /\ amount \in Nat
        /\ book.lots = b.lots /\ book.gaps = b.gaps
    BY <1>2, <1>4
  <2>2. ReleaseAssetOn(evs, e, e, acc, x)
          = [book |-> run.book, carried |-> [acc.carried EXCEPT ![x.currency] = @ + run.carried]]
    BY DEF ReleaseAssetOn
  <2>3. run \in Releases(before, evs, u, exact, served, book)
    <3> HIDE DEF book, amount, asset
    <3> QED BY <1>1, <2>1, ReleasedSound
  <2> HIDE DEF run
  <2>4. run.book \in Books /\ run.carried \in Nat
    BY <2>1, <2>3 DEF Releases
  <2>5. [acc.carried EXCEPT ![x.currency] = @ + run.carried] \in [K -> Nat]
    BY <1>2, <1>4, <2>4
  <2> QED BY <2>2, <2>4, <2>5
<1>5. ReleasingAll!Folded(evs, e, e, start, list) \in X
  <2>1. \A acc \in X : \A x \in ToSet(list) : ReleaseAssetOn(evs, e, e, acc, x) \in X
    BY <1>4
  <2> HIDE DEF X
  <2> QED BY <1>2, <1>3, <2>1, ReleasingAll!Stays
<1>6. ReleaseAll(b, evs, ev) = ReleasingAll!Folded(evs, e, e, start, list)
  BY DEF ReleaseAll, ReleaseAssetOn, start, list, K, Currencies,
         ReleasingAll!Folded, ReleasingAll!FoldLeft, ReleasingAll!MapThenFoldSet,
         FoldLeft, MapThenFoldSet, ReleasingAll!Max, Max
<1>7. ReleaseAll(b, evs, ev) \in X
  BY <1>5, <1>6
<1> QED BY <1>7 DEF K

SpotOn(p, q, r, sum, x) == sum + x.amount * x.rate

Pricing == INSTANCE FoldTheorems WITH Op <- SpotOn

(* The spot value of what was redeemed. *)
LEMMA SpotBasisNat ==
    ASSUME NEW ev, ev.assets \in Seq(AssetEntry), NEW currency
    PROVE  SpotBasis(ev, currency) \in Nat
<1> DEFINE list == Chosen(Redeemed(ev), Priced(ev.assets, currency))
           S == Priced(ev.assets, currency) \cap ToSet(Redeemed(ev))
<1>1. list \in Seq(S)
  BY AssetLegs, ChosenList
<1>2. \A x \in S : x.amount \in Nat /\ x.rate \in Nat
  <2>1. \A x \in ToSet(Redeemed(ev)) : x.amount \in Nat /\ x.rate \in Bases
    BY AssetLegs
  <2> QED BY <2>1 DEF Priced, Bases
<1>3. \A sum \in Nat : \A x \in S : SpotOn(ev, ev, ev, sum, x) \in Nat
  <2> SUFFICES ASSUME NEW sum \in Nat, NEW x \in S PROVE SpotOn(ev, ev, ev, sum, x) \in Nat
    OBVIOUS
  <2>1. ASSUME NEW m \in Nat, NEW n \in Nat PROVE sum + m * n \in Nat
    <3>1. m * n \in Nat
      BY Z3
    <3> QED BY <3>1
  <2> HIDE DEF S
  <2> QED BY <1>2, <2>1 DEF SpotOn
<1>4. 0 \in Nat
  OBVIOUS
<1>5. Pricing!Folded(ev, ev, ev, 0, list) \in Nat
  <2> HIDE DEF list, S
  <2> QED BY <1>1, <1>3, <1>4, Pricing!Stays
<1>6. SpotBasis(ev, currency) = Pricing!Folded(ev, ev, ev, 0, list)
  BY DEF SpotBasis, SpotOn, Priced, Pricing!Folded, Pricing!FoldLeft, Pricing!MapThenFoldSet,
         FoldLeft, MapThenFoldSet, Pricing!Max, Max
<1> QED BY <1>5, <1>6

(* Income, and redeeming an asset. *)
LEMMA IncomeSound ==
    ASSUME NEW before, NEW evs, NEW u, NEW exact, NEW served,
           NEW b \in SoundBooks(before, evs, u, exact, served),
           NEW e, Handles(evs, e, u, served)
    PROVE  IncomeOrRedemption(b, evs, e, evs[e]) \in SoundBooks(before, evs, u, exact, served)
<1> DEFINE ev == evs[e]
           S == ToSet(Inflows(ev.cash))
           book == ReleaseAll(b, evs, ev).book
           carried == ReleaseAll(b, evs, ev).carried
           basis == [c \in S |-> RedemptionBasis(carried, ev, c)]
<1>1. book \in SoundBooks(before, evs, u, exact, served) /\ carried \in [Currencies(ev) -> Nat]
  BY ReleaseAllSound
<1>2. IncomeOrRedemption(b, evs, e, ev) = OpenEach(book, e, evs[e], basis)
  BY DEF IncomeOrRedemption
<1> HIDE DEF book, carried
<1>3. ASSUME NEW c \in S PROVE RedemptionBasis(carried, ev, c) \in Bases
  <2>1. CashBasis(c) \in Bases
    BY Entries, CashLegs, CashValues
  <2>2. SpotBasis(ev, c.currency) \in Nat
    BY Entries, SpotBasisNat
  <2> HIDE DEF S
  <2>3. c.currency \in DOMAIN carried => carried[c.currency] \in Nat
    BY <1>1
  <2> HIDE DEF ev
  <2> QED BY <2>1, <2>2, <2>3 DEF RedemptionBasis, Bases
<1>4. \A c \in ToSet(Inflows(evs[e].cash)) : basis[c] \in Bases
  BY <1>3
<1> HIDE DEF basis
<1>5. OpenEach(book, e, evs[e], basis) \in SoundBooks(before, evs, u, exact, served)
  BY <1>1, <1>4, OpenEachSound
<1> QED BY <1>2, <1>5

(* Attributing a drawn row to the bought asset. *)
LEMMA AttributeSound ==
    ASSUME NEW before, NEW evs, NEW u, NEW exact, NEW served,
           NEW b \in SoundBooks(before, evs, u, exact, served),
           NEW e, Handles(evs, e, u, served), NEW x, x.asset \in Assets,
           NEW row \in DrawnRows(e, Payable(b, u, evs[e].time)),
           NEW R, IsTable(R, Consumption), NEW Q, IsTable(Q, Consumption),
           NEW i, OneMore(R, Q, i, row), Covered(b.attributions, Q, b.consumptions)
    PROVE  /\ Attribute(b, e, x, row) \in SoundBooks(before, evs, u, exact, served)
           /\ Payable(Attribute(b, e, x, row), u, evs[e].time) = Payable(b, u, evs[e].time)
           /\ Covered(Attribute(b, e, x, row).attributions, R,
                      Attribute(b, e, x, row).consumptions)
           /\ Accounted(Attribute(b, e, x, row), e) = Accounted(b, e)
           /\ Attribute(b, e, x, row).lots = b.lots /\ Attribute(b, e, x, row).gaps = b.gaps
<1> DEFINE new == [target_event |-> e, target_asset |-> x.asset, source_lot |-> row.lot,
                   native_amount |-> row.amount, rmb_basis |-> row.basis]
           A == Insert(b.attributions, new)
           n == NextId(b.attributions)
           d == Attribute(b, e, x, row)
<1>1. /\ IsTable(b.attributions, Attribution) /\ b \in BookSet
      /\ IsTable(b.consumptions, Consumption)
      /\ \A a \in DOMAIN b.attributions :
           SameOwner(b, evs, b.attributions[a].source_lot, b.attributions[a].target_event)
  BY DEF SoundBooks, Sound, RowsTyped, NoStraysIn
<1>2. e \in Nat /\ e \in DOMAIN evs /\ evs[e].user = u
  BY DEF Handles, IsTable
<1>3. /\ row \in Consumption /\ row.lot \in DOMAIN b.lots /\ b.lots[row.lot].user = u
      /\ row.event = e
  BY DEF DrawnRows, Payable
<1>4. /\ new \in Attribution /\ new.source_lot = row.lot /\ new.target_event = e
      /\ new.native_amount = row.amount /\ new.rmb_basis = row.basis
  BY <1>2, <1>3 DEF Attribution, Consumption
<1>5. d = WithRows(b, A)
  <2>1. d = [b EXCEPT !.attributions = A]
    BY DEF Attribute
  <2>2. [b EXCEPT !.attributions = A] = [lots |-> b.lots, consumptions |-> b.consumptions,
                                         attributions |-> A, gaps |-> b.gaps]
    <3> HIDE DEF A
    <3> QED BY <1>1 DEF BookSet
  <2> QED BY <2>1, <2>2 DEF WithRows
<1> HIDE DEF new, d
<1>6. IsTable(A, Attribution)
  BY <1>1, <1>4, InsertTyped
<1>7. OneMore(b.attributions, A, n, new)
  <2>1. /\ DOMAIN Insert(b.attributions, new) = DOMAIN b.attributions \cup {NextId(b.attributions)}
        /\ Insert(b.attributions, new)[NextId(b.attributions)] = new
        /\ \A k \in DOMAIN b.attributions : Insert(b.attributions, new)[k] = b.attributions[k]
    BY <1>1, InsertRow
  <2>2. n \notin DOMAIN b.attributions
    BY <1>1, FreshKey
  <2> QED BY <2>1, <2>2 DEF OneMore
<1> HIDE DEF A, n
<1>8. \A a \in DOMAIN A : SameOwner(b, evs, A[a].source_lot, A[a].target_event)
  BY <1>1, <1>2, <1>3, <1>4, <1>7 DEF SameOwner, OneMore
<1>9. Covered(A, R, b.consumptions)
  <2> DEFINE old == b.attributions
             C == b.consumptions
  <2>1. /\ IsTable(old, Attribution) /\ IsTable(C, Consumption) /\ OneMore(old, A, n, new)
        /\ Covered(old, Q, C)
    BY <1>1, <1>7
  <2>2. /\ new.target_event = row.event /\ new.source_lot = row.lot
        /\ new.native_amount = row.amount /\ new.rmb_basis = row.basis
    BY <1>3, <1>4
  <2> HIDE DEF old, C
  <2>3. Covered(A, R, C)
    BY <1>6, <2>1, <2>2, AttributedCovered
  <2> QED BY <2>3 DEF C
<1>10. WithRows(b, A) \in SoundBooks(before, evs, u, exact, served)
  <2>1. Backed(A, b.consumptions)
    BY <1>1, <1>6, <1>9, CoveredBacked
  <2> QED BY <1>6, <1>8, <2>1, AttributionsSound
<1>11. /\ Payable(WithRows(b, A), u, evs[e].time) = Payable(b, u, evs[e].time)
       /\ WithRows(b, A).attributions = A /\ WithRows(b, A).consumptions = b.consumptions
  BY DEF Payable, WithRows
<1>12. /\ WithRows(b, A).consumptions = b.consumptions /\ WithRows(b, A).gaps = b.gaps
       /\ WithRows(b, A).lots = b.lots
  BY DEF WithRows
<1>13. Accounted(WithRows(b, A), e) = Accounted(b, e)
  BY <1>12, SameAccounts
<1> QED BY <1>5, <1>9, <1>10, <1>11, <1>12, <1>13 DEF d

AttributeOn(e, x, r, b, row) == Attribute(b, e, x, row)

Attributing == INSTANCE FoldTheorems WITH Op <- AttributeOn

(* The rows of a list after the first i. *)
Rest(list, i) == [j \in (i + 1) .. Len(list) |-> list[j]]

(* Each turn takes the first of the rest. *)
LEMMA RestRows ==
    ASSUME NEW e, NEW C, NEW list \in Seq(DrawnRows(e, C))
    PROVE  /\ Rest(list, 0) = list
           /\ \A i \in 0 .. Len(list) : IsTable(Rest(list, i), Consumption)
           /\ \A i \in 1 .. Len(list) : OneMore(Rest(list, i), Rest(list, i - 1), i, list[i])
<1>1. /\ DOMAIN list = 1 .. Len(list) /\ Len(list) \in Nat
      /\ list = [j \in 1 .. Len(list) |-> list[j]]
      /\ \A j \in 1 .. Len(list) : list[j] \in DrawnRows(e, C)
  OBVIOUS
<1>2. Rest(list, 0) = list
  BY <1>1 DEF Rest
<1>3. ASSUME NEW i \in 0 .. Len(list) PROVE IsTable(Rest(list, i), Consumption)
  <2>1. /\ DOMAIN Rest(list, i) = (i + 1) .. Len(list)
        /\ \A j \in (i + 1) .. Len(list) : Rest(list, i)[j] \in Consumption
    BY <1>1 DEF Rest, DrawnRows
  <2>2. i + 1 \in Int /\ Len(list) \in Int
    BY <1>1
  <2>3. IsFiniteSet((i + 1) .. Len(list))
    BY <2>2, FS_Interval
  <2> QED BY <1>1, <2>1, <2>3 DEF IsTable, Rest
<1>4. ASSUME NEW i \in 1 .. Len(list)
      PROVE  OneMore(Rest(list, i), Rest(list, i - 1), i, list[i])
  <2>1. (i - 1) + 1 = i /\ i .. Len(list) = ((i + 1) .. Len(list)) \cup {i}
    BY <1>1
  <2> QED BY <1>1, <2>1 DEF OneMore, Rest
<1> QED BY <1>2, <1>3, <1>4

(* Buying one asset: what allocate() drew is attributed to it. *)
LEMMA PurchaseSound ==
    ASSUME NEW before, NEW evs, NEW u, NEW exact, NEW served,
           NEW b \in SoundBooks(before, evs, u, exact, served),
           NEW e, Handles(evs, e, u, served), NEW x, x.asset \in Assets,
           NEW list \in Seq(DrawnRows(e, Payable(b, u, evs[e].time))),
           Covered(b.attributions, list, b.consumptions)
    PROVE  /\ Attributing!Folded(e, x, e, b, list) \in SoundBooks(before, evs, u, exact, served)
           /\ Accounted(Attributing!Folded(e, x, e, b, list), e) = Accounted(b, e)
           /\ Attributing!Folded(e, x, e, b, list).lots = b.lots
           /\ Attributing!Folded(e, x, e, b, list).gaps = b.gaps
<1> DEFINE C == Payable(b, u, evs[e].time)
           D == Accounted(b, e)
           After(i) == {d \in SoundBooks(before, evs, u, exact, served) :
                          /\ Payable(d, u, evs[e].time) = C
                          /\ Accounted(d, e) = D
                          /\ d.lots = b.lots /\ d.gaps = b.gaps
                          /\ Covered(d.attributions, Rest(list, i), d.consumptions)}
           X == [i \in 0 .. Len(list) |-> After(i)]
<1>1. /\ Rest(list, 0) = list
      /\ \A i \in 0 .. Len(list) : IsTable(Rest(list, i), Consumption)
      /\ \A i \in 1 .. Len(list) : OneMore(Rest(list, i), Rest(list, i - 1), i, list[i])
  BY RestRows
<1>2. ASSUME NEW i \in 1 .. Len(list), NEW d \in After(i - 1)
      PROVE  AttributeOn(e, x, e, d, list[i]) \in After(i)
  <2> DEFINE row == list[i]
             R == Rest(list, i)
             Q == Rest(list, i - 1)
             next == Attribute(d, e, x, row)
  <2>1. /\ d \in SoundBooks(before, evs, u, exact, served) /\ Payable(d, u, evs[e].time) = C
        /\ Covered(d.attributions, Q, d.consumptions) /\ Accounted(d, e) = D
        /\ d.lots = b.lots /\ d.gaps = b.gaps
    OBVIOUS
  <2>2. row \in DrawnRows(e, Payable(d, u, evs[e].time))
    <3> HIDE DEF C
    <3>1. list \in Seq(DrawnRows(e, C))
      BY DEF C
    <3> QED BY <2>1, <3>1
  <2>3. IsTable(R, Consumption) /\ IsTable(Q, Consumption) /\ OneMore(R, Q, i, row)
    <3>1. i \in 0 .. Len(list) /\ i - 1 \in 0 .. Len(list)
      OBVIOUS
    <3> QED BY <1>1, <3>1
  <2> HIDE DEF row, R, Q
  <2>4. /\ Attribute(d, e, x, row) \in SoundBooks(before, evs, u, exact, served)
        /\ Payable(Attribute(d, e, x, row), u, evs[e].time) = Payable(d, u, evs[e].time)
        /\ Covered(Attribute(d, e, x, row).attributions, R,
                   Attribute(d, e, x, row).consumptions)
        /\ Accounted(Attribute(d, e, x, row), e) = Accounted(d, e)
        /\ Attribute(d, e, x, row).lots = d.lots /\ Attribute(d, e, x, row).gaps = d.gaps
    BY <2>1, <2>2, <2>3, AttributeSound
  <2> HIDE DEF C, D
  <2> QED BY <2>1, <2>4 DEF AttributeOn, row, R
<1>3. b \in After(0)
  BY <1>1
<1> HIDE DEF C, D, After
<1>4. Attributing!Folded(e, x, e, b, list) \in X[Len(list)]
  <2> DEFINE S == DrawnRows(e, C)
  <2>1. list \in Seq(S) /\ Len(list) \in Nat
    BY DEF C
  <2>2. b \in X[0]
    BY <1>3, <2>1
  <2>3. \A i \in 1 .. Len(list) : \A d \in X[i - 1] : AttributeOn(e, x, e, d, list[i]) \in X[i]
    <3>1. \A i \in 1 .. Len(list) : X[i - 1] = After(i - 1) /\ X[i] = After(i)
      BY <2>1
    <3> QED BY <1>2, <3>1
  <2> HIDE DEF X, S
  <2> QED BY <2>1, <2>2, <2>3, Attributing!Advances
<1>5. X[Len(list)] = After(Len(list))
  BY DEF X
<1> QED BY <1>4, <1>5 DEF After, D

BuyOn(e, ev, r, b, x) ==
    LET run == Allocate(b, e, ev, x.currency, x.amount, x.asset)
    IN  FoldLeft(LAMBDA d, row : Attribute(d, e, x, row), run.book, run.drawn)

Buying == INSTANCE FoldTheorems WITH Op <- BuyOn

AddOn(p, q, r, sum, x) == sum + x.amount

Adding == INSTANCE FoldTheorems WITH Op <- AddOn

(* Buying assets, which accounts for what they cost. *)
LEMMA AssetPurchaseSound ==
    ASSUME NEW before, NEW evs, NEW u, NEW exact, NEW served,
           NEW b \in SoundBooks(before, evs, u, exact, served),
           NEW e, Handles(evs, e, u, served)
    PROVE  /\ AssetPurchase(b, e, evs[e]) \in SoundBooks(before, evs, u, exact, served)
           /\ Accounted(AssetPurchase(b, e, evs[e]), e) = Accounted(b, e) + Needed(evs[e])
           /\ Needed(evs[e]) \in Nat
<1> DEFINE ev == evs[e]
           list == Purchased(ev)
           D == Accounted(b, e)
<1>1. /\ list \in Seq(ToSet(list))
      /\ \A x \in ToSet(list) : x.asset \in Assets /\ x.currency \in STRING /\ x.amount \in Nat
  BY Entries, AssetLegs
<1>2. Needed(ev) = Adding!Folded(e, e, e, 0, list)
  BY DEF Needed, AddOn, Adding!Folded, Adding!FoldLeft, Adding!MapThenFoldSet,
         FoldLeft, MapThenFoldSet, Adding!Max, Max
<1>3. AssetPurchase(b, e, ev) = Buying!Folded(e, ev, e, b, list)
  BY DEF AssetPurchase, BuyOn, Buying!Folded, Buying!FoldLeft, Buying!MapThenFoldSet,
         FoldLeft, MapThenFoldSet, Buying!Max, Max
<1> HIDE DEF list
<1>4. PICK P : /\ P[0] = 0 /\ P[Len(list)] = Needed(ev)
               /\ \A n \in 1 .. Len(list) : P[n] = AddOn(e, e, e, P[n - 1], list[n])
  BY <1>1, <1>2, Adding!Turns
<1>5. D \in Nat
  BY AccountsNat DEF SoundBooks, Sound
<1> HIDE DEF D
<1> DEFINE After(n) == {d \in SoundBooks(before, evs, u, exact, served) :
                          P[n] \in Nat /\ Accounted(d, e) = D + P[n]}
           X == [n \in 0 .. Len(list) |-> After(n)]
<1>6. ASSUME NEW n \in 1 .. Len(list), NEW d \in After(n - 1)
      PROVE  BuyOn(e, ev, e, d, list[n]) \in After(n)
  <2> DEFINE x == list[n]
             currency == x.currency
             amount == x.amount
             asset == x.asset
             run == Allocate(d, e, evs[e], currency, amount, asset)
             drawn == run.drawn
             book == run.book
  <2>0. /\ d \in SoundBooks(before, evs, u, exact, served) /\ P[n - 1] \in Nat
        /\ Accounted(d, e) = D + P[n - 1]
    BY <1>6
  <2>1. /\ currency \in STRING /\ amount \in Nat /\ asset \in Assets \cup {NoAsset}
        /\ x.asset \in Assets
    BY <1>1
  <2>2. BuyOn(e, ev, e, d, x) = Attributing!Folded(e, x, e, book, drawn)
    BY DEF BuyOn, AttributeOn, Attributing!Folded, Attributing!FoldLeft,
           Attributing!MapThenFoldSet, FoldLeft, MapThenFoldSet, Attributing!Max, Max
  <2>3. P[n] = P[n - 1] + amount
    BY <1>4 DEF AddOn
  <2> HIDE DEF After
  <2>4. /\ run \in Draws(before, evs, u, exact, served, e, Payable(d, u, evs[e].time))
        /\ Accounted(book, e) = Accounted(d, e) + amount
    <3>1. asset \in Assets
      BY <2>1
    <3> HIDE DEF currency, amount, asset
    <3>2. /\ Allocate(d, e, evs[e], currency, amount, asset)
               \in Draws(before, evs, u, exact, served, e, Payable(d, u, evs[e].time))
          /\ asset \in Assets =>
               Accounted(Allocate(d, e, evs[e], currency, amount, asset).book, e)
                 = Accounted(d, e) + amount
      BY <2>0, <2>1, AllocateSound
    <3> QED BY <3>1, <3>2
  <2> HIDE DEF run
  <2>5. /\ book \in SoundBooks(before, evs, u, exact, served)
        /\ drawn \in Seq(DrawnRows(e, Payable(book, u, evs[e].time)))
        /\ Covered(book.attributions, drawn, book.consumptions)
    BY <2>4, Allocated
  <2> HIDE DEF book, drawn, x, amount
  <2>6. /\ Attributing!Folded(e, x, e, book, drawn) \in SoundBooks(before, evs, u, exact, served)
        /\ Accounted(Attributing!Folded(e, x, e, book, drawn), e) = Accounted(book, e)
    BY <2>1, <2>5, PurchaseSound
  <2>7. BuyOn(e, ev, e, d, x) \in After(n)
    BY <1>5, <2>0, <2>1, <2>2, <2>3, <2>4, <2>6 DEF After
  <2> QED BY <2>7 DEF x
<1>7. b \in After(0)
  BY <1>4, <1>5 DEF D
<1> HIDE DEF After, ev
<1>8. Buying!Folded(e, ev, e, b, list) \in X[Len(list)]
  <2> DEFINE S == ToSet(list)
  <2>1. list \in Seq(S) /\ Len(list) \in Nat
    BY <1>1
  <2>2. b \in X[0]
    BY <1>7, <2>1
  <2>3. \A n \in 1 .. Len(list) : \A d \in X[n - 1] : BuyOn(e, ev, e, d, list[n]) \in X[n]
    <3>1. \A n \in 1 .. Len(list) : X[n - 1] = After(n - 1) /\ X[n] = After(n)
      BY <2>1
    <3> QED BY <1>6, <3>1
  <2> HIDE DEF X, S
  <2> QED BY <2>1, <2>2, <2>3, Buying!Advances
<1>9. X[Len(list)] = After(Len(list))
  <2>1. Len(list) \in 0 .. Len(list)
    BY <1>1
  <2> QED BY <2>1
<1>10. Buying!Folded(e, ev, e, b, list) \in After(Len(list))
  BY <1>8, <1>9
<1> QED BY <1>3, <1>4, <1>10 DEF After, D, ev

(* Whatever the type of the event, its handler keeps the books sound. *)
LEMMA ProcessSound ==
    ASSUME NEW before, NEW evs, NEW u, NEW exact, NEW served,
           NEW b \in SoundBooks(before, evs, u, exact, served),
           NEW e, Handles(evs, e, u, served)
    PROVE  Process(b, evs, e) \in SoundBooks(before, evs, u, exact, served)
<1>1. /\ FxBuy(b, e, evs[e]) \in SoundBooks(before, evs, u, exact, served)
      /\ FxSell(b, e, evs[e]) \in SoundBooks(before, evs, u, exact, served)
      /\ FxSwap(b, e, evs[e]) \in SoundBooks(before, evs, u, exact, served)
      /\ IncomeOrRedemption(b, evs, e, evs[e]) \in SoundBooks(before, evs, u, exact, served)
      /\ ManualAdjustment(b, e, evs[e]) \in SoundBooks(before, evs, u, exact, served)
      /\ AssetPurchase(b, e, evs[e]) \in SoundBooks(before, evs, u, exact, served)
  BY FxBuySound, FxSellSound, FxSwapSound, IncomeSound, ManualAdjustmentSound, AssetPurchaseSound
<1> QED BY <1>1 DEF Process

(* The handler of a purchase accounts for what the assets cost. *)
LEMMA ProcessAccounted ==
    ASSUME NEW before, NEW evs, NEW u, NEW exact, NEW served,
           NEW b \in SoundBooks(before, evs, u, exact, served),
           NEW e, Handles(evs, e, u, served),
           evs[e].status = "CONFIRMED", evs[e].type \in Purchases
    PROVE  /\ Accounted(Process(b, evs, e), e) = Accounted(b, e) + Needed(evs[e])
           /\ Needed(evs[e]) \in Nat
<1>1. /\ Accounted(AssetPurchase(b, e, evs[e]), e) = Accounted(b, e) + Needed(evs[e])
      /\ Needed(evs[e]) \in Nat
  BY AssetPurchaseSound
<1>2. Process(b, evs, e) = AssetPurchase(b, e, evs[e])
  BY DEF Process, Purchases, Returns
<1> QED BY <1>1, <1>2
-----------------------------------------------------------------------------
(* Clearing and replaying.                                                 *)

(* Typed, backed books without strays or overspending are sound    *)
(* for whoever is served next.                                             *)
LEMMA StartSound ==
    ASSUME NEW b, HasTables(b), RowsTyped(b), NEW evs, NoStraysIn(b, evs), SpentOnceIn(b),
           BackedIn(b), NEW u, NEW served
    PROVE  b \in SoundBooks(b, evs, u, FALSE, served)
  BY TypedBooks, BackedRows DEF SoundBooks, Sound, OthersKept, OldAccounts

(* Deleting lots and consumptions spends nothing twice. *)
LEMMA FewerSpent ==
    ASSUME NEW b, RowsTyped(b), SpentOnceIn(b), NEW S, NEW d,
           d.consumptions = Without(b.consumptions, S),
           \A l \in DOMAIN d.lots : l \in DOMAIN b.lots /\ d.lots[l] = b.lots[l]
    PROVE  SpentOnceIn(d)
<1>1. IsTable(b.consumptions, Consumption) /\ IsTable(d.consumptions, Consumption)
  <2>1. IsTable(b.consumptions, Consumption)
    BY DEF RowsTyped
  <2>2. IsTable(Without(b.consumptions, S), Consumption)
    BY <2>1, WithoutRows
  <2> QED BY <2>1, <2>2
<1>2. \A l \in DOMAIN b.lots :
        NotOverspent(b.lots[l], Taken(b.consumptions, l), Cost(b.consumptions, l))
  BY SpentLots
<1>3. ASSUME NEW l \in DOMAIN d.lots
      PROVE  NotOverspent(d.lots[l], Taken(d.consumptions, l), Cost(d.consumptions, l))
  <2>1. /\ Taken(d.consumptions, l) <= Taken(b.consumptions, l)
        /\ Cost(d.consumptions, l) <= Cost(b.consumptions, l)
    BY <1>1, WithoutTaken
  <2>2. /\ Taken(d.consumptions, l) \in Nat /\ Cost(d.consumptions, l) \in Nat
        /\ Taken(b.consumptions, l) \in Nat /\ Cost(b.consumptions, l) \in Nat
    BY <1>1, FromTyped
  <2>3. l \in DOMAIN b.lots /\ d.lots[l] = b.lots[l] /\ b.lots[l] \in Lot
    BY <1>3 DEF RowsTyped, IsTable
  <2> DEFINE lot == b.lots[l]
  <2>4. NotOverspent(lot, Taken(b.consumptions, l), Cost(b.consumptions, l)) /\ lot \in Lot
    BY <1>2, <2>3
  <2> HIDE DEF lot
  <2>5. /\ lot.remaining_amount \in Nat /\ lot.original_amount \in Nat
        /\ lot.original_basis # NoBasis =>
             lot.original_basis \in Nat /\ lot.remaining_basis \in Nat
    BY <2>4, LotColumns
  <2>6. NotOverspent(lot, Taken(d.consumptions, l), Cost(d.consumptions, l))
    BY <2>1, <2>2, <2>4, <2>5 DEF NotOverspent
  <2> QED BY <2>3, <2>6 DEF lot
<1> QED BY <1>3, SpentLots

(* Clearing a user's books leaves nothing of the user behind. *)
LEMMA ClearedSound ==
    ASSUME NEW b, HasTables(b), RowsTyped(b), NEW evs, NoStraysIn(b, evs), SpentOnceIn(b),
           BackedIn(b), NEW u
    PROVE  Cleared(b, evs, u) \in SoundBooks(b, evs, u, TRUE, DOMAIN evs)
<1> DEFINE own == {e \in DOMAIN evs : evs[e].user = u}
           lots == LotsOf(b, u)
           spent == ConsumptionsOf(b, own, lots)
           paid == Where(b.attributions, LAMBDA a : a.target_event \in own \/ a.source_lot \in lots)
           missed == GapsOf(b, own)
           d == Cleared(b, evs, u)
<1>1. /\ \A e : e \in own <=> (e \in DOMAIN evs /\ evs[e].user = u)
      /\ \A l : l \in lots <=> (l \in DOMAIN b.lots /\ b.lots[l].user = u)
      /\ \A c : c \in spent <=> (/\ c \in DOMAIN b.consumptions
                                 /\ \/ b.consumptions[c].event \in own
                                    \/ b.consumptions[c].lot \in lots)
      /\ \A a : a \in paid <=> (/\ a \in DOMAIN b.attributions
                                /\ \/ b.attributions[a].target_event \in own
                                   \/ b.attributions[a].source_lot \in lots)
      /\ \A g : g \in missed <=> (g \in DOMAIN b.gaps /\ b.gaps[g].event \in own)
  BY DEF LotsOf, ConsumptionsOf, GapsOf, Where
<1>2. d = [lots |-> Without(b.lots, lots), consumptions |-> Without(b.consumptions, spent),
           attributions |-> Without(b.attributions, paid), gaps |-> Without(b.gaps, missed)]
  BY DEF Cleared
<1> HIDE DEF d, own, lots, spent, paid, missed
<1>3. /\ IsTable(d.lots, Lot) /\ DOMAIN d.lots = DOMAIN b.lots \ lots
      /\ \A i \in DOMAIN d.lots : d.lots[i] = b.lots[i]
  <2>1. IsTable(b.lots, Lot)
    BY DEF RowsTyped
  <2>2. /\ IsTable(Without(b.lots, lots), Lot)
        /\ DOMAIN Without(b.lots, lots) = DOMAIN b.lots \ lots
        /\ \A i \in DOMAIN b.lots \ lots : Without(b.lots, lots)[i] = b.lots[i]
    BY <2>1, WithoutRows
  <2>3. d.lots = Without(b.lots, lots)
    BY <1>2
  <2> QED BY <2>2, <2>3
<1>4. /\ IsTable(d.consumptions, Consumption)
      /\ DOMAIN d.consumptions = DOMAIN b.consumptions \ spent
      /\ \A i \in DOMAIN d.consumptions : d.consumptions[i] = b.consumptions[i]
  <2>1. IsTable(b.consumptions, Consumption)
    BY DEF RowsTyped
  <2>2. /\ IsTable(Without(b.consumptions, spent), Consumption)
        /\ DOMAIN Without(b.consumptions, spent) = DOMAIN b.consumptions \ spent
        /\ \A i \in DOMAIN b.consumptions \ spent :
              Without(b.consumptions, spent)[i] = b.consumptions[i]
    BY <2>1, WithoutRows
  <2>3. d.consumptions = Without(b.consumptions, spent)
    BY <1>2
  <2> QED BY <2>2, <2>3
<1>5. /\ IsTable(d.attributions, Attribution)
      /\ DOMAIN d.attributions = DOMAIN b.attributions \ paid
      /\ \A i \in DOMAIN d.attributions : d.attributions[i] = b.attributions[i]
  <2>1. IsTable(b.attributions, Attribution)
    BY DEF RowsTyped
  <2>2. /\ IsTable(Without(b.attributions, paid), Attribution)
        /\ DOMAIN Without(b.attributions, paid) = DOMAIN b.attributions \ paid
        /\ \A i \in DOMAIN b.attributions \ paid :
              Without(b.attributions, paid)[i] = b.attributions[i]
    BY <2>1, WithoutRows
  <2>3. d.attributions = Without(b.attributions, paid)
    BY <1>2
  <2> QED BY <2>2, <2>3
<1>6. /\ IsTable(d.gaps, Gap) /\ DOMAIN d.gaps = DOMAIN b.gaps \ missed
      /\ \A i \in DOMAIN d.gaps : d.gaps[i] = b.gaps[i]
  <2>1. IsTable(b.gaps, Gap)
    BY DEF RowsTyped
  <2>2. /\ IsTable(Without(b.gaps, missed), Gap)
        /\ DOMAIN Without(b.gaps, missed) = DOMAIN b.gaps \ missed
        /\ \A i \in DOMAIN b.gaps \ missed : Without(b.gaps, missed)[i] = b.gaps[i]
    BY <2>1, WithoutRows
  <2>3. d.gaps = Without(b.gaps, missed)
    BY <1>2
  <2> QED BY <2>2, <2>3
<1>7. RowsTyped(d) /\ HasTables(d)
  BY <1>2, <1>3, <1>4, <1>5, <1>6 DEF RowsTyped, HasTables
<1>8. NoStraysIn(d, evs)
  <2>1. \A l \in DOMAIN d.lots : SameOwner(d, evs, l, d.lots[l].source_event)
    BY <1>3 DEF NoStraysIn, SameOwner
  <2>2. \A c \in DOMAIN d.consumptions :
          SameOwner(d, evs, d.consumptions[c].lot, d.consumptions[c].event)
    BY <1>1, <1>3, <1>4 DEF NoStraysIn, SameOwner
  <2>3. \A a \in DOMAIN d.attributions :
          SameOwner(d, evs, d.attributions[a].source_lot, d.attributions[a].target_event)
    BY <1>1, <1>3, <1>5 DEF NoStraysIn, SameOwner
  <2>4. \A g \in DOMAIN d.gaps :
          d.gaps[g].event \in DOMAIN evs /\ d.gaps[g].user = evs[d.gaps[g].event].user
    BY <1>6 DEF NoStraysIn
  <2> QED BY <2>1, <2>2, <2>3, <2>4 DEF NoStraysIn
<1>9. SpentOnceIn(d)
  <2>1. d.consumptions = Without(b.consumptions, spent)
    BY <1>2
  <2> QED BY <1>3, <2>1, FewerSpent
<1>10. OthersKept(b, d, u)
  <2>1. OtherLots(d, u) = OtherLots(b, u)
    BY <1>1, <1>3 DEF OtherLots
  <2>2. OtherConsumptions(d, u) = OtherConsumptions(b, u)
    BY <1>1, <1>3, <1>4, <1>8 DEF OtherConsumptions, NoStraysIn, SameOwner
  <2>3. OtherGaps(d, u) = OtherGaps(b, u)
    BY <1>1, <1>6 DEF OtherGaps, NoStraysIn
  <2>4. /\ OtherLots(d, u) \subseteq DOMAIN d.lots
        /\ OtherConsumptions(d, u) \subseteq DOMAIN d.consumptions
        /\ OtherGaps(d, u) \subseteq DOMAIN d.gaps
    BY DEF OtherLots, OtherConsumptions, OtherGaps
  <2> QED BY <1>3, <1>4, <1>6, <2>1, <2>2, <2>3, <2>4 DEF OthersKept
<1>11. Exact(d, evs, u)
  <2>1. \A l \in DOMAIN d.lots : d.lots[l].user # u
    BY <1>1, <1>3
  <2>2. \A c \in DOMAIN d.consumptions : evs[d.consumptions[c].event].user # u
    BY <1>1, <1>4 DEF NoStraysIn, SameOwner
  <2> QED BY <2>1, <2>2, ExactRows
<1>12. d \in BookSet
  BY <1>7, TypedBooks
<1>13. Backed(d.attributions, d.consumptions)
  <2> DEFINE A == b.attributions
             B == d.attributions
             C == b.consumptions
             D == d.consumptions
  <2>1. /\ IsTable(A, Attribution) /\ IsTable(C, Consumption) /\ Backed(A, C)
        /\ IsTable(B, Attribution) /\ IsTable(D, Consumption)
    BY <1>4, <1>5, BackedRows DEF RowsTyped
  <2>2. /\ DOMAIN B \subseteq DOMAIN A /\ \A a \in DOMAIN B : B[a] = A[a]
        /\ DOMAIN D \subseteq DOMAIN C /\ \A c \in DOMAIN D : D[c] = C[c]
    BY <1>4, <1>5
  <2>3. \A a \in DOMAIN B : \A c \in DOMAIN C : c \notin DOMAIN D =>
           ~ (B[a].target_event = C[c].event /\ B[a].source_lot = C[c].lot)
    BY <1>1, <1>4, <1>5
  <2> HIDE DEF A, B, C, D
  <2>4. Backed(B, D)
    BY <2>1, <2>2, <2>3, WithoutBacked
  <2> QED BY <2>4 DEF B, D
<1> QED BY <1>7, <1>8, <1>9, <1>10, <1>11, <1>12, <1>13 DEF SoundBooks, Sound, d

(* Two forms of a history with the same events at the same times. *)
SameHistory(evs, other) ==
    /\ DOMAIN other = DOMAIN evs
    /\ \A e \in DOMAIN evs : other[e].user = evs[e].user /\ other[e].time = evs[e].time

(* Soundness does not depend on the entries of the events. *)
LEMMA SameSound ==
    ASSUME NEW before, NEW evs, NEW other, SameHistory(evs, other), NEW u, NEW exact, NEW served,
           NEW b \in SoundBooks(before, evs, u, exact, served)
    PROVE  b \in SoundBooks(before, other, u, exact, served)
<1>1. /\ b \in BookSet /\ RowsTyped(b) /\ NoStraysIn(b, evs) /\ SpentOnceIn(b)
      /\ OthersKept(before, b, u) /\ (exact => Exact(b, evs, u))
      /\ Backed(b.attributions, b.consumptions) /\ (exact \/ OldAccounts(before, b, served))
  BY DEF SoundBooks, Sound
<1>2. NoStraysIn(b, other)
  BY <1>1 DEF NoStraysIn, SameOwner, SameHistory
<1>3. exact => Exact(b, other, u)
  <2> SUFFICES ASSUME exact PROVE Exact(b, other, u)
    OBVIOUS
  <2>1. /\ \A l \in DOMAIN b.lots : b.lots[l].user = u => ExactLot(b, evs, l)
        /\ \A c \in DOMAIN b.consumptions :
             evs[b.consumptions[c].event].user = u => PaidInTime(b, evs, c)
    BY <1>1, ExactRows
  <2>2. /\ \A l \in DOMAIN b.lots : b.lots[l].source_event \in DOMAIN evs
        /\ \A c \in DOMAIN b.consumptions : b.consumptions[c].event \in DOMAIN evs
    BY <1>1 DEF NoStraysIn, SameOwner
  <2>3. \A l \in DOMAIN b.lots : b.lots[l].user = u => ExactLot(b, other, l)
    BY <2>1, <2>2 DEF ExactLot, SameHistory
  <2>4. \A c \in DOMAIN b.consumptions :
             other[b.consumptions[c].event].user = u => PaidInTime(b, other, c)
    BY <2>1, <2>2 DEF PaidInTime, SameHistory
  <2> QED BY <2>3, <2>4, ExactRows
<1> QED BY <1>1, <1>2, <1>3 DEF SoundBooks, Sound

(* The event that a rebuild reads back has the columns of the stored one. *)
LEMMA StoredEvent ==
    ASSUME NEW ev \in Event
    PROVE  /\ FromColumns(ev) \in Event /\ FromColumns(ev).user = ev.user
           /\ FromColumns(ev).time = ev.time
<1> DEFINE unknown(c) == /\ ev.type = "MANUAL_ADJUSTMENT" /\ c.currency # CNY /\ c.delta > 0
                         /\ c.rmb = NoBasis /\ c.rate = NoBasis
           stored(c) == [c EXCEPT !.raw = [keys |-> IF unknown(c) THEN {"unknown_basis"} ELSE {},
                                           rmb_basis |-> NoBasis]]
           cash == [i \in DOMAIN ev.cash |-> stored(ev.cash[i])]
<1>1. \A c \in CashEntry : stored(c) \in CashEntry
  <2> HIDE DEF unknown
  <2> QED BY DEF CashEntry, Bases
<1>2. ev.cash \in Seq(CashEntry)
  BY DEF Event
<1>3. cash \in Seq(CashEntry)
  <2> HIDE DEF stored
  <2> QED BY <1>1, <1>2
<1>4. FromColumns(ev) = [ev EXCEPT !.cash = cash]
  BY DEF FromColumns
<1> HIDE DEF cash
<1> QED BY <1>3, <1>4 DEF Event

ReplayOn(evs, q, r, b, e) == Process(b, evs, e)

Replaying == INSTANCE FoldTheorems WITH Op <- ReplayOn

IInv == TypeOK /\ NoStrayRows /\ NeverSpentTwice /\ AttributedFromConsumed

(* Clearing a user's books and replaying any of the user's events leaves   *)
(* exact books, and the others' as they were.                              *)
LEMMA ReplayedSound ==
    ASSUME IInv, NEW u, NEW chosen,
           \A e \in chosen : e \in DOMAIN events /\ events[e].user = u
    PROVE  Replayed(u, chosen) \in SoundBooks(books, events, u, TRUE, DOMAIN events)
<1> DEFINE stored == [e \in DOMAIN events |-> FromColumns(events[e])]
           X == SoundBooks(books, stored, u, TRUE, DOMAIN events)
           list == InTimeOrder(events, chosen)
           start == Cleared(books, events, u)
<1>1. /\ IsTable(events, Event) /\ HasTables(books) /\ RowsTyped(books)
      /\ NoStraysIn(books, events) /\ SpentOnceIn(books) /\ BackedIn(books)
  BY DEF IInv, TypeOK, NoStrayRows, NeverSpentTwice, AttributedFromConsumed
<1>2. \A e \in DOMAIN events : events[e] \in Event
  BY <1>1 DEF IsTable
<1>3. \A e \in DOMAIN events : /\ stored[e] \in Event /\ stored[e].user = events[e].user
                               /\ stored[e].time = events[e].time
  BY <1>2, StoredEvent
<1>4. DOMAIN stored = DOMAIN events /\ IsTable(stored, Event)
  BY <1>1, <1>3 DEF IsTable
<1> HIDE DEF stored, list, start
<1>5. SameHistory(events, stored) /\ SameHistory(stored, events)
  BY <1>3, <1>4 DEF SameHistory
<1>6. start \in X
  <2>1. start \in SoundBooks(books, events, u, TRUE, DOMAIN events)
    BY <1>1, ClearedSound DEF start
  <2> QED BY <1>5, <2>1, SameSound
<1>7. list \in Seq(chosen)
  <2>1. KeySet(chosen)
    <3>1. chosen \subseteq DOMAIN events
      OBVIOUS
    <3> QED BY <1>1, <3>1, FS_Subset DEF IsTable, KeySet
  <2>2. \A x \in chosen : events[x].time \in Nat
    BY <1>2, FundingAttributionAssumption DEF Event
  <2> QED BY <2>1, <2>2, EventsInOrder DEF list
<1>8. \A b \in X : \A e \in chosen : ReplayOn(stored, u, u, b, e) \in X
  <2> SUFFICES ASSUME NEW b \in X, NEW e \in chosen PROVE Process(b, stored, e) \in X
    BY DEF ReplayOn
  <2>1. Handles(stored, e, u, DOMAIN events)
    BY <1>3, <1>4 DEF Handles
  <2> QED BY <2>1, ProcessSound
<1>9. Replaying!Folded(stored, u, u, start, list) \in X
  <2> HIDE DEF X
  <2> QED BY <1>6, <1>7, <1>8, Replaying!Stays
<1>10. Replayed(u, chosen) = Replaying!Folded(stored, u, u, start, list)
  BY DEF Replayed, ReplayOn, stored, start, list,
         Replaying!Folded, Replaying!FoldLeft, Replaying!MapThenFoldSet,
         FoldLeft, MapThenFoldSet, Replaying!Max, Max
<1> QED BY <1>5, <1>9, <1>10, SameSound
-----------------------------------------------------------------------------
(* Requests.                                                               *)

(* Sound books are good books. *)
LEMMA SoundAreGood ==
    ASSUME NEW before, NEW evs, NEW u, NEW exact, NEW served,
           NEW b \in SoundBooks(before, evs, u, exact, served)
    PROVE  /\ HasTables(b) /\ RowsTyped(b) /\ NoStraysIn(b, evs) /\ SpentOnceIn(b)
           /\ BackedIn(b) /\ OthersKept(before, b, u) /\ (exact => Exact(b, evs, u))
  BY BackedRows DEF SoundBooks, Sound, HasTables, BookSet

(* What every request keeps: the invariant, and all rows but one user's. *)
Kept == IInv' /\ \E u \in Users : OthersKept(books, books', u)

(* The books that create_event hands to the handler of the new event. *)
LEMMA CreateEventStarts ==
    ASSUME IInv, NEW u \in Users, NEW p \in Payloads, NEW t \in Times, CreateEvent(u, p, t)
    PROVE  /\ IsTable(events', Event)
           /\ NextId(events) \in Nat \ {0} /\ NextId(events) \notin DOMAIN events
           /\ DOMAIN events' = DOMAIN events \cup {NextId(events)}
           /\ \A d \in DOMAIN events : events'[d] = events[d]
           /\ Handles(events', NextId(events), u, {NextId(events)})
           /\ books \in SoundBooks(books, events', u, FALSE, {NextId(events)})
           /\ books' = Process(books, events', NextId(events))
<1> DEFINE e == NextId(events)
           ev == [user |-> u, time |-> t, type |-> p.type, status |-> p.status,
                  cash |-> p.cash, assets |-> p.assets]
<1>1. /\ IsTable(events, Event) /\ HasTables(books) /\ RowsTyped(books)
      /\ NoStraysIn(books, events) /\ SpentOnceIn(books) /\ BackedIn(books)
  BY DEF IInv, TypeOK, NoStrayRows, NeverSpentTwice, AttributedFromConsumed
<1>2. events' = Insert(events, ev) /\ books' = Process(books, events', e)
  BY DEF CreateEvent
<1>3. ev \in Event /\ ev.user = u
  BY FundingAttributionAssumption DEF Payload, Event
<1> HIDE DEF ev
<1>4. /\ IsTable(events', Event)
      /\ DOMAIN events' = DOMAIN events \cup {e} /\ events'[e] = ev
      /\ \A d \in DOMAIN events : events'[d] = events[d]
  <2>1. IsTable(Insert(events, ev), Event)
    BY <1>1, <1>3, InsertTyped
  <2>2. /\ DOMAIN Insert(events, ev) = DOMAIN events \cup {NextId(events)}
        /\ Insert(events, ev)[NextId(events)] = ev
        /\ \A i \in DOMAIN events : Insert(events, ev)[i] = events[i]
    BY <1>1, InsertRow
  <2> QED BY <1>2, <2>1, <2>2
<1>5. e \in Nat \ {0} /\ e \notin DOMAIN events
  BY <1>1, FreshKey
<1> HIDE DEF e
<1>6. Handles(events', e, u, {e})
  BY <1>3, <1>4 DEF Handles
<1>7. NoStraysIn(books, events')
  BY <1>1, <1>4 DEF NoStraysIn, SameOwner
<1>8. books \in SoundBooks(books, events', u, FALSE, {e})
  BY <1>1, <1>7, StartSound
<1> QED BY <1>2, <1>4, <1>5, <1>6, <1>8 DEF e

(* create_event. *)
LEMMA CreateEventKeeps ==
    ASSUME IInv, NEW u \in Users, NEW p \in Payloads, NEW t \in Times, CreateEvent(u, p, t)
    PROVE  Kept
<1> DEFINE e == NextId(events)
<1>1. /\ IsTable(events', Event) /\ Handles(events', e, u, {e})
      /\ books \in SoundBooks(books, events', u, FALSE, {e})
      /\ books' = Process(books, events', e)
  BY CreateEventStarts
<1> HIDE DEF e
<1>2. books' \in SoundBooks(books, events', u, FALSE, {e})
  <2>1. Process(books, events', e) \in SoundBooks(books, events', u, FALSE, {e})
    BY <1>1, ProcessSound
  <2> QED BY <1>1, <2>1
<1>3. /\ HasTables(books') /\ RowsTyped(books') /\ NoStraysIn(books', events')
      /\ SpentOnceIn(books') /\ BackedIn(books') /\ OthersKept(books, books', u)
  BY <1>2, SoundAreGood
<1> QED BY <1>1, <1>3
    DEF Kept, IInv, TypeOK, NoStrayRows, NeverSpentTwice, AttributedFromConsumed

(* Deleting an event, whoever's it is. *)
LEMMA DeleteEventKeeps ==
    ASSUME IInv, NEW e, DeleteEvent(e)
    PROVE  Kept
<1> DEFINE opened == Where(books.lots, LAMBDA l : l.source_event = e)
           spent == ConsumptionsTied(e, opened)
           paid == Where(books.attributions, LAMBDA a : a.source_lot \in opened \/ a.target_event = e)
           missed == Where(books.gaps, LAMBDA g : g.event = e)
           u == events[e].user
<1>0. /\ IsTable(events, Event) /\ HasTables(books) /\ RowsTyped(books)
      /\ NoStraysIn(books, events) /\ SpentOnceIn(books) /\ BackedIn(books)
  BY DEF IInv, TypeOK, NoStrayRows, NeverSpentTwice, AttributedFromConsumed
<1>1. /\ \A l : l \in opened <=> (l \in DOMAIN books.lots /\ books.lots[l].source_event = e)
      /\ \A c : c \in spent <=> (/\ c \in DOMAIN books.consumptions
                                 /\ \/ books.consumptions[c].event = e
                                    \/ books.consumptions[c].lot \in opened)
      /\ \A a : a \in paid <=> (/\ a \in DOMAIN books.attributions
                                /\ \/ books.attributions[a].target_event = e
                                   \/ books.attributions[a].source_lot \in opened)
      /\ \A g : g \in missed <=> (g \in DOMAIN books.gaps /\ books.gaps[g].event = e)
  BY DEF ConsumptionsTied, Where
<1>2. /\ e \in DOMAIN events /\ events' = Without(events, {e})
      /\ books' = [books EXCEPT !.lots = Without(@, opened), !.consumptions = Without(@, spent),
                                !.attributions = Without(@, paid), !.gaps = Without(@, missed)]
  BY DEF DeleteEvent
<1> HIDE DEF opened, spent, paid, missed
<1>3. books' = [lots |-> Without(books.lots, opened),
                consumptions |-> Without(books.consumptions, spent),
                attributions |-> Without(books.attributions, paid),
                gaps |-> Without(books.gaps, missed)]
  <2>1. books' \in [lots : {Without(books.lots, opened)},
                    consumptions : {Without(books.consumptions, spent)},
                    attributions : {Without(books.attributions, paid)},
                    gaps : {Without(books.gaps, missed)}]
    BY <1>0, <1>2 DEF HasTables
  <2> QED BY <2>1
<1>4. /\ u \in Users /\ IsTable(events', Event) /\ DOMAIN events' = DOMAIN events \ {e}
      /\ \A d \in DOMAIN events \ {e} : events'[d] = events[d]
  <2>1. /\ IsTable(Without(events, {e}), Event)
        /\ DOMAIN Without(events, {e}) = DOMAIN events \ {e}
        /\ \A i \in DOMAIN events \ {e} : Without(events, {e})[i] = events[i]
    BY <1>0, WithoutRows
  <2> QED BY <1>0, <1>2, <2>1 DEF IsTable, Event
<1>5. /\ IsTable(books'.lots, Lot) /\ DOMAIN books'.lots = DOMAIN books.lots \ opened
      /\ \A i \in DOMAIN books.lots \ opened : books'.lots[i] = books.lots[i]
  <2>1. IsTable(books.lots, Lot)
    BY <1>0 DEF RowsTyped
  <2>2. /\ IsTable(Without(books.lots, opened), Lot)
        /\ DOMAIN Without(books.lots, opened) = DOMAIN books.lots \ opened
        /\ \A i \in DOMAIN books.lots \ opened : Without(books.lots, opened)[i] = books.lots[i]
    BY <2>1, WithoutRows
  <2> QED BY <1>3, <2>2
<1>6. /\ IsTable(books'.consumptions, Consumption)
      /\ DOMAIN books'.consumptions = DOMAIN books.consumptions \ spent
      /\ \A i \in DOMAIN books.consumptions \ spent :
           books'.consumptions[i] = books.consumptions[i]
  <2>1. IsTable(books.consumptions, Consumption)
    BY <1>0 DEF RowsTyped
  <2>2. /\ IsTable(Without(books.consumptions, spent), Consumption)
        /\ DOMAIN Without(books.consumptions, spent) = DOMAIN books.consumptions \ spent
        /\ \A i \in DOMAIN books.consumptions \ spent :
             Without(books.consumptions, spent)[i] = books.consumptions[i]
    BY <2>1, WithoutRows
  <2> QED BY <1>3, <2>2
<1>7. /\ IsTable(books'.attributions, Attribution)
      /\ DOMAIN books'.attributions = DOMAIN books.attributions \ paid
      /\ \A i \in DOMAIN books.attributions \ paid :
           books'.attributions[i] = books.attributions[i]
  <2>1. IsTable(books.attributions, Attribution)
    BY <1>0 DEF RowsTyped
  <2>2. /\ IsTable(Without(books.attributions, paid), Attribution)
        /\ DOMAIN Without(books.attributions, paid) = DOMAIN books.attributions \ paid
        /\ \A i \in DOMAIN books.attributions \ paid :
             Without(books.attributions, paid)[i] = books.attributions[i]
    BY <2>1, WithoutRows
  <2> QED BY <1>3, <2>2
<1>8. /\ IsTable(books'.gaps, Gap) /\ DOMAIN books'.gaps = DOMAIN books.gaps \ missed
      /\ \A i \in DOMAIN books.gaps \ missed : books'.gaps[i] = books.gaps[i]
  <2>1. IsTable(books.gaps, Gap)
    BY <1>0 DEF RowsTyped
  <2>2. /\ IsTable(Without(books.gaps, missed), Gap)
        /\ DOMAIN Without(books.gaps, missed) = DOMAIN books.gaps \ missed
        /\ \A i \in DOMAIN books.gaps \ missed : Without(books.gaps, missed)[i] = books.gaps[i]
    BY <2>1, WithoutRows
  <2> QED BY <1>3, <2>2
<1>9. HasTables(books') /\ RowsTyped(books')
  BY <1>3, <1>5, <1>6, <1>7, <1>8 DEF HasTables, RowsTyped
<1>10. NoStraysIn(books', events')
  <2>1. \A l \in DOMAIN books'.lots : SameOwner(books', events', l, books'.lots[l].source_event)
    BY <1>0, <1>1, <1>4, <1>5 DEF NoStraysIn, SameOwner
  <2>2. \A c \in DOMAIN books'.consumptions :
          SameOwner(books', events', books'.consumptions[c].lot, books'.consumptions[c].event)
    BY <1>0, <1>1, <1>4, <1>5, <1>6 DEF NoStraysIn, SameOwner
  <2>3. \A a \in DOMAIN books'.attributions :
          SameOwner(books', events', books'.attributions[a].source_lot,
                    books'.attributions[a].target_event)
    BY <1>0, <1>1, <1>4, <1>5, <1>7 DEF NoStraysIn, SameOwner
  <2>4. \A g \in DOMAIN books'.gaps :
          /\ books'.gaps[g].event \in DOMAIN events'
          /\ books'.gaps[g].user = events'[books'.gaps[g].event].user
    BY <1>0, <1>1, <1>4, <1>8 DEF NoStraysIn
  <2> QED BY <2>1, <2>2, <2>3, <2>4 DEF NoStraysIn
<1>11. SpentOnceIn(books')
  <2>1. books'.consumptions = Without(books.consumptions, spent)
    BY <1>3
  <2> QED BY <1>0, <1>5, <2>1, FewerSpent
<1>13. BackedIn(books')
  <2> DEFINE A == books.attributions
             B == books'.attributions
             C == books.consumptions
             D == books'.consumptions
  <2>1. /\ IsTable(A, Attribution) /\ IsTable(C, Consumption) /\ Backed(A, C)
        /\ IsTable(B, Attribution) /\ IsTable(D, Consumption)
    BY <1>0, <1>6, <1>7, BackedRows DEF RowsTyped
  <2>2. /\ DOMAIN B \subseteq DOMAIN A /\ \A a \in DOMAIN B : B[a] = A[a]
        /\ DOMAIN D \subseteq DOMAIN C /\ \A c \in DOMAIN D : D[c] = C[c]
    BY <1>6, <1>7
  <2>3. \A a \in DOMAIN B : \A c \in DOMAIN C : c \notin DOMAIN D =>
           ~ (B[a].target_event = C[c].event /\ B[a].source_lot = C[c].lot)
    BY <1>1, <1>6, <1>7
  <2> HIDE DEF A, B, C, D
  <2>4. Backed(B, D)
    BY <2>1, <2>2, <2>3, WithoutBacked
  <2> QED BY <1>9, <2>4, BackedRows DEF B, D
<1>12. OthersKept(books, books', u)
  <2>1. OtherLots(books', u) = OtherLots(books, u)
    BY <1>0, <1>1, <1>5 DEF OtherLots, NoStraysIn, SameOwner
  <2>2. OtherConsumptions(books', u) = OtherConsumptions(books, u)
    <3>1. ASSUME NEW c \in DOMAIN books.consumptions
          PROVE  c \in spent => books.lots[books.consumptions[c].lot].user = u
      BY <1>0, <1>1 DEF NoStraysIn, SameOwner
    <3>2. ASSUME NEW c \in DOMAIN books'.consumptions
          PROVE  /\ c \in DOMAIN books.consumptions /\ c \notin spent
                 /\ books'.lots[books'.consumptions[c].lot].user
                      = books.lots[books.consumptions[c].lot].user
      BY <1>0, <1>1, <1>5, <1>6, <1>10 DEF NoStraysIn, SameOwner
    <3> QED BY <1>6, <3>1, <3>2 DEF OtherConsumptions
  <2>3. OtherGaps(books', u) = OtherGaps(books, u)
    BY <1>0, <1>1, <1>8 DEF OtherGaps, NoStraysIn
  <2>4. /\ OtherLots(books', u) \subseteq DOMAIN books'.lots
        /\ OtherConsumptions(books', u) \subseteq DOMAIN books'.consumptions
        /\ OtherGaps(books', u) \subseteq DOMAIN books'.gaps
    BY DEF OtherLots, OtherConsumptions, OtherGaps
  <2> QED BY <1>5, <1>6, <1>8, <2>1, <2>2, <2>3, <2>4 DEF OthersKept
<1> QED BY <1>4, <1>9, <1>10, <1>11, <1>12, <1>13
    DEF Kept, IInv, TypeOK, NoStrayRows, NeverSpentTwice, AttributedFromConsumed

(* Events that keep their keys and owners leave the books as good as they were. *)
LEMMA OwnersKeep ==
    ASSUME IInv, UNCHANGED books, IsTable(events', Event), DOMAIN events' = DOMAIN events,
           \A d \in DOMAIN events : events'[d].user = events[d].user,
           NEW e \in DOMAIN events
    PROVE  Kept
<1>1. /\ IsTable(events, Event) /\ HasTables(books) /\ RowsTyped(books)
      /\ NoStraysIn(books, events) /\ SpentOnceIn(books) /\ BackedIn(books) /\ books' = books
  BY DEF IInv, TypeOK, NoStrayRows, NeverSpentTwice, AttributedFromConsumed
<1>2. NoStraysIn(books', events')
  BY <1>1 DEF NoStraysIn, SameOwner
<1>3. IInv'
  BY <1>1, <1>2 DEF IInv, TypeOK, NoStrayRows, NeverSpentTwice, AttributedFromConsumed
<1>4. OthersKept(books, books', events[e].user)
  BY <1>1 DEF OthersKept
<1>5. events[e].user \in Users
  BY <1>1 DEF IsTable, Event
<1> QED BY <1>3, <1>4, <1>5 DEF Kept

(* Editing an event's time. *)
LEMMA EditEventKeeps ==
    ASSUME IInv, NEW e, NEW t \in Times, EditEvent(e, t)
    PROVE  Kept
<1> DEFINE new == [events[e] EXCEPT !.time = t]
<1>1. IsTable(events, Event) /\ e \in DOMAIN events /\ UNCHANGED books
      /\ events' = [events EXCEPT ![e].time = t]
  BY DEF IInv, TypeOK, EditEvent
<1>2. events' = [events EXCEPT ![e] = new]
  BY <1>1
<1>3. new \in Event /\ new.user = events[e].user
  BY <1>1 DEF IsTable, Event
<1> HIDE DEF new
<1>4. /\ IsTable([events EXCEPT ![e] = new], Event)
      /\ DOMAIN [events EXCEPT ![e] = new] = DOMAIN events
      /\ [events EXCEPT ![e] = new][e] = new
      /\ \A k \in DOMAIN events : k # e => [events EXCEPT ![e] = new][k] = events[k]
  BY <1>1, <1>3, UpdateRow
<1>5. \A d \in DOMAIN events : events'[d].user = events[d].user
  BY <1>2, <1>3, <1>4
<1> QED BY <1>1, <1>2, <1>4, <1>5, OwnersKeep

(* Filling in historical rates. *)
LEMMA RerateKeeps ==
    ASSUME IInv, NEW e, NEW S, NEW rate \in [S -> Rates], UpdateHistoricalRate(e, rate)
    PROVE  Kept
<1> DEFINE rerate(x) == IF x.currency \in DOMAIN rate THEN [x EXCEPT !.rate = rate[x.currency]] ELSE x
           cash == [i \in DOMAIN events[e].cash |-> rerate(events[e].cash[i])]
           assets == [i \in DOMAIN events[e].assets |-> rerate(events[e].assets[i])]
           new == [events[e] EXCEPT !.cash = cash, !.assets = assets]
<1>1. /\ IsTable(events, Event) /\ e \in DOMAIN events /\ UNCHANGED books
      /\ events' = [events EXCEPT ![e].cash = cash, ![e].assets = assets]
  BY DEF IInv, TypeOK, UpdateHistoricalRate
<1>2. /\ events[e] \in Event
      /\ events[e].cash \in Seq(CashEntry) /\ events[e].assets \in Seq(AssetEntry)
  BY <1>1 DEF IsTable, Event
<1>3. /\ \A x \in CashEntry : rerate(x) \in CashEntry
      /\ \A x \in AssetEntry : rerate(x) \in AssetEntry
  <2>1. \A c \in DOMAIN rate : rate[c] \in Bases
    BY FundingAttributionAssumption DEF Bases
  <2>2. \A x \in CashEntry : rerate(x) \in CashEntry
    BY <2>1 DEF CashEntry
  <2>3. \A x \in AssetEntry : rerate(x) \in AssetEntry
    BY <2>1 DEF AssetEntry
  <2> QED BY <2>2, <2>3
<1>4. cash \in Seq(CashEntry) /\ assets \in Seq(AssetEntry)
  <2> DEFINE entries == events[e].cash
             positions == events[e].assets
  <2>1. entries \in Seq(CashEntry) /\ positions \in Seq(AssetEntry)
    BY <1>2
  <2> HIDE DEF rerate, entries, positions
  <2>2. [i \in DOMAIN entries |-> rerate(entries[i])] \in Seq(CashEntry)
    BY <1>3, <2>1
  <2>3. [i \in DOMAIN positions |-> rerate(positions[i])] \in Seq(AssetEntry)
    BY <1>3, <2>1
  <2> QED BY <2>2, <2>3 DEF entries, positions
<1> HIDE DEF cash, assets
<1>5. events' = [events EXCEPT ![e] = new]
  BY <1>1
<1>6. new \in Event /\ new.user = events[e].user
  BY <1>2, <1>4 DEF Event
<1> HIDE DEF new
<1>7. /\ IsTable([events EXCEPT ![e] = new], Event)
      /\ DOMAIN [events EXCEPT ![e] = new] = DOMAIN events
      /\ [events EXCEPT ![e] = new][e] = new
      /\ \A k \in DOMAIN events : k # e => [events EXCEPT ![e] = new][k] = events[k]
  BY <1>1, <1>6, UpdateRow
<1>8. \A d \in DOMAIN events : events'[d].user = events[d].user
  BY <1>5, <1>6, <1>7
<1> QED BY <1>1, <1>5, <1>7, <1>8, OwnersKeep

(* Rebuilding a user's books from a range of the user's events. *)
LEMMA RebuildKeeps ==
    ASSUME IInv, NEW u \in Users, NEW from, NEW to, Rebuild(u, from, to)
    PROVE  Kept
<1> DEFINE chosen == InRange(u, from, to)
<1>1. UNCHANGED events /\ books' = Replayed(u, chosen)
  BY DEF Rebuild
<1>2. \A e \in chosen : e \in DOMAIN events /\ events[e].user = u
  BY DEF InRange
<1> HIDE DEF chosen
<1>3. books' \in SoundBooks(books, events, u, TRUE, DOMAIN events)
  BY <1>1, <1>2, ReplayedSound
<1>4. /\ HasTables(books') /\ RowsTyped(books') /\ NoStraysIn(books', events')
      /\ SpentOnceIn(books') /\ BackedIn(books') /\ OthersKept(books, books', u)
  BY <1>1, <1>3, SoundAreGood
<1> QED BY <1>1, <1>4
    DEF Kept, IInv, TypeOK, NoStrayRows, NeverSpentTwice, AttributedFromConsumed

(* Every request keeps the invariant and all rows but one user's. *)
LEMMA RequestKeeps ==
    ASSUME IInv, Next
    PROVE  Kept
<1>1. CASE Create
  BY <1>1, CreateEventKeeps DEF Create
<1>2. CASE Delete
  BY <1>2, DeleteEventKeeps DEF Delete
<1>3. CASE Edit
  BY <1>3, EditEventKeeps DEF Edit
<1>4. CASE Rerate
  BY <1>4, RerateKeeps DEF Rerate
<1>5. CASE RebuildRange
  BY <1>5, RebuildKeeps DEF RebuildRange
<1> QED BY <1>1, <1>2, <1>3, <1>4, <1>5 DEF Next
-----------------------------------------------------------------------------
(* What holds of every history.                                            *)

(* Empty books are good. *)
LEMMA InitGood == Init => IInv
<1> SUFFICES ASSUME Init PROVE IInv
  OBVIOUS
<1>1. /\ events = <<>>
      /\ books = [lots |-> <<>>, consumptions |-> <<>>, attributions |-> <<>>, gaps |-> <<>>]
  BY DEF Init, EmptyBooks
<1>2. DOMAIN <<>> = {}
  OBVIOUS
<1>3. IsTable(events, Event) /\ RowsTyped(books) /\ HasTables(books)
  BY <1>1, EmptyTable DEF RowsTyped, HasTables
<1>4. NoStraysIn(books, events) /\ SpentOnceIn(books) /\ BackedIn(books)
  BY <1>1, <1>2 DEF NoStraysIn, SpentOnceIn, BackedIn
<1> QED BY <1>3, <1>4
    DEF IInv, TypeOK, NoStrayRows, NeverSpentTwice, AttributedFromConsumed

(* The inductive invariant. *)
THEOREM BooksInvariant == Spec => []IInv
<1>1. IInv /\ [Next]_vars => IInv'
  <2> SUFFICES ASSUME IInv, [Next]_vars PROVE IInv'
    OBVIOUS
  <2>1. CASE Next
    BY <2>1, RequestKeeps DEF Kept
  <2>2. CASE UNCHANGED vars
    BY <2>2 DEF vars, IInv, TypeOK, NoStrayRows, NeverSpentTwice, AttributedFromConsumed
  <2> QED BY <2>1, <2>2
<1> QED BY InitGood, <1>1, PTL DEF Spec

(* Every row of every table has its type. *)
THEOREM BooksTyped == Spec => []TypeOK
<1>1. IInv => TypeOK
  BY DEF IInv
<1> QED BY BooksInvariant, <1>1, PTL

(* No row refers to a lot or an event that is gone or somebody else's. *)
THEOREM NoRowStrays == Spec => []NoStrayRows
<1>1. IInv => NoStrayRows
  BY DEF IInv
<1> QED BY BooksInvariant, <1>1, PTL

(* No money is spent twice. *)
THEOREM NothingSpentTwice == Spec => []NeverSpentTwice
<1>1. IInv => NeverSpentTwice
  BY DEF IInv
<1> QED BY BooksInvariant, <1>1, PTL

(* Purchases attribute what they consumed. *)
THEOREM BoughtFromConsumed == Spec => []AttributedFromConsumed
<1>1. IInv => AttributedFromConsumed
  BY DEF IInv
<1> QED BY BooksInvariant, <1>1, PTL

(* A full rebuild would leave exact books, in every state. *)
THEOREM RebuildIsExact == Spec => []RebuildRepairs
<1>1. IInv => RebuildRepairs
  <2> SUFFICES ASSUME IInv, NEW u \in Users
               PROVE  Exact(Replayed(u, OwnEvents(u)), events, u)
    BY DEF RebuildRepairs
  <2> DEFINE chosen == OwnEvents(u)
  <2>1. \A e \in chosen : e \in DOMAIN events /\ events[e].user = u
    BY DEF OwnEvents, InRange
  <2> HIDE DEF chosen
  <2>2. Replayed(u, chosen) \in SoundBooks(books, events, u, TRUE, DOMAIN events)
    BY <2>1, ReplayedSound
  <2>3. Exact(Replayed(u, chosen), events, u)
    BY <2>2, SoundAreGood
  <2> QED BY <2>3 DEF chosen
<1> QED BY BooksInvariant, <1>1, PTL

(* Rows that are kept are the same set of rows. *)
LEMMA OthersSame ==
    ASSUME NEW before, NEW b, NEW u, OthersKept(before, b, u)
    PROVE  OthersRows(before, {u}) = OthersRows(b, {u})
<1>1. ASSUME NEW d
      PROVE  OthersRows(d, {u}) =
               [lots |-> {d.lots[l] : l \in OtherLots(d, u)},
                consumptions |-> {d.consumptions[c] : c \in OtherConsumptions(d, u)},
                gaps |-> {d.gaps[g] : g \in OtherGaps(d, u)}]
  BY DEF OthersRows, RowsOf, Where, OtherLots, OtherConsumptions, OtherGaps
<1>2. /\ {before.lots[l] : l \in OtherLots(before, u)} = {b.lots[l] : l \in OtherLots(b, u)}
      /\ {before.consumptions[c] : c \in OtherConsumptions(before, u)}
           = {b.consumptions[c] : c \in OtherConsumptions(b, u)}
      /\ {before.gaps[g] : g \in OtherGaps(before, u)} = {b.gaps[g] : g \in OtherGaps(b, u)}
  BY DEF OthersKept
<1> QED BY <1>1, <1>2

(* No request touches the rows of two users. *)
THEOREM OneOwner == Spec => OneOwnerPerRequest
<1>1. IInv /\ [Next]_vars =>
        [UNCHANGED books \/ \E u \in Users : OthersRows(books, {u}) = OthersRows(books', {u})]_vars
  <2> SUFFICES ASSUME IInv, Next
               PROVE  \E u \in Users : OthersRows(books, {u}) = OthersRows(books', {u})
    BY DEF vars
  <2>1. PICK u \in Users : OthersKept(books, books', u)
    BY RequestKeeps DEF Kept
  <2>2. OthersRows(books, {u}) = OthersRows(books', {u})
    BY <2>1, OthersSame
  <2> QED BY <2>2
<1> QED BY BooksInvariant, <1>1, PTL DEF Spec, OneOwnerPerRequest
-----------------------------------------------------------------------------
(* Histories that are only added to.                                       *)

ConfirmedPurchase(ev) == ev.status = "CONFIRMED" /\ ev.type \in Purchases

(* Every confirmed purchase accounts for exactly what its assets cost. *)
Settled ==
    \A e \in DOMAIN events :
       ConfirmedPurchase(events[e]) => Accounted(books, e) = Needed(events[e])

(* An event that is not recorded yet accounts for nothing. *)
LEMMA NothingAccounted ==
    ASSUME NEW b, NEW evs, NoStraysIn(b, evs), NEW e, e # 0, e \notin DOMAIN evs
    PROVE  Accounted(b, e) = 0
<1>1. \A c \in DOMAIN Amounts(b.consumptions) : Spenders(b.consumptions)[c] # e
  BY DEF Amounts, Spenders, NoStraysIn, SameOwner
<1>2. \A g \in DOMAIN Shortfalls(b.gaps) : Buyers(b.gaps)[g] # e
  BY DEF Shortfalls, Buyers, NoStraysIn
<1>3. Drew(b.consumptions, e) = 0
  BY <1>1, GroupEmpty DEF Drew
<1>4. Lacked(b.gaps, e) = 0
  BY <1>2, GroupEmpty DEF Lacked
<1> QED BY <1>3, <1>4 DEF Accounted

(* create_event settles the new event and leaves the others settled. *)
LEMMA CreateEventSettles ==
    ASSUME IInv, Settled,
           NEW u \in Users, NEW p \in Payloads, NEW t \in Times, CreateEvent(u, p, t)
    PROVE  Settled'
<1> DEFINE e == NextId(events)
<1>1. /\ Handles(events', e, u, {e})
      /\ books \in SoundBooks(books, events', u, FALSE, {e})
      /\ books' = Process(books, events', e)
      /\ e \in Nat \ {0} /\ e \notin DOMAIN events
      /\ DOMAIN events' = DOMAIN events \cup {e}
      /\ \A d \in DOMAIN events : events'[d] = events[d]
  BY CreateEventStarts
<1>2. NoStraysIn(books, events) /\ DOMAIN events \subseteq Nat \ {0}
  BY DEF IInv, NoStrayRows, TypeOK, IsTable
<1> HIDE DEF e
<1>3. ASSUME ConfirmedPurchase(events'[e])
      PROVE  Accounted(books', e) = Needed(events'[e])
  <2>1. Accounted(books, e) = 0
    BY <1>1, <1>2, NothingAccounted
  <2>2. /\ Accounted(Process(books, events', e), e) = Accounted(books, e) + Needed(events'[e])
        /\ Needed(events'[e]) \in Nat
    BY <1>1, <1>3, ProcessAccounted DEF ConfirmedPurchase
  <2> QED BY <1>1, <2>1, <2>2
<1>4. ASSUME NEW d \in DOMAIN events, ConfirmedPurchase(events'[d])
      PROVE  Accounted(books', d) = Needed(events'[d])
  <2>1. Process(books, events', e) \in SoundBooks(books, events', u, FALSE, {e})
    BY <1>1, ProcessSound
  <2>2. OldAccounts(books, books', {e})
    BY <1>1, <2>1 DEF SoundBooks, Sound
  <2>3. Accounted(books', d) = Accounted(books, d)
    BY <1>1, <1>2, <1>4, <2>2 DEF OldAccounts
  <2> QED BY <1>1, <1>4, <2>3 DEF Settled
<1> QED BY <1>1, <1>3, <1>4 DEF Settled

(* What an event accounts for, in the words of CompleteMeansFunded. *)
LEMMA AccountNames ==
    ASSUME IInv, NEW e, e # 0, NEW asset \in Assets,
           Where(books.gaps, LAMBDA g : g.asset = asset) = {}
    PROVE  Accounted(books, e) = Native(DrawnBy(e)) + Missing(LackedElsewhere(e, asset))
<1>1. Drew(books.consumptions, e) = Native(DrawnBy(e))
  BY DEF Drew, GroupSum, Group, Amounts, Spenders, Native, AmountTaken, DrawnBy, Where
<1>2. Group(DOMAIN books.gaps, Buyers(books.gaps), e) = LackedElsewhere(e, asset)
  BY DEF Group, Buyers, LackedElsewhere, Where
<1>3. Lacked(books.gaps, e) = Missing(LackedElsewhere(e, asset))
  <2>1. DOMAIN Shortfalls(books.gaps) = DOMAIN books.gaps
    BY DEF Shortfalls
  <2> QED BY <1>2, <2>1 DEF Lacked, GroupSum, Shortfalls, Missing
<1> QED BY <1>1, <1>3 DEF Accounted

(* As long as events are only added, an asset that is reported COMPLETE is *)
(* paid for.                                                               *)
THEOREM CompleteIsFunded == CreateSpec => []CompleteMeansFunded
<1>1. Init => IInv /\ Settled
  <2>1. Init => Settled
    BY DEF Init, Settled
  <2> QED BY <2>1, InitGood
<1>2. IInv /\ Settled /\ [Create]_vars => (IInv /\ Settled)'
  <2> SUFFICES ASSUME IInv, Settled, [Create]_vars PROVE IInv' /\ Settled'
    OBVIOUS
  <2>1. CASE Create
    <3>1. PICK u \in Users, p \in Payloads, t \in Times : CreateEvent(u, p, t)
      BY <2>1 DEF Create
    <3> QED BY <3>1, CreateEventKeeps, CreateEventSettles DEF Kept
  <2>2. CASE UNCHANGED vars
    BY <2>2 DEF vars, IInv, TypeOK, NoStrayRows, NeverSpentTwice, AttributedFromConsumed, Settled
  <2> QED BY <2>1, <2>2
<1>3. IInv /\ Settled => CompleteMeansFunded
  <2> SUFFICES ASSUME IInv, Settled, NEW u \in Users, NEW asset \in Assets,
                      ComputeStatus(asset, u) = "COMPLETE",
                      NEW e \in DOMAIN events, ConfirmedPurchase(events[e])
               PROVE  Needed(events[e])
                        = Native(DrawnBy(e)) + Missing(LackedElsewhere(e, asset))
    BY DEF CompleteMeansFunded, ConfirmedPurchase
  <2>1. Where(books.gaps, LAMBDA g : g.asset = asset) = {}
    BY DEF ComputeStatus
  <2>2. e # 0
    BY DEF IInv, TypeOK, IsTable
  <2>3. Accounted(books, e) = Native(DrawnBy(e)) + Missing(LackedElsewhere(e, asset))
    BY <2>1, <2>2, AccountNames
  <2> QED BY <2>3 DEF Settled
<1> QED BY <1>1, <1>2, <1>3, PTL DEF CreateSpec
-----------------------------------------------------------------------------
(* What a user's lots hold in a currency, less what the gaps say was spent *)
(* without one.                                                            *)

Remainders(L) == [l \in DOMAIN L |-> L[l].remaining_amount]

(* The user and the currency of a lot, or of a gap. *)
PurseOf(R) == [r \in DOMAIN R |-> <<R[r].user, R[r].currency>>]

Holding(L, k) == GroupSum(Remainders(L), PurseOf(L), k)
Short(G, k) == GroupSum(Shortfalls(G), PurseOf(G), k)

Net(b, k) == Holding(b.lots, k) - Short(b.gaps, k)

(* The values of a currency column. *)
CurrencyCodes == STRING

(* What an amount in user u's currency is to k. *)
Share(k, u, currency, amount) == IF <<u, currency>> = k THEN amount ELSE 0

(* What the books hold when an amount in u's currency is spent, or earned.  *)
Less(b, k, u, currency, amount) == Net(b, k) - Share(k, u, currency, amount)
More(b, k, u, currency, amount) == Net(b, k) + Share(k, u, currency, amount)

LEMMA NetInt ==
    ASSUME NEW b, RowsTyped(b), NEW k
    PROVE  Holding(b.lots, k) \in Nat /\ Short(b.gaps, k) \in Nat /\ Net(b, k) \in Int
<1>1. /\ IsFiniteSet(DOMAIN b.lots) /\ Remainders(b.lots) \in [DOMAIN b.lots -> Nat]
  <2>1. \A lot \in Lot : lot.remaining_amount \in Nat
    BY DEF Lot, LotRow
  <2> QED BY <2>1 DEF RowsTyped, IsTable, Remainders
<1>2. IsFiniteSet(DOMAIN b.gaps) /\ Shortfalls(b.gaps) \in [DOMAIN b.gaps -> Nat]
  BY DEF RowsTyped, IsTable, Shortfalls, Gap
<1>3. Holding(b.lots, k) \in Nat
  BY <1>1, GroupNat DEF Holding
<1>4. Short(b.gaps, k) \in Nat
  BY <1>2, GroupNat DEF Short
<1> QED BY <1>3, <1>4 DEF Net

(* The same lots and gaps hold the same. *)
LEMMA SameNet ==
    ASSUME NEW a, NEW b, a.lots = b.lots, a.gaps = b.gaps
    PROVE  \A k : Net(a, k) = Net(b, k)
  BY DEF Net

(* A new lot holds what it has. *)
LEMMA LotAdded ==
    ASSUME NEW L, IsTable(L, Lot), NEW M, IsTable(M, Lot),
           NEW n, NEW row, OneMore(L, M, n, row), NEW k
    PROVE  Holding(M, k) = Holding(L, k) + Share(k, row.user, row.currency, row.remaining_amount)
<1>0. \A lot \in Lot : lot.remaining_amount \in Nat
  BY DEF Lot, LotRow
<1>1. /\ IsFiniteSet(DOMAIN L) /\ Remainders(L) \in [DOMAIN L -> Nat]
      /\ Remainders(M) \in [DOMAIN M -> Nat]
  BY <1>0 DEF IsTable, Remainders
<1>2. /\ n \notin DOMAIN L /\ DOMAIN M = DOMAIN L \cup {n} /\ M[n] = row
      /\ \A l \in DOMAIN L : M[l] = L[l]
  BY DEF OneMore
<1>3. /\ \A l \in DOMAIN L : Remainders(M)[l] = Remainders(L)[l] /\ PurseOf(M)[l] = PurseOf(L)[l]
      /\ Remainders(M)[n] = row.remaining_amount /\ PurseOf(M)[n] = <<row.user, row.currency>>
  BY <1>2 DEF Remainders, PurseOf
<1> DEFINE f == Remainders(L)
           g == Remainders(M)
           S == DOMAIN L
           key == PurseOf(L)
           other == PurseOf(M)
<1>4. /\ IsFiniteSet(S) /\ f \in [S -> Nat] /\ n \notin S /\ g \in [S \cup {n} -> Nat]
      /\ \A x \in S : g[x] = f[x] /\ other[x] = key[x]
  BY <1>1, <1>2, <1>3
<1>5. GroupSum(g, other, k) = GroupSum(f, key, k) + (IF other[n] = k THEN g[n] ELSE 0)
  <2> HIDE DEF f, g, S, key, other
  <2> QED BY <1>4, GroupAdded
<1> QED BY <1>3, <1>5 DEF Holding, Share

(* A lot that money is taken from holds that much less. *)
LEMMA LotReduced ==
    ASSUME NEW L, IsTable(L, Lot), NEW M, IsTable(M, Lot), NEW l \in DOMAIN L,
           DOMAIN M = DOMAIN L, \A i \in DOMAIN L : i # l => M[i] = L[i],
           M[l].user = L[l].user, M[l].currency = L[l].currency,
           NEW amount \in Nat, M[l].remaining_amount = L[l].remaining_amount - amount, NEW k
    PROVE  Holding(M, k) = Holding(L, k) - Share(k, L[l].user, L[l].currency, amount)
<1>0. \A lot \in Lot : lot.remaining_amount \in Nat
  BY DEF Lot, LotRow
<1>1. /\ IsFiniteSet(DOMAIN L) /\ Remainders(L) \in [DOMAIN L -> Nat]
      /\ Remainders(M) \in [DOMAIN L -> Nat]
  BY <1>0 DEF IsTable, Remainders
<1>2. /\ \A i \in DOMAIN L : i # l => Remainders(M)[i] = Remainders(L)[i]
      /\ \A i \in DOMAIN L : PurseOf(M)[i] = PurseOf(L)[i]
      /\ PurseOf(L)[l] = <<L[l].user, L[l].currency>>
      /\ Remainders(M)[l] = L[l].remaining_amount - amount
      /\ Remainders(L)[l] = L[l].remaining_amount
  <2>1. \A i \in DOMAIN L : M[i].user = L[i].user /\ M[i].currency = L[i].currency
    OBVIOUS
  <2> QED BY <2>1 DEF Remainders, PurseOf
<1>3. L[l].remaining_amount \in Nat
  BY <1>0 DEF IsTable
<1> DEFINE f == Remainders(L)
           g == Remainders(M)
           S == DOMAIN L
           key == PurseOf(L)
           other == PurseOf(M)
<1>4. /\ IsFiniteSet(S) /\ f \in [S -> Nat] /\ g \in [S -> Nat] /\ l \in S
      /\ \A x \in S : other[x] = key[x]
      /\ \A x \in S : x # l => g[x] = f[x]
  BY <1>1, <1>2
<1>5. GroupSum(g, other, k) = GroupSum(f, key, k) + (IF key[l] = k THEN g[l] - f[l] ELSE 0)
  <2> HIDE DEF f, g, S, key, other
  <2> QED BY <1>4, GroupChanged
<1>6. Holding(L, k) \in Nat
  BY <1>1, GroupNat DEF Holding
<1>7. Holding(M, k) = Holding(L, k)
        + (IF <<L[l].user, L[l].currency>> = k THEN (L[l].remaining_amount - amount) - L[l].remaining_amount
           ELSE 0)
  BY <1>2, <1>5 DEF Holding
<1> DEFINE had == L[l].remaining_amount
           mine == <<L[l].user, L[l].currency>> = k
           before == Holding(L, k)
<1>8. Holding(M, k) = before + (IF mine THEN (had - amount) - had ELSE 0)
  BY <1>7
<1>9. Share(k, L[l].user, L[l].currency, amount) = IF mine THEN amount ELSE 0
  BY DEF Share
<1>10. had \in Nat /\ before \in Nat
  BY <1>3, <1>6
<1> HIDE DEF had, mine, before
<1>11. Holding(M, k) = before - (IF mine THEN amount ELSE 0)
  BY <1>8, <1>10
<1> QED BY <1>9, <1>11 DEF before

(* A new gap is short of its shortfall. *)
LEMMA GapAdded ==
    ASSUME NEW G, IsTable(G, Gap), NEW H, IsTable(H, Gap),
           NEW n, NEW row, OneMore(G, H, n, row), NEW k
    PROVE  Short(H, k) = Short(G, k) + Share(k, row.user, row.currency, row.shortfall)
<1>1. /\ IsFiniteSet(DOMAIN G) /\ Shortfalls(G) \in [DOMAIN G -> Nat]
      /\ Shortfalls(H) \in [DOMAIN H -> Nat]
  BY DEF IsTable, Shortfalls, Gap
<1>2. /\ n \notin DOMAIN G /\ DOMAIN H = DOMAIN G \cup {n} /\ H[n] = row
      /\ \A x \in DOMAIN G : H[x] = G[x]
  BY DEF OneMore
<1>3. /\ \A x \in DOMAIN G : Shortfalls(H)[x] = Shortfalls(G)[x] /\ PurseOf(H)[x] = PurseOf(G)[x]
      /\ Shortfalls(H)[n] = row.shortfall /\ PurseOf(H)[n] = <<row.user, row.currency>>
  BY <1>2 DEF Shortfalls, PurseOf
<1> DEFINE f == Shortfalls(G)
           g == Shortfalls(H)
           S == DOMAIN G
           key == PurseOf(G)
           other == PurseOf(H)
<1>4. /\ IsFiniteSet(S) /\ f \in [S -> Nat] /\ n \notin S /\ g \in [S \cup {n} -> Nat]
      /\ \A x \in S : g[x] = f[x] /\ other[x] = key[x]
  BY <1>1, <1>2, <1>3
<1>5. GroupSum(g, other, k) = GroupSum(f, key, k) + (IF other[n] = k THEN g[n] ELSE 0)
  <2> HIDE DEF f, g, S, key, other
  <2> QED BY <1>4, GroupAdded
<1> QED BY <1>3, <1>5 DEF Short, Share

(* Opening a lot adds what it holds. *)
LEMMA OpenLotNet ==
    ASSUME NEW before, NEW evs, NEW u, NEW exact, NEW served,
           NEW b \in SoundBooks(before, evs, u, exact, served),
           NEW e, Handles(evs, e, u, served),
           NEW currency \in CurrencyCodes, NEW amount \in Nat, NEW basis \in Bases, NEW k
    PROVE  /\ OpenLot(b, e, evs[e], currency, amount, basis)
                \in SoundBooks(before, evs, u, exact, served)
           /\ Net(OpenLot(b, e, evs[e], currency, amount, basis), k)
                = More(b, k, u, currency, amount)
<1> DEFINE lot == NewLot(u, currency, e, amount, basis, evs[e].time)
           L == b.lots
           M == Insert(b.lots, lot)
           d == OpenLot(b, e, evs[e], currency, amount, basis)
<1>1. /\ b \in BookSet /\ RowsTyped(b) /\ IsTable(L, Lot) /\ evs[e].user = u
  BY Entries DEF SoundBooks, Sound, RowsTyped
<1>2. d.lots = M /\ d.gaps = b.gaps
  BY <1>1 DEF OpenLot, BookSet
<1>25. d \in SoundBooks(before, evs, u, exact, served)
  BY OpenLotSound DEF CurrencyCodes
<1>3. IsTable(d.lots, Lot)
  <2> HIDE DEF d
  <2> QED BY <1>25 DEF SoundBooks, Sound, RowsTyped
<1>4. lot.user = u /\ lot.currency = currency /\ lot.remaining_amount = amount
  BY DEF NewLot
<1> HIDE DEF lot, d
<1>5. OneMore(L, M, NextId(L), lot)
  <2>0. IsTable(L, Lot)
    BY <1>1
  <2>1. /\ DOMAIN Insert(L, lot) = DOMAIN L \cup {NextId(L)}
        /\ Insert(L, lot)[NextId(L)] = lot
        /\ \A i \in DOMAIN L : Insert(L, lot)[i] = L[i]
    <3> HIDE DEF L, M
    <3>1. \A row : /\ DOMAIN Insert(L, row) = DOMAIN L \cup {NextId(L)}
                   /\ Insert(L, row)[NextId(L)] = row
                   /\ \A i \in DOMAIN L : Insert(L, row)[i] = L[i]
      BY <2>0, InsertRow
    <3> QED BY <3>1
  <2>2. NextId(L) \notin DOMAIN L
    BY <1>1, FreshKey
  <2> QED BY <2>1, <2>2 DEF OneMore
<1>6. IsTable(M, Lot)
  BY <1>2, <1>3
<1> HIDE DEF L, M
<1>7. Holding(M, k) = Holding(L, k) + Share(k, lot.user, lot.currency, lot.remaining_amount)
  BY <1>1, <1>5, <1>6, LotAdded
<1>8. Holding(L, k) \in Nat /\ Short(b.gaps, k) \in Nat
  BY <1>1, NetInt DEF L
<1> DEFINE part == Share(k, u, currency, amount)
<1>9. part \in Nat
  BY DEF Share
<1>10. Holding(M, k) = Holding(L, k) + part
  BY <1>4, <1>7
<1>11. /\ Net(d, k) = Holding(M, k) - Short(b.gaps, k)
       /\ Net(b, k) = Holding(L, k) - Short(b.gaps, k)
  BY <1>2 DEF Net, L
<1> HIDE DEF part
<1>12. Net(d, k) = Net(b, k) + part
  BY <1>8, <1>9, <1>10, <1>11
<1> QED BY <1>12, <1>25 DEF part, d, More

(* Taking money out of a lot takes it away. *)
LEMMA SpentNet ==
    ASSUME NEW before, NEW evs, NEW u, NEW exact, NEW served,
           NEW b \in SoundBooks(before, evs, u, exact, served),
           NEW e, Handles(evs, e, u, served), NEW l \in Payable(b, u, evs[e].time),
           NEW amount \in 0 .. b.lots[l].remaining_amount, NEW k
    PROVE  /\ Net(Spent(b, e, l, amount), k) = Net(b, k) - Share(k, u, b.lots[l].currency, amount)
           /\ DOMAIN Spent(b, e, l, amount).lots = DOMAIN b.lots
           /\ \A i \in DOMAIN b.lots :
                Spent(b, e, l, amount).lots[i].currency = b.lots[i].currency
<1> DEFINE L == b.lots
           after == Consumed(b.lots[l], amount)
           M == [L EXCEPT ![l] = after]
           d == Spent(b, e, l, amount)
           currency == L[l].currency
<1>1. RowsTyped(b) /\ IsTable(L, Lot) /\ l \in DOMAIN L /\ L[l].user = u
  BY DEF SoundBooks, Sound, RowsTyped, Payable
<1>2. d.lots = M /\ d.gaps = b.gaps
  BY DEF Spent
<1>3. IsTable(d.lots, Lot)
  <2>1. d \in SoundBooks(before, evs, u, exact, served)
    BY SpentSound
  <2> HIDE DEF d
  <2> QED BY <2>1 DEF SoundBooks, Sound, RowsTyped
<1>4. L[l] \in Lot /\ L[l].remaining_amount \in Nat
  BY <1>1 DEF IsTable, Lot, LotRow
<1>5. /\ after.user = L[l].user /\ after.currency = L[l].currency
      /\ after.remaining_amount = L[l].remaining_amount - amount
  BY <1>4 DEF Consumed, Lot, LotRow
<1>6. amount \in Nat
  BY <1>4
<1> HIDE DEF after, d
<1>7. /\ DOMAIN M = DOMAIN L /\ M[l] = after
      /\ \A i \in DOMAIN L : i # l => M[i] = L[i]
  BY <1>1
<1>8. IsTable(M, Lot)
  BY <1>2, <1>3
<1> HIDE DEF L, M
<1>9. Holding(M, k) = Holding(L, k) - Share(k, L[l].user, L[l].currency, amount)
  <2>1. /\ M[l].user = L[l].user /\ M[l].currency = L[l].currency
        /\ M[l].remaining_amount = L[l].remaining_amount - amount
    BY <1>5, <1>7
  <2> QED BY <1>1, <1>6, <1>7, <1>8, <2>1, LotReduced
<1>10. Holding(L, k) \in Nat /\ Short(b.gaps, k) \in Nat
  BY <1>1, NetInt DEF L
<1> DEFINE part == Share(k, u, currency, amount)
<1>11. part \in Nat /\ Holding(M, k) = Holding(L, k) - part
  BY <1>1, <1>6, <1>9 DEF Share
<1>12. /\ Net(d, k) = Holding(M, k) - Short(b.gaps, k)
       /\ Net(b, k) = Holding(L, k) - Short(b.gaps, k)
  BY <1>2 DEF Net, L
<1> HIDE DEF part
<1>13. Net(d, k) = Net(b, k) - part
  BY <1>10, <1>11, <1>12
<1>14. DOMAIN d.lots = DOMAIN L /\ \A i \in DOMAIN L : d.lots[i].currency = L[i].currency
  BY <1>2, <1>5, <1>7
<1> QED BY <1>13, <1>14 DEF part, d, L

(* A gap takes its shortfall away. *)
LEMMA RecordGapNet ==
    ASSUME NEW before, NEW evs, NEW u, NEW exact, NEW served,
           NEW b \in SoundBooks(before, evs, u, exact, served),
           NEW e, Handles(evs, e, u, served),
           NEW currency \in CurrencyCodes, NEW asset \in Assets \cup {NoAsset},
           NEW shortfall, shortfall \in Nat, NEW k
    PROVE  /\ RecordGap(b, e, evs[e], currency, asset, shortfall)
                \in SoundBooks(before, evs, u, exact, served)
           /\ Net(RecordGap(b, e, evs[e], currency, asset, shortfall), k)
                = Less(b, k, u, currency, shortfall)
<1> DEFINE row == [user |-> u, event |-> e, asset |-> asset,
                   currency |-> currency, shortfall |-> shortfall]
           G == b.gaps
           H == Insert(G, row)
           d == RecordGap(b, e, evs[e], currency, asset, shortfall)
<1>1. /\ b \in BookSet /\ RowsTyped(b) /\ IsTable(G, Gap) /\ evs[e].user = u
  BY Entries DEF SoundBooks, Sound, RowsTyped
<1>2. d.lots = b.lots /\ d.gaps = H
  BY <1>1 DEF RecordGap, BookSet
<1>25. d \in SoundBooks(before, evs, u, exact, served)
  BY RecordGapSound DEF CurrencyCodes
<1>3. IsTable(d.gaps, Gap)
  <2> HIDE DEF d
  <2> QED BY <1>25 DEF SoundBooks, Sound, RowsTyped
<1>4. row.user = u /\ row.currency = currency /\ row.shortfall = shortfall
  OBVIOUS
<1> HIDE DEF row, d
<1>5. OneMore(G, H, NextId(G), row)
  <2>0. IsTable(G, Gap)
    BY <1>1
  <2>1. /\ DOMAIN Insert(G, row) = DOMAIN G \cup {NextId(G)}
        /\ Insert(G, row)[NextId(G)] = row
        /\ \A i \in DOMAIN G : Insert(G, row)[i] = G[i]
    <3> HIDE DEF G
    <3> QED BY <2>0, InsertRow
  <2>2. NextId(G) \notin DOMAIN G
    BY <1>1, FreshKey
  <2> QED BY <2>1, <2>2 DEF OneMore
<1>6. IsTable(H, Gap)
  BY <1>2, <1>3
<1> HIDE DEF G, H
<1>7. Short(H, k) = Short(G, k) + Share(k, row.user, row.currency, row.shortfall)
  BY <1>1, <1>5, <1>6, GapAdded
<1>8. Holding(b.lots, k) \in Nat /\ Short(G, k) \in Nat
  BY <1>1, NetInt DEF G
<1> DEFINE part == Share(k, u, currency, shortfall)
<1>9. part \in Nat /\ Short(H, k) = Short(G, k) + part
  BY <1>4, <1>7 DEF Share
<1>10. /\ Net(d, k) = Holding(b.lots, k) - Short(H, k)
       /\ Net(b, k) = Holding(b.lots, k) - Short(G, k)
  BY <1>2 DEF Net, G
<1> HIDE DEF part
<1>11. Net(d, k) = Net(b, k) - part
  BY <1>8, <1>9, <1>10
<1> QED BY <1>11, <1>25 DEF part, d, Less

(* What one turn of allocate()'s loop takes. *)
DrawTakes(run, l) == Smaller(run.book.lots[l].remaining_amount, run.left)

LEMMA DrawTaken ==
    ASSUME NEW before, NEW evs, NEW u, NEW exact, NEW served,
           NEW e, Handles(evs, e, u, served), NEW C,
           NEW run \in Draws(before, evs, u, exact, served, e, C), NEW l \in C, run.left # 0
    PROVE  /\ DrawTakes(run, l) \in 0 .. run.left
           /\ DrawTakes(run, l) \in 0 .. run.book.lots[l].remaining_amount
           /\ Draw(run, e, l).book = Spent(run.book, e, l, DrawTakes(run, l))
           /\ Draw(run, e, l).left = run.left - DrawTakes(run, l)
<1> DEFINE lot == run.book.lots[l]
           amount == Smaller(lot.remaining_amount, run.left)
           row == ConsumptionOf(l, lot, e, amount)
           after == Spent(run.book, e, l, amount)
           next == Draw(run, e, l)
<1>1. /\ run.book \in SoundBooks(before, evs, u, exact, served)
      /\ run.left \in Nat /\ run.cost \in Nat /\ run.drawn \in Seq(DrawnRows(e, C))
      /\ l \in Payable(run.book, u, evs[e].time)
      /\ run = [book |-> run.book, left |-> run.left, cost |-> run.cost, drawn |-> run.drawn]
  BY DEF Draws
<1>2. lot.remaining_amount \in Nat
  <2>1. IsTable(run.book.lots, Lot) /\ l \in DOMAIN run.book.lots
    BY <1>1 DEF SoundBooks, Sound, RowsTyped, Payable
  <2>2. run.book.lots[l] \in Lot
    BY <2>1 DEF IsTable
  <2> QED BY <2>2, LotColumns
<1>3. amount \in 0 .. lot.remaining_amount /\ amount \in 0 .. run.left
  BY <1>1, <1>2 DEF Smaller
<1>4. run.book = [lots |-> run.book.lots, consumptions |-> run.book.consumptions,
                  attributions |-> run.book.attributions, gaps |-> run.book.gaps]
  BY <1>1 DEF SoundBooks, BookSet
<1>5. next \in [book : {after}, left : {run.left - row.amount}, cost : {run.cost + row.basis},
                drawn : {Append(run.drawn, row)}]
  <2>1. next = [run EXCEPT !.book.lots[l] = Consumed(@, row.amount),
                           !.book.consumptions = Insert(@, row),
                           !.left = @ - row.amount, !.cost = @ + row.basis,
                           !.drawn = Append(@, row)]
    BY DEF Draw
  <2>2. after = [lots |-> [run.book.lots EXCEPT ![l] = Consumed(run.book.lots[l], row.amount)],
                 consumptions |-> Insert(run.book.consumptions, row),
                 attributions |-> run.book.attributions, gaps |-> run.book.gaps]
    BY DEF ConsumptionOf, Spent
  <2>3. next \in [book : {[lots |-> [run.book.lots EXCEPT ![l] = Consumed(run.book.lots[l], row.amount)],
                           consumptions |-> Insert(run.book.consumptions, row),
                           attributions |-> run.book.attributions, gaps |-> run.book.gaps]},
                  left : {run.left - row.amount}, cost : {run.cost + row.basis},
                  drawn : {Append(run.drawn, row)}]
    <3> HIDE DEF next, row, amount, after
    <3> QED BY <1>1, <1>4, <2>1
  <2> QED BY <2>2, <2>3
<1>6. row.amount = amount
  BY DEF ConsumptionOf
<1>7. next.book = after /\ next.left = run.left - amount
  <2> HIDE DEF next, after, row
  <2> QED BY <1>5, <1>6
<1> HIDE DEF next
<1> QED BY <1>3, <1>7 DEF next, DrawTakes

(* The lots in K are in one currency. *)
InOne(b, K, currency) == \A l \in K : b.lots[l].currency = currency

(* What the books hold, with what is still to be paid for. *)
Reserved(run, k, u, currency) == Less(run.book, k, u, currency, run.left)

(* One turn of the loop takes from the books what it leaves less to pay. *)
LEMMA DrawNet ==
    ASSUME NEW before, NEW evs, NEW u, NEW exact, NEW served,
           NEW e, Handles(evs, e, u, served), NEW C,
           NEW run \in Draws(before, evs, u, exact, served, e, C),
           NEW K \in SUBSET C, NEW l \in K, NEW currency, InOne(run.book, K, currency), NEW k
    PROVE  /\ InOne(Draw(run, e, l).book, K, currency)
           /\ Reserved(Draw(run, e, l), k, u, currency) = Reserved(run, k, u, currency)
<1>1. CASE run.left = 0
  BY <1>1 DEF Draw
<1>2. CASE run.left # 0
  <2>0. l \in C
    OBVIOUS
  <2>1. /\ DrawTakes(run, l) \in 0 .. run.left
        /\ DrawTakes(run, l) \in 0 .. run.book.lots[l].remaining_amount
        /\ Draw(run, e, l).book = Spent(run.book, e, l, DrawTakes(run, l))
        /\ Draw(run, e, l).left = run.left - DrawTakes(run, l)
    BY <1>2, <2>0, DrawTaken
  <2> DEFINE b == run.book
             left == run.left
             next == Draw(run, e, l)
             amount == DrawTakes(run, l)
  <2>15. /\ amount \in 0 .. left /\ amount \in 0 .. b.lots[l].remaining_amount
         /\ next.book = Spent(b, e, l, amount)
         /\ next.left = left - amount
    BY <2>1
  <2>2. /\ b \in SoundBooks(before, evs, u, exact, served) /\ left \in Nat
        /\ Payable(b, u, evs[e].time) = C
    BY Allocated
  <2>3. RowsTyped(b)
    BY <2>2 DEF SoundBooks, Sound
  <2>4. K \subseteq DOMAIN b.lots /\ l \in Payable(b, u, evs[e].time)
    BY <2>2 DEF Payable
  <2>5. b.lots[l].currency = currency /\ InOne(b, K, currency)
    BY DEF InOne
  <2> HIDE DEF b, left, next, amount
  <2>6. /\ Net(Spent(b, e, l, amount), k) = Net(b, k) - Share(k, u, b.lots[l].currency, amount)
        /\ DOMAIN Spent(b, e, l, amount).lots = DOMAIN b.lots
        /\ \A i \in DOMAIN b.lots :
             Spent(b, e, l, amount).lots[i].currency = b.lots[i].currency
    BY <2>15, <2>2, <2>4, SpentNet
  <2>7. InOne(next.book, K, currency)
    <3>1. \A i \in K : next.book.lots[i].currency = b.lots[i].currency
      BY <2>15, <2>4, <2>6
    <3> QED BY <2>5, <3>1 DEF InOne
  <2>8. Net(b, k) \in Int
    BY <2>3, NetInt
  <2> DEFINE net == Net(b, k)
             took == Share(k, u, currency, amount)
  <2>9. Net(next.book, k) = net - took
    BY <2>15, <2>5, <2>6
  <2>10. /\ took \in Int /\ Share(k, u, currency, left) \in Int
         /\ Share(k, u, currency, left - amount) = Share(k, u, currency, left) - took
    BY <2>15, <2>2 DEF Share
  <2>11. Reserved(next, k, u, currency) = Net(next.book, k) - Share(k, u, currency, left - amount)
    BY <2>15 DEF Reserved, Less
  <2>12. Reserved(run, k, u, currency) = net - Share(k, u, currency, left)
    BY DEF Reserved, Less, b, left
  <2> DEFINE full == Share(k, u, currency, left)
             rest == Share(k, u, currency, left - amount)
  <2>13. /\ took \in Int /\ full \in Int /\ net \in Int /\ rest = full - took
         /\ Reserved(next, k, u, currency) = (net - took) - rest
         /\ Reserved(run, k, u, currency) = net - full
    BY <2>8, <2>9, <2>10, <2>11, <2>12
  <2> HIDE DEF full, rest, took, net
  <2>14. Reserved(next, k, u, currency) = Reserved(run, k, u, currency)
    BY <2>13
  <2> QED BY <2>7, <2>14 DEF next
<1> QED BY <1>1, <1>2

(* allocate() takes what is needed from what the books hold, out of the lots *)
(* or as a shortfall.                                                      *)
LEMMA AllocateNet ==
    ASSUME NEW before, NEW evs, NEW u, NEW exact, NEW served,
           NEW b \in SoundBooks(before, evs, u, exact, served),
           NEW e, Handles(evs, e, u, served),
           NEW currency \in CurrencyCodes, NEW needed \in Nat, NEW asset \in Assets \cup {NoAsset}, NEW purse
    PROVE  Net(Allocate(b, e, evs[e], currency, needed, asset).book, purse)
             = Less(b, purse, u, currency, needed)
<1> DEFINE C == Payable(b, u, evs[e].time)
           D == Less(b, purse, u, currency, needed)
           K == Where(b.lots, LAMBDA i : Spendable(i, u, currency, evs[e].time))
           X == {r \in Draws(before, evs, u, exact, served, e, C) :
                   InOne(r.book, K, currency) /\ Reserved(r, purse, u, currency) = D}
           order == InOrder(K, LAMBDA i, l : Precedes(b.lots, i, l))
           start == [book |-> b, left |-> needed, cost |-> 0, drawn |-> <<>>]
           run == FoldLeft(LAMBDA r, l : Draw(r, e, l), start, order)
           end == Allocate(b, e, evs[e], currency, needed, asset)
<1>1. evs[e].user = u
  BY DEF Handles
<1>2. /\ IsTable(b.lots, Lot)
      /\ \A l \in DOMAIN b.lots : b.lots[l] \in Lot /\ b.lots[l].created_at \in Nat
  <2>1. IsTable(b.lots, Lot)
    BY DEF SoundBooks, Sound, RowsTyped
  <2>2. \A l \in DOMAIN b.lots : b.lots[l] \in Lot
    BY <2>1 DEF IsTable
  <2> QED BY <2>1, <2>2, LotColumns, FundingAttributionAssumption
<1>3. K \subseteq DOMAIN b.lots /\ KeySet(K)
  <2>1. K \subseteq DOMAIN b.lots
    BY DEF Where
  <2> HIDE DEF K
  <2> QED BY <1>2, <2>1, FS_Subset DEF IsTable, KeySet
<1>4. K \in SUBSET C /\ InOne(b, K, currency)
  <2>1. \A l \in K : /\ l \in DOMAIN b.lots /\ b.lots[l].user = u /\ b.lots[l].currency = currency
                     /\ b.lots[l].status = "AVAILABLE" /\ b.lots[l].created_at <= evs[e].time
    BY DEF Where, Spendable
  <2>2. \A l \in K : LotChecks(b.lots[l])
    BY <1>2, <2>1, LotColumns
  <2> HIDE DEF K
  <2> QED BY <2>1, <2>2 DEF Payable, LotChecks, InOne
<1>5. order \in Seq(K)
  <2>1. \A x \in K : b.lots[x].created_at \in Nat
    <3> HIDE DEF K
    <3> QED BY <1>2, <1>3
  <2> DEFINE lots == b.lots
  <2> HIDE DEF K, lots
  <2>2. \A x \in K : lots[x].created_at \in Nat
    BY <2>1 DEF lots
  <2>25. KeySet(K)
    BY <1>3
  <2>3. Aged(lots, K) \in Seq(K)
    BY <2>25, <2>2, LotsInOrder
  <2> QED BY <2>3 DEF lots, Aged
<1>6. start \in X
  <2>1. Covered(b.attributions, <<>>, b.consumptions)
    <3>1. /\ IsTable(b.attributions, Attribution) /\ IsTable(b.consumptions, Consumption)
          /\ Backed(b.attributions, b.consumptions)
      BY DEF SoundBooks, Sound, RowsTyped
    <3> QED BY <3>1, BackedCovered
  <2>2. start \in Draws(before, evs, u, exact, served, e, C)
    BY <2>1 DEF Draws
  <2>3. Reserved(start, purse, u, currency) = D /\ InOne(start.book, K, currency)
    BY <1>4 DEF Reserved
  <2> QED BY <2>2, <2>3
<1>7. \A x \in X : \A l \in K : DrawOn(e, e, e, x, l) \in X
  <2> SUFFICES ASSUME NEW x \in X, NEW l \in K PROVE DrawOn(e, e, e, x, l) \in X
    OBVIOUS
  <2>1. /\ l \in C /\ x \in Draws(before, evs, u, exact, served, e, C)
        /\ Reserved(x, purse, u, currency) = D /\ InOne(x.book, K, currency)
    BY <1>4
  <2> HIDE DEF C, K, D
  <2>2. /\ Draw(x, e, l) \in Draws(before, evs, u, exact, served, e, C)
        /\ Due(Draw(x, e, l), e) = Due(x, e)
    BY <2>1, DrawSound
  <2>3. /\ InOne(Draw(x, e, l).book, K, currency)
        /\ Reserved(Draw(x, e, l), purse, u, currency) = Reserved(x, purse, u, currency)
    BY <1>4, <2>1, DrawNet
  <2> QED BY <2>1, <2>2, <2>3 DEF DrawOn
<1>8. Drawing!Folded(e, e, e, start, order) \in X
  <2> HIDE DEF X, K, start, order
  <2> QED BY <1>5, <1>6, <1>7, Drawing!Stays
<1>9. run = Drawing!Folded(e, e, e, start, order)
  <2> HIDE DEF start, order
  <2> QED BY DEF DrawOn, Drawing!Folded, Drawing!FoldLeft, Drawing!MapThenFoldSet,
                 FoldLeft, MapThenFoldSet, Drawing!Max, Max
<1>10. run \in Draws(before, evs, u, exact, served, e, C) /\ Reserved(run, purse, u, currency) = D
  <2>1. run \in X
    <3> HIDE DEF run, start, order, X
    <3> QED BY <1>8, <1>9
  <2> HIDE DEF run, K, D, C
  <2> QED BY <2>1
<1>11. end = IF run.left = 0 THEN run
             ELSE [run EXCEPT !.book = RecordGap(@, e, evs[e], currency, asset, run.left)]
  BY <1>1 DEF Allocate
<1> HIDE DEF run, end, K, order, start, D, X
<1>12. /\ run.book \in SoundBooks(before, evs, u, exact, served) /\ run.left \in Nat
       /\ run = [book |-> run.book, left |-> run.left, cost |-> run.cost, drawn |-> run.drawn]
  <2> HIDE DEF C
  <2> QED BY <1>10 DEF Draws
<1>13. Net(run.book, purse) \in Int
  BY <1>12, NetInt DEF SoundBooks, Sound
<1>14. CASE run.left = 0
  <2>1. Share(purse, u, currency, run.left) = 0 /\ end = run
    BY <1>11, <1>14 DEF Share
  <2>2. Net(end.book, purse) = D
    BY <1>10, <1>13, <2>1 DEF Reserved, Less
  <2> QED BY <2>2 DEF end, D
<1>15. CASE run.left # 0
  <2> DEFINE left == run.left
             book == run.book
             gapped == RecordGap(book, e, evs[e], currency, asset, left)
  <2>1. end.book = gapped
    <3> HIDE DEF gapped
    <3>1. end = [run EXCEPT !.book = gapped]
      BY <1>11, <1>15 DEF gapped
    <3> QED BY <1>12, <3>1
  <2>2. book \in SoundBooks(before, evs, u, exact, served) /\ left \in Nat
    BY <1>12
  <2> HIDE DEF left, book, C
  <2>3. /\ RecordGap(book, e, evs[e], currency, asset, left)
             \in SoundBooks(before, evs, u, exact, served)
        /\ Net(RecordGap(book, e, evs[e], currency, asset, left), purse)
             = Less(book, purse, u, currency, left)
    BY <2>2, RecordGapNet
  <2>4. Net(end.book, purse) = D
    <3>1. D = Less(book, purse, u, currency, left)
      BY <1>10 DEF Reserved, left, book
    <3> QED BY <2>1, <2>3, <3>1
  <2> QED BY <2>4 DEF end, D
<1> QED BY <1>14, <1>15
-----------------------------------------------------------------------------
(* What a list of entries moves, and what a list of assets costs, in k.    *)

Moves(list, k, u) == [n \in 1 .. Len(list) |-> Share(k, u, list[n].currency, list[n].delta)]
Moved(list, k, u) == SumFunctionOnSet(Moves(list, k, u), 1 .. Len(list))

Prices(list, k, u) == [n \in 1 .. Len(list) |-> Share(k, u, list[n].currency, list[n].amount)]
PaidFor(list, k, u) == SumFunctionOnSet(Prices(list, k, u), 1 .. Len(list))

(* A sum, term by term. *)
LEMMA Running ==
    ASSUME NEW N \in Nat, NEW v, \A n \in 1 .. N : v[n] \in Int
    PROVE  \E P : /\ P[0] = 0 /\ P[N] = SumFunctionOnSet(v, 1 .. N)
                  /\ \A n \in 0 .. N : P[n] \in Int
                  /\ \A n \in 1 .. N : P[n] = P[n - 1] + v[n]
<1> DEFINE P == [n \in 0 .. N |-> SumFunctionOnSet(v, 1 .. n)]
<1>1. \A n \in 0 .. N : P[n] = SumFunctionOnSet(v, 1 .. n)
  OBVIOUS
<1>2. N \in 0 .. N
  OBVIOUS
<1> HIDE DEF P
<1>3. /\ P[0] = 0 /\ \A n \in 0 .. N : P[n] \in Int
      /\ \A n \in 1 .. N : P[n] = P[n - 1] + v[n]
  BY <1>1, RunningSum
<1> QED BY <1>1, <1>2, <1>3

(* The sound books that hold an amount in k. *)
Holders(before, evs, u, exact, served, k, amount) ==
    {d \in SoundBooks(before, evs, u, exact, served) : Net(d, k) = amount}

(* Opening a lot for every inflow adds what comes in. *)
LEMMA OpenEachNet ==
    ASSUME NEW before, NEW evs, NEW u, NEW exact, NEW served,
           NEW b \in SoundBooks(before, evs, u, exact, served),
           NEW e, Handles(evs, e, u, served),
           NEW basis, \A c \in ToSet(Inflows(evs[e].cash)) : basis[c] \in Bases, NEW k
    PROVE  OpenEach(b, e, evs[e], basis)
             \in Holders(before, evs, u, exact, served, k,
                         Net(b, k) + Moved(Inflows(evs[e].cash), k, u))
<1> DEFINE ev == evs[e]
           list == Inflows(ev.cash)
           N == Len(list)
           v == Moves(list, k, u)
           D == Net(b, k)
           X(amount) == Holders(before, evs, u, exact, served, k, amount)
<1>1. /\ list \in Seq(ToSet(list))
      /\ \A c \in ToSet(list) : c.currency \in STRING /\ c.delta \in Nat /\ basis[c] \in Bases
  BY Entries, CashLegs
<1>2. /\ N \in Nat /\ \A n \in 1 .. N : list[n] \in ToSet(list)
      /\ \A n \in 1 .. N : v[n] = Share(k, u, list[n].currency, list[n].delta)
  <2> HIDE DEF list
  <2> QED BY <1>1 DEF Moves
<1>3. \A n \in 1 .. N : v[n] \in Int
  <2> HIDE DEF list, v
  <2> QED BY <1>1, <1>2 DEF Share
<1>4. PICK P : /\ P[0] = 0 /\ P[N] = SumFunctionOnSet(v, 1 .. N)
               /\ \A n \in 0 .. N : P[n] \in Int
               /\ \A n \in 1 .. N : P[n] = P[n - 1] + v[n]
  <2> HIDE DEF N, v
  <2> QED BY <1>2, <1>3, Running
<1>5. D \in Int
  BY NetInt DEF SoundBooks, Sound
<1> HIDE DEF D
<1>6. ASSUME NEW n \in 1 .. N, NEW d \in X(D + P[n - 1])
      PROVE  OpenOn(e, ev, basis, d, list[n]) \in X(D + P[n])
  <2> DEFINE c == list[n]
             currency == c.currency
             amount == c.delta
             value == basis[c]
             next == OpenLot(d, e, evs[e], currency, amount, value)
             sum == P[n - 1]
             part == v[n]
  <2>1. currency \in CurrencyCodes /\ amount \in Nat /\ value \in Bases
    BY <1>1, <1>2 DEF CurrencyCodes
  <2>2. OpenOn(e, ev, basis, d, c) = next
    BY DEF OpenOn
  <2>3. d \in SoundBooks(before, evs, u, exact, served) /\ Net(d, k) = D + sum
    BY DEF Holders
  <2>4. sum \in Int /\ part \in Int /\ P[n] = sum + part /\ part = Share(k, u, currency, amount)
    BY <1>2, <1>3, <1>4
  <2> HIDE DEF currency, amount, value, list, c, X, sum, part, N
  <2>5. /\ OpenLot(d, e, evs[e], currency, amount, value) \in SoundBooks(before, evs, u, exact, served)
        /\ Net(OpenLot(d, e, evs[e], currency, amount, value), k) = More(d, k, u, currency, amount)
    BY <2>1, <2>3, OpenLotNet
  <2>6. Net(next, k) = (D + sum) + part
    BY <2>3, <2>4, <2>5 DEF More
  <2>7. Net(next, k) = D + P[n]
    BY <1>5, <2>4, <2>6
  <2>8. next \in X(D + P[n])
    BY <2>5, <2>7 DEF X, Holders
  <2> QED BY <2>2, <2>8 DEF c
<1> DEFINE Y == [n \in 0 .. N |-> X(D + P[n])]
<1>7. b \in X(D + P[0])
  BY <1>4, <1>5 DEF Holders, D
<1>8. Opening!Folded(e, ev, basis, b, list) \in Y[N]
  <2> DEFINE S == ToSet(list)
  <2>1. list \in Seq(S) /\ b \in Y[0]
    BY <1>1, <1>2, <1>7
  <2>2. \A n \in 1 .. N : \A d \in Y[n - 1] : OpenOn(e, ev, basis, d, list[n]) \in Y[n]
    <3>1. \A n \in 1 .. N : Y[n - 1] = X(D + P[n - 1]) /\ Y[n] = X(D + P[n])
      <4> HIDE DEF X, N
      <4> QED BY <1>2
    <3> HIDE DEF X, Y, ev, list
    <3> QED BY <1>6, <3>1
  <2> HIDE DEF Y, S, ev, list
  <2> QED BY <2>1, <2>2, Opening!Advances
<1>9. OpenEach(b, e, ev, basis) = Opening!Folded(e, ev, basis, b, list)
  BY DEF OpenEach, OpenOn, Opening!Folded, Opening!FoldLeft, Opening!MapThenFoldSet,
         FoldLeft, MapThenFoldSet, Opening!Max, Max
<1>10. Y[N] = X(D + Moved(list, k, u))
  <2>1. P[N] = Moved(list, k, u)
    BY <1>4 DEF Moved
  <2>2. N \in 0 .. N
    BY <1>2
  <2> HIDE DEF X, N, list
  <2> QED BY <2>1, <2>2
<1> QED BY <1>8, <1>9, <1>10 DEF D

(* What an allocation leaves: sound books that hold less. *)
LEMMA AllocateHolds ==
    ASSUME NEW before, NEW evs, NEW u, NEW exact, NEW served,
           NEW b \in SoundBooks(before, evs, u, exact, served),
           NEW e, Handles(evs, e, u, served),
           NEW currency \in CurrencyCodes, NEW needed \in Nat, NEW asset \in Assets \cup {NoAsset},
           NEW k
    PROVE  /\ Allocate(b, e, evs[e], currency, needed, asset)
                \in Draws(before, evs, u, exact, served, e, Payable(b, u, evs[e].time))
           /\ Net(Allocate(b, e, evs[e], currency, needed, asset).book, k)
                = Less(b, k, u, currency, needed)
<1>1. Net(Allocate(b, e, evs[e], currency, needed, asset).book, k) = Less(b, k, u, currency, needed)
  BY AllocateNet
<1>2. Allocate(b, e, evs[e], currency, needed, asset)
        \in Draws(before, evs, u, exact, served, e, Payable(b, u, evs[e].time))
  BY AllocateSound DEF CurrencyCodes
<1> QED BY <1>1, <1>2

(* Selling currency takes what goes out. *)
LEMMA FxSellNet ==
    ASSUME NEW before, NEW evs, NEW u, NEW exact, NEW served,
           NEW b \in SoundBooks(before, evs, u, exact, served),
           NEW e, Handles(evs, e, u, served), NEW k
    PROVE  FxSell(b, e, evs[e])
             \in Holders(before, evs, u, exact, served, k,
                         Net(b, k) + Moved(Outflows(evs[e].cash), k, u))
<1> DEFINE ev == evs[e]
           list == Outflows(ev.cash)
           N == Len(list)
           v == Moves(list, k, u)
           D == Net(b, k)
           X(amount) == Holders(before, evs, u, exact, served, k, amount)
<1>1. /\ list \in Seq(ToSet(list))
      /\ \A c \in ToSet(list) : c.currency \in STRING /\ c.delta \in Int /\ -c.delta \in Nat
  BY Entries, CashLegs
<1>2. /\ N \in Nat /\ \A n \in 1 .. N : list[n] \in ToSet(list)
      /\ \A n \in 1 .. N : v[n] = Share(k, u, list[n].currency, list[n].delta)
  <2> HIDE DEF list
  <2> QED BY <1>1 DEF Moves
<1>3. \A n \in 1 .. N : v[n] \in Int
  <2> HIDE DEF list, v
  <2> QED BY <1>1, <1>2 DEF Share
<1>4. PICK P : /\ P[0] = 0 /\ P[N] = SumFunctionOnSet(v, 1 .. N)
               /\ \A n \in 0 .. N : P[n] \in Int
               /\ \A n \in 1 .. N : P[n] = P[n - 1] + v[n]
  <2> HIDE DEF N, v
  <2> QED BY <1>2, <1>3, Running
<1>5. D \in Int
  BY NetInt DEF SoundBooks, Sound
<1> HIDE DEF D
<1>6. ASSUME NEW n \in 1 .. N, NEW d \in X(D + P[n - 1])
      PROVE  SellOn(e, ev, e, d, list[n]) \in X(D + P[n])
  <2> DEFINE c == list[n]
             currency == c.currency
             amount == -c.delta
             run == Allocate(d, e, evs[e], currency, amount, NoAsset)
             sum == P[n - 1]
             part == v[n]
             delta == c.delta
  <2>1. /\ currency \in CurrencyCodes /\ amount \in Nat /\ NoAsset \in Assets \cup {NoAsset}
        /\ delta \in Int
    BY <1>1, <1>2 DEF CurrencyCodes
  <2>2. SellOn(e, ev, e, d, c) = run.book
    BY DEF SellOn
  <2>3. d \in SoundBooks(before, evs, u, exact, served) /\ Net(d, k) = D + sum
    BY DEF Holders
  <2>4. sum \in Int /\ part \in Int /\ P[n] = sum + part /\ part = Share(k, u, currency, delta)
    BY <1>2, <1>3, <1>4
  <2>9. amount = -delta
    OBVIOUS
  <2> HIDE DEF currency, amount, list, c, X, sum, part, N, delta
  <2>5. /\ Allocate(d, e, evs[e], currency, amount, NoAsset)
             \in Draws(before, evs, u, exact, served, e, Payable(d, u, evs[e].time))
        /\ Net(Allocate(d, e, evs[e], currency, amount, NoAsset).book, k)
             = Less(d, k, u, currency, amount)
    BY <2>1, <2>3, AllocateHolds
  <2> DEFINE book == run.book
  <2>6. book \in SoundBooks(before, evs, u, exact, served)
    BY <2>5, Allocated
  <2>10. Net(book, k) = (D + sum) - Share(k, u, currency, amount)
    BY <2>3, <2>5 DEF Less
  <2> HIDE DEF book
  <2>7. Net(book, k) = D + P[n]
    BY <1>5, <2>1, <2>4, <2>9, <2>10 DEF Share
  <2>8. book \in X(D + P[n])
    BY <2>6, <2>7 DEF X, Holders
  <2> QED BY <2>2, <2>8 DEF c, book
<1> DEFINE Y == [n \in 0 .. N |-> X(D + P[n])]
<1>7. b \in X(D + P[0])
  BY <1>4, <1>5 DEF Holders, D
<1>8. Selling!Folded(e, ev, e, b, list) \in Y[N]
  <2> DEFINE S == ToSet(list)
  <2>1. list \in Seq(S) /\ b \in Y[0]
    BY <1>1, <1>2, <1>7
  <2>2. \A n \in 1 .. N : \A d \in Y[n - 1] : SellOn(e, ev, e, d, list[n]) \in Y[n]
    <3>1. \A n \in 1 .. N : Y[n - 1] = X(D + P[n - 1]) /\ Y[n] = X(D + P[n])
      <4> HIDE DEF X, N
      <4> QED BY <1>2
    <3> HIDE DEF X, Y, ev, list
    <3> QED BY <1>6, <3>1
  <2> HIDE DEF Y, S, ev, list
  <2> QED BY <2>1, <2>2, Selling!Advances
<1>9. FxSell(b, e, ev) = Selling!Folded(e, ev, e, b, list)
  BY DEF FxSell, SellOn, Selling!Folded, Selling!FoldLeft, Selling!MapThenFoldSet,
         FoldLeft, MapThenFoldSet, Selling!Max, Max
<1>10. Y[N] = X(D + Moved(list, k, u))
  <2>1. P[N] = Moved(list, k, u)
    BY <1>4 DEF Moved
  <2>2. N \in 0 .. N
    BY <1>2
  <2> HIDE DEF X, N, list
  <2> QED BY <2>1, <2>2
<1> QED BY <1>8, <1>9, <1>10 DEF D

(* A list of one entry moves what the entry does. *)
LEMMA MovedOne ==
    ASSUME NEW S, NEW list \in Seq(S), Len(list) = 1, Head(list).delta \in Int, NEW k, NEW u
    PROVE  Moved(list, k, u) = Share(k, u, Head(list).currency, Head(list).delta)
<1> DEFINE v == Moves(list, k, u)
           N == Len(list)
<1>1. N = 1 /\ Head(list) = list[1]
  OBVIOUS
<1>2. v[1] = Share(k, u, Head(list).currency, Head(list).delta)
  BY <1>1 DEF Moves
<1>3. v[1] \in Int
  <2> HIDE DEF v
  <2> QED BY <1>2 DEF Share
<1>4. Moved(list, k, u) = SumFunctionOnSet(v, 1 .. 1)
  BY <1>1 DEF Moved
<1> HIDE DEF v, N
<1>5. \A n \in 1 .. 1 : v[n] \in Int
  BY <1>3
<1>6. PICK P : /\ P[0] = 0 /\ P[1] = SumFunctionOnSet(v, 1 .. 1)
               /\ \A n \in 0 .. 1 : P[n] \in Int
               /\ \A n \in 1 .. 1 : P[n] = P[n - 1] + v[n]
  <2>1. 1 \in Nat
    OBVIOUS
  <2>2. ASSUME NEW m \in Nat, m = 1
        PROVE  \E P : /\ P[0] = 0 /\ P[m] = SumFunctionOnSet(v, 1 .. m)
                      /\ \A n \in 0 .. m : P[n] \in Int
                      /\ \A n \in 1 .. m : P[n] = P[n - 1] + v[n]
    <3>1. \A n \in 1 .. m : v[n] \in Int
      BY <1>5, <2>2
    <3> QED BY <3>1, Running
  <2> QED BY <2>1, <2>2
<1>7. P[1] = v[1]
  <2>1. 1 \in 1 .. 1 /\ 1 - 1 = 0
    OBVIOUS
  <2>2. P[1] = P[1 - 1] + v[1]
    BY <1>6, <2>1
  <2> QED BY <1>3, <1>6, <2>1, <2>2
<1> QED BY <1>2, <1>4, <1>6, <1>7

(* What the first leg of a list is to k. *)
FirstShare(k, u, list) == Share(k, u, Head(list).currency, Head(list).delta)

TwoLegged(ev) == Inflows(ev.cash) # <<>> /\ Outflows(ev.cash) # <<>>

(* Swapping one leg for another takes the one and adds the other, whether   *)
(* or not there was enough to swap.                                        *)
LEMMA FxSwapNet ==
    ASSUME NEW before, NEW evs, NEW u, NEW exact, NEW served,
           NEW b \in SoundBooks(before, evs, u, exact, served),
           NEW e, Handles(evs, e, u, served), NEW k,
           TwoLegged(evs[e])
    PROVE  FxSwap(b, e, evs[e])
             \in Holders(before, evs, u, exact, served, k,
                         (Net(b, k) + FirstShare(k, u, Outflows(evs[e].cash)))
                           + FirstShare(k, u, Inflows(evs[e].cash)))
<1> DEFINE out == Outflows(evs[e].cash)
           in == Inflows(evs[e].cash)
           source == Head(out)
           target == Head(in)
           from == source.currency
           amount == -source.delta
           to == target.currency
           bought == target.delta
           run == Allocate(b, e, evs[e], from, amount, NoAsset)
           basis == IF run.left = 0 THEN run.cost ELSE NoBasis
           gone == FirstShare(k, u, out)
           come == FirstShare(k, u, in)
           D == Net(b, k)
<1>1. /\ out \in Seq(ToSet(out)) /\ in \in Seq(ToSet(in))
      /\ \A c \in ToSet(out) : c.currency \in STRING /\ c.delta \in Int /\ -c.delta \in Nat
      /\ \A c \in ToSet(in) : c.currency \in STRING /\ c.delta \in Nat
  BY Entries, CashLegs
<1>2. in # <<>> /\ out # <<>>
  BY DEF TwoLegged
<1>3. /\ from \in CurrencyCodes /\ amount \in Nat /\ to \in CurrencyCodes /\ bought \in Nat
      /\ source.delta \in Int /\ NoAsset \in Assets \cup {NoAsset}
  <2> HIDE DEF out, in
  <2>1. source \in ToSet(out) /\ target \in ToSet(in)
    BY <1>1, <1>2
  <2> QED BY <1>1, <2>1 DEF CurrencyCodes
<1>4. FxSwap(b, e, evs[e]) = OpenLot(run.book, e, evs[e], to, bought, basis)
  BY <1>2 DEF FxSwap
<1>5. gone = Share(k, u, from, source.delta) /\ come = Share(k, u, to, bought)
  BY DEF FirstShare
<1> DEFINE paid == source.delta
<1>9. amount = -paid /\ paid \in Int /\ gone = Share(k, u, from, paid)
  BY <1>3, <1>5
<1> HIDE DEF from, amount, to, bought, run, basis, gone, come, out, in, source, target, paid
<1>6. /\ run \in Draws(before, evs, u, exact, served, e, Payable(b, u, evs[e].time))
      /\ Net(run.book, k) = Less(b, k, u, from, amount)
  <2>0. from \in CurrencyCodes /\ amount \in Nat /\ NoAsset \in Assets \cup {NoAsset}
    BY <1>3
  <2>1. /\ Allocate(b, e, evs[e], from, amount, NoAsset)
             \in Draws(before, evs, u, exact, served, e, Payable(b, u, evs[e].time))
        /\ Net(Allocate(b, e, evs[e], from, amount, NoAsset).book, k) = Less(b, k, u, from, amount)
    BY <2>0, AllocateHolds
  <2> QED BY <2>1 DEF run
<1>7. run.book \in SoundBooks(before, evs, u, exact, served) /\ run.cost \in Nat
  BY <1>6, Allocated
<1>8. basis \in Bases
  BY <1>7 DEF basis, Bases
<1> DEFINE book == run.book
           next == OpenLot(book, e, evs[e], to, bought, basis)
<1>10. book \in SoundBooks(before, evs, u, exact, served) /\ Net(book, k) = Less(b, k, u, from, amount)
  BY <1>6, <1>7
<1>14. FxSwap(b, e, evs[e]) = next
  BY <1>4
<1> HIDE DEF book
<1>11. next \in SoundBooks(before, evs, u, exact, served) /\ Net(next, k) = More(book, k, u, to, bought)
  BY <1>3, <1>8, <1>10, OpenLotNet
<1>12. D \in Int
  BY NetInt DEF SoundBooks, Sound
<1>15. /\ Net(next, k) = Net(book, k) + come
       /\ Net(book, k) = D - Share(k, u, from, amount)
  BY <1>5, <1>10, <1>11 DEF More, Less
<1> HIDE DEF next, D
<1>13. Net(next, k) = (D + gone) + come
  BY <1>9, <1>12, <1>15 DEF Share
<1> QED BY <1>11, <1>13, <1>14 DEF Holders, D, gone, come, out, in

(* Buying currency, and a manual adjustment. *)
LEMMA FxBuyNet ==
    ASSUME NEW before, NEW evs, NEW u, NEW exact, NEW served,
           NEW b \in SoundBooks(before, evs, u, exact, served),
           NEW e, Handles(evs, e, u, served), NEW k
    PROVE  /\ FxBuy(b, e, evs[e])
                \in Holders(before, evs, u, exact, served, k,
                            Net(b, k) + Moved(Inflows(evs[e].cash), k, u))
           /\ ManualAdjustment(b, e, evs[e])
                \in Holders(before, evs, u, exact, served, k,
                            Net(b, k) + Moved(Inflows(evs[e].cash), k, u))
<1> DEFINE S == ToSet(Inflows(evs[e].cash))
           cost == [c \in S |-> CashBasis(c)]
           given == [c \in S |-> ManualBasis(c)]
<1>1. \A c \in S : CashBasis(c) \in Bases /\ ManualBasis(c) \in Bases
  BY Entries, CashLegs, CashValues
<1>2. /\ \A c \in ToSet(Inflows(evs[e].cash)) : cost[c] \in Bases
      /\ \A c \in ToSet(Inflows(evs[e].cash)) : given[c] \in Bases
  BY <1>1
<1> HIDE DEF cost, given
<1>3. OpenEach(b, e, evs[e], cost)
        \in Holders(before, evs, u, exact, served, k, Net(b, k) + Moved(Inflows(evs[e].cash), k, u))
  BY <1>2, OpenEachNet
<1>4. OpenEach(b, e, evs[e], given)
        \in Holders(before, evs, u, exact, served, k, Net(b, k) + Moved(Inflows(evs[e].cash), k, u))
  BY <1>2, OpenEachNet
<1> QED BY <1>3, <1>4 DEF FxBuy, ManualAdjustment, cost, given

(* Income, and redeeming an asset: what is released to price the lots       *)
(* changes none of them.                                                   *)
LEMMA IncomeNet ==
    ASSUME NEW before, NEW evs, NEW u, NEW exact, NEW served,
           NEW b \in SoundBooks(before, evs, u, exact, served),
           NEW e, Handles(evs, e, u, served), NEW k
    PROVE  IncomeOrRedemption(b, evs, e, evs[e])
             \in Holders(before, evs, u, exact, served, k,
                         Net(b, k) + Moved(Inflows(evs[e].cash), k, u))
<1> DEFINE ev == evs[e]
           S == ToSet(Inflows(ev.cash))
           book == ReleaseAll(b, evs, ev).book
           carried == ReleaseAll(b, evs, ev).carried
           basis == [c \in S |-> RedemptionBasis(carried, ev, c)]
<1>0. /\ ReleaseAll(b, evs, evs[e]).book \in SoundBooks(before, evs, u, exact, served)
      /\ ReleaseAll(b, evs, evs[e]).carried \in [Currencies(evs[e]) -> Nat]
  BY ReleaseAllSound
<1>7. /\ ReleaseAll(b, evs, evs[e]).book.lots = b.lots
       /\ ReleaseAll(b, evs, evs[e]).book.gaps = b.gaps
  BY ReleaseAllSound
<1>1. /\ book \in SoundBooks(before, evs, u, exact, served) /\ carried \in [Currencies(ev) -> Nat]
      /\ book.lots = b.lots /\ book.gaps = b.gaps
  BY <1>0, <1>7
<1>2. IncomeOrRedemption(b, evs, e, ev) = OpenEach(book, e, evs[e], basis)
  BY DEF IncomeOrRedemption
<1> HIDE DEF book, carried
<1>3. ASSUME NEW c \in S PROVE RedemptionBasis(carried, ev, c) \in Bases
  <2>1. CashBasis(c) \in Bases
    BY Entries, CashLegs, CashValues
  <2>2. SpotBasis(ev, c.currency) \in Nat
    BY Entries, SpotBasisNat
  <2> HIDE DEF S
  <2>3. c.currency \in DOMAIN carried => carried[c.currency] \in Nat
    BY <1>1
  <2> HIDE DEF ev
  <2> QED BY <2>1, <2>2, <2>3 DEF RedemptionBasis, Bases
<1>4. \A c \in ToSet(Inflows(evs[e].cash)) : basis[c] \in Bases
  BY <1>3
<1> HIDE DEF basis
<1>5. OpenEach(book, e, evs[e], basis)
        \in Holders(before, evs, u, exact, served, k,
                    Net(book, k) + Moved(Inflows(evs[e].cash), k, u))
  BY <1>1, <1>4, OpenEachNet
<1>6. Net(book, k) = Net(b, k)
  BY <1>1 DEF Net
<1> QED BY <1>2, <1>5, <1>6

(* Buying assets takes what they cost: what is attributed to them changes   *)
(* no lot.                                                                 *)
LEMMA AssetPurchaseNet ==
    ASSUME NEW before, NEW evs, NEW u, NEW exact, NEW served,
           NEW b \in SoundBooks(before, evs, u, exact, served),
           NEW e, Handles(evs, e, u, served), NEW k
    PROVE  AssetPurchase(b, e, evs[e])
             \in Holders(before, evs, u, exact, served, k,
                         Net(b, k) - PaidFor(Purchased(evs[e]), k, u))
<1> DEFINE ev == evs[e]
           list == Purchased(ev)
           N == Len(list)
           v == Prices(list, k, u)
           D == Net(b, k)
           X(amount) == Holders(before, evs, u, exact, served, k, amount)
<1>1. /\ list \in Seq(ToSet(list))
      /\ \A x \in ToSet(list) : x.asset \in Assets /\ x.currency \in STRING /\ x.amount \in Nat
  BY Entries, AssetLegs
<1>2. /\ N \in Nat /\ \A n \in 1 .. N : list[n] \in ToSet(list)
      /\ \A n \in 1 .. N : v[n] = Share(k, u, list[n].currency, list[n].amount)
  <2> HIDE DEF list
  <2> QED BY <1>1 DEF Prices
<1>3. \A n \in 1 .. N : v[n] \in Int
  <2> HIDE DEF list, v
  <2> QED BY <1>1, <1>2 DEF Share
<1>4. PICK P : /\ P[0] = 0 /\ P[N] = SumFunctionOnSet(v, 1 .. N)
               /\ \A n \in 0 .. N : P[n] \in Int
               /\ \A n \in 1 .. N : P[n] = P[n - 1] + v[n]
  <2> HIDE DEF N, v
  <2> QED BY <1>2, <1>3, Running
<1>5. D \in Int
  BY NetInt DEF SoundBooks, Sound
<1> HIDE DEF D
<1>6. ASSUME NEW n \in 1 .. N, NEW d \in X(D - P[n - 1])
      PROVE  BuyOn(e, ev, e, d, list[n]) \in X(D - P[n])
  <2> DEFINE x == list[n]
             currency == x.currency
             amount == x.amount
             asset == x.asset
             run == Allocate(d, e, evs[e], currency, amount, asset)
             drawn == run.drawn
             book == run.book
             next == Attributing!Folded(e, x, e, book, drawn)
             sum == P[n - 1]
             part == v[n]
  <2>1. /\ currency \in CurrencyCodes /\ amount \in Nat /\ asset \in Assets \cup {NoAsset}
        /\ x.asset \in Assets
    BY <1>1, <1>2 DEF CurrencyCodes
  <2>2. BuyOn(e, ev, e, d, x) = next
    BY DEF BuyOn, AttributeOn, Attributing!Folded, Attributing!FoldLeft,
           Attributing!MapThenFoldSet, FoldLeft, MapThenFoldSet, Attributing!Max, Max
  <2>3. d \in SoundBooks(before, evs, u, exact, served) /\ Net(d, k) = D - sum
    BY DEF Holders
  <2>4. sum \in Int /\ part \in Int /\ P[n] = sum + part /\ part = Share(k, u, currency, amount)
    BY <1>2, <1>3, <1>4
  <2> HIDE DEF currency, amount, asset, list, X, sum, part, N, x
  <2>5. /\ Allocate(d, e, evs[e], currency, amount, asset)
             \in Draws(before, evs, u, exact, served, e, Payable(d, u, evs[e].time))
        /\ Net(Allocate(d, e, evs[e], currency, amount, asset).book, k)
             = Less(d, k, u, currency, amount)
    BY <2>1, <2>3, AllocateHolds
  <2>6. /\ run \in Draws(before, evs, u, exact, served, e, Payable(d, u, evs[e].time))
        /\ Net(book, k) = Less(d, k, u, currency, amount)
    BY <2>5
  <2> HIDE DEF run
  <2>7. /\ book \in SoundBooks(before, evs, u, exact, served)
        /\ drawn \in Seq(DrawnRows(e, Payable(book, u, evs[e].time)))
        /\ Covered(book.attributions, drawn, book.consumptions)
    BY <2>6, Allocated
  <2> HIDE DEF book, drawn
  <2>8. Attributing!Folded(e, x, e, book, drawn) \in SoundBooks(before, evs, u, exact, served)
    BY <2>1, <2>7, PurchaseSound
  <2>9. /\ Attributing!Folded(e, x, e, book, drawn).lots = book.lots
        /\ Attributing!Folded(e, x, e, book, drawn).gaps = book.gaps
    BY <2>1, <2>7, PurchaseSound
  <2>10. Net(next, k) = Less(d, k, u, currency, amount)
    BY <2>6, <2>9 DEF Net
  <2>11. next \in SoundBooks(before, evs, u, exact, served)
    BY <2>8
  <2> HIDE DEF next
  <2>12. Net(next, k) = (D - sum) - part
    BY <2>3, <2>4, <2>10 DEF Less
  <2>13. Net(next, k) = D - P[n]
    BY <1>5, <2>4, <2>12
  <2>14. next \in X(D - P[n])
    BY <2>11, <2>13 DEF X, Holders
  <2> QED BY <2>2, <2>14 DEF x
<1> DEFINE Y == [n \in 0 .. N |-> X(D - P[n])]
<1>7. b \in X(D - P[0])
  BY <1>4, <1>5 DEF Holders, D
<1>8. Buying!Folded(e, ev, e, b, list) \in Y[N]
  <2> DEFINE S == ToSet(list)
  <2>1. list \in Seq(S) /\ b \in Y[0]
    BY <1>1, <1>2, <1>7
  <2>2. \A n \in 1 .. N : \A d \in Y[n - 1] : BuyOn(e, ev, e, d, list[n]) \in Y[n]
    <3>1. \A n \in 1 .. N : Y[n - 1] = X(D - P[n - 1]) /\ Y[n] = X(D - P[n])
      <4> HIDE DEF X, N
      <4> QED BY <1>2
    <3> HIDE DEF X, Y, ev, list
    <3> QED BY <1>6, <3>1
  <2> HIDE DEF Y, S, ev, list
  <2> QED BY <2>1, <2>2, Buying!Advances
<1>9. AssetPurchase(b, e, ev) = Buying!Folded(e, ev, e, b, list)
  BY DEF AssetPurchase, BuyOn, Buying!Folded, Buying!FoldLeft, Buying!MapThenFoldSet,
         FoldLeft, MapThenFoldSet, Buying!Max, Max
<1>10. Y[N] = X(D - PaidFor(list, k, u))
  <2>1. P[N] = PaidFor(list, k, u)
    BY <1>4 DEF PaidFor
  <2>2. N \in 0 .. N
    BY <1>2
  <2> HIDE DEF X, N, list
  <2> QED BY <2>1, <2>2
<1> QED BY <1>8, <1>9, <1>10 DEF D

(* Nothing moves in a currency that no entry has. *)
LEMMA NothingMoved ==
    ASSUME NEW E, NEW list \in Seq(E), NEW k, NEW u,
           \A n \in 1 .. Len(list) : <<u, list[n].currency>> # k
    PROVE  Moved(list, k, u) = 0 /\ PaidFor(list, k, u) = 0
<1> DEFINE N == Len(list)
           D == 1 .. N
           v == Moves(list, k, u)
           p == Prices(list, k, u)
<1>1. IsFiniteSet(D)
  <2>1. N \in Nat
    OBVIOUS
  <2> QED BY <2>1, FS_Interval
<1>2. \A n \in D : v[n] = 0 /\ p[n] = 0
  BY DEF Moves, Prices, Share
<1>3. Moved(list, k, u) = SumFunctionOnSet(v, D) /\ PaidFor(list, k, u) = SumFunctionOnSet(p, D)
  BY DEF Moved, PaidFor
<1> HIDE DEF D, v, p
<1>4. SumFunctionOnSet(v, D) = 0 /\ SumFunctionOnSet(p, D) = 0
  BY <1>1, <1>2, SumZero
<1> QED BY <1>3, <1>4

(* The entries a filter keeps move what their places do. *)
LEMMA ChosenMoved ==
    ASSUME NEW list \in Seq(CashEntry), NEW S, NEW k, NEW u, NEW m,
           \A i \in DOMAIN list : m[i] = Share(k, u, list[i].currency, list[i].delta)
    PROVE  Moved(Chosen(list, S), k, u) = SumFunctionOnSet(m, Places(list, Len(list), S))
<1> DEFINE taken == Chosen(list, S)
           v == Moves(taken, k, u)
<1>1. \A i \in DOMAIN list : m[i] \in Int
  <2>1. \A i \in DOMAIN list : list[i] \in CashEntry
    OBVIOUS
  <2>2. \A c \in CashEntry : c.delta \in Int
    BY DEF CashEntry
  <2>3. \A i \in DOMAIN list : list[i].delta \in Int
    BY <2>1, <2>2
  <2> QED BY <2>3 DEF Share
<1>2. taken \in Seq(S \cap ToSet(list))
  <2>1. list \in Seq(ToSet(list))
    BY Members
  <2> QED BY <2>1, ChosenList
<1>3. DOMAIN taken = 1 .. Len(taken)
  BY <1>2
<1> HIDE DEF taken
<1>4. \A n \in DOMAIN taken : v[n] = Share(k, u, taken[n].currency, taken[n].delta)
  BY <1>3 DEF Moves
<1> HIDE DEF v
<1>5. \A n \in DOMAIN Chosen(list, S) : \A i \in DOMAIN list :
        Chosen(list, S)[n] = list[i] => v[n] = m[i]
  BY <1>4 DEF taken
<1>6. /\ \A n \in 1 .. Len(Chosen(list, S)) : v[n] \in Int
      /\ SumFunctionOnSet(v, 1 .. Len(Chosen(list, S))) = SumFunctionOnSet(m, Places(list, Len(list), S))
  BY <1>1, <1>5, ChosenSum
<1> QED BY <1>6 DEF v, taken, Moved

(* What an event moves in a foreign currency is what comes in and what goes *)
(* out.                                                                    *)
LEMMA LegsAdd ==
    ASSUME NEW cash \in Seq(CashEntry), NEW w, NEW u, NEW c, c # CNY
    PROVE  /\ Moved(cash, <<w, c>>, u)
                = Moved(Inflows(cash), <<w, c>>, u) + Moved(Outflows(cash), <<w, c>>, u)
           /\ Moved(Inflows(cash), <<w, c>>, u) \in Int
           /\ Moved(Outflows(cash), <<w, c>>, u) \in Int
<1> DEFINE k == <<w, c>>
           D == 1 .. Len(cash)
           m == Moves(cash, k, u)
           In == Places(cash, Len(cash), Entering(cash))
           Out == Places(cash, Len(cash), Leaving(cash))
<1>1. D = DOMAIN cash /\ IsFiniteSet(D) /\ \A i \in D : cash[i] \in CashEntry /\ cash[i] \in ToSet(cash)
  <2>1. Len(cash) \in Nat /\ DOMAIN cash = D
    OBVIOUS
  <2>2. IsFiniteSet(D)
    BY <2>1, FS_Interval
  <2>3. \A i \in DOMAIN cash : cash[i] \in CashEntry /\ cash[i] \in ToSet(cash)
    BY DEF ToSet
  <2> QED BY <2>1, <2>2, <2>3
<1>2. \A i \in D : m[i] = Share(k, u, cash[i].currency, cash[i].delta) /\ cash[i].delta \in Int
  BY <1>1 DEF Moves, CashEntry
<1>3. /\ \A i \in D : i \in In <=> cash[i].currency # CNY /\ cash[i].delta > 0
      /\ \A i \in D : i \in Out <=> cash[i].currency # CNY /\ cash[i].delta < 0
      /\ In \subseteq D /\ Out \subseteq D
  BY <1>1 DEF Places, Entering, Leaving
<1>4. Moved(cash, k, u) = SumFunctionOnSet(m, D)
  BY DEF Moved
<1>5. /\ Moved(Inflows(cash), k, u) = SumFunctionOnSet(m, In)
      /\ Moved(Outflows(cash), k, u) = SumFunctionOnSet(m, Out)
  <2>1. /\ Inflows(cash) = Chosen(cash, Entering(cash))
        /\ Outflows(cash) = Chosen(cash, Leaving(cash))
    BY DEF Inflows, Outflows, Entering, Leaving
  <2>2. \A i \in DOMAIN cash : m[i] = Share(k, u, cash[i].currency, cash[i].delta)
    BY <1>1, <1>2
  <2> HIDE DEF m, k
  <2>3. Moved(Chosen(cash, Entering(cash)), k, u)
          = SumFunctionOnSet(m, Places(cash, Len(cash), Entering(cash)))
    BY <2>2, ChosenMoved
  <2>4. Moved(Chosen(cash, Leaving(cash)), k, u)
          = SumFunctionOnSet(m, Places(cash, Len(cash), Leaving(cash)))
    BY <2>2, ChosenMoved
  <2> QED BY <2>1, <2>3, <2>4
<1>6. ASSUME NEW i \in D PROVE m[i] \in Int /\ (i \notin In \cup Out => m[i] = 0)
  <2>1. m[i] \in Int
    BY <1>2 DEF Share
  <2>2. ASSUME i \notin In \cup Out PROVE m[i] = 0
    <3>1. cash[i].currency = CNY \/ cash[i].delta = 0
      BY <1>2, <1>3, <2>2
    <3>2. m[i] = Share(k, u, cash[i].currency, cash[i].delta)
      BY <1>2
    <3> QED BY <3>1, <3>2 DEF Share
  <2> QED BY <2>1, <2>2
<1>7. In \cap Out = {} /\ IsFiniteSet(In) /\ IsFiniteSet(Out) /\ In \cup Out \in SUBSET D
  <2>1. \A i \in In \cap Out : FALSE
    BY <1>2, <1>3
  <2> HIDE DEF In, Out, D
  <2> QED BY <1>1, <1>3, <2>1, FS_Subset
<1> HIDE DEF D, In, Out, m, k
<1>8. SumFunctionOnSet(m, D) = SumFunctionOnSet(m, In \cup Out)
  BY <1>1, <1>6, <1>7, SumSupport
<1>9. SumFunctionOnSet(m, In \cup Out) = SumFunctionOnSet(m, In) + SumFunctionOnSet(m, Out)
  BY <1>6, <1>7, SumSplit
<1>10. SumFunctionOnSet(m, In) \in Int /\ SumFunctionOnSet(m, Out) \in Int
  BY <1>3, <1>6, <1>7, SumInt
<1> QED BY <1>4, <1>5, <1>8, <1>9, <1>10 DEF k
=============================================================================
