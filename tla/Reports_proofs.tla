----------------------------- MODULE Reports_proofs -----------------------------
(***************************************************************************)
(* What the reports say of the tables they read, whatever rows these hold: *)
(* each report is a sum, or a row chosen by an order, over typed tables,   *)
(* and what two reports arrive at is shown equal term by term.             *)
(***************************************************************************)
EXTENDS PositionsRoute, SumTheorems

-----------------------------------------------------------------------------
(* The tables the reports read.                                            *)

SnapshotRow == [user : Users, asset : Assets, time : Int, quantity : Int, value : Int,
                currency : STRING, rate : Int \cup {NoBasis}, estimated : BOOLEAN]

ReportsTyped == TypeOK /\ IsTable(valuations, SnapshotRow) /\ IsTable(rates, RateRow)

-----------------------------------------------------------------------------
(* Snapshots and rates in effect.                                          *)

Later(table, v, w) ==
    table[v].time > table[w].time \/ (table[v].time = table[w].time /\ v > w)

(* The snapshot that is before all others in the order of valuation_time    *)
(* and id, both descending, is the one that is chosen.                     *)
LEMMA NewestIsMember ==
    ASSUME IsTable(valuations, SnapshotRow), NEW S \in SUBSET DOMAIN valuations, S # {}
    PROVE  /\ Newest(S) \in S
           /\ \A w \in S \ {Newest(S)} : Later(valuations, Newest(S), w)
<1> DEFINE key(v) == <<-valuations[v].time, -v>>
           before(a, b) == \E n \in DOMAIN a : a[n] < b[n] /\ \A k \in 1 .. n - 1 : a[k] = b[k]
           R == {p \in S \X S : Later(valuations, p[2], p[1])}
<1>1. \A w \in S : w \in Nat /\ valuations[w].time \in Int
  BY DEF IsTable, SnapshotRow
<1>2. PICK v \in S : \A w \in S \ {v} : Later(valuations, v, w)
  <2>1. IsFiniteSet(S)
    BY FS_Subset DEF IsTable
  <2>2. \A x, y \in S : <<x, y>> \in R <=> Later(valuations, y, x)
    OBVIOUS
  <2> HIDE DEF R
  <2>3. \A x, y \in S : x # y => <<x, y>> \in R \/ <<y, x>> \in R
    BY <1>1, <2>2 DEF Later
  <2>4. \A x, y, z \in S : <<x, y>> \in R /\ <<y, z>> \in R => <<x, z>> \in R
    BY <1>1, <2>2 DEF Later
  <2>5. \E m \in S : \A y \in S : y # m => <<y, m>> \in R
    BY <2>1, <2>3, <2>4, LastOf
  <2> QED BY <2>2, <2>5
<1>3. ASSUME NEW w \in S \ {v} PROVE before(key(v), key(w))
  <2>1. v \in Nat /\ w \in Nat /\ valuations[v].time \in Int /\ valuations[w].time \in Int
    BY <1>1
  <2>2. Later(valuations, v, w)
    BY <1>2
  <2>3. CASE valuations[v].time > valuations[w].time
    <3>1. 1 \in DOMAIN key(v) /\ key(v)[1] < key(w)[1]
      BY <2>1, <2>3
    <3> QED
      BY <3>1
  <2>4. CASE valuations[v].time = valuations[w].time /\ v > w
    <3>1. 2 \in DOMAIN key(v) /\ key(v)[2] < key(w)[2] /\ key(v)[1] = key(w)[1]
      BY <2>1, <2>4
    <3> QED
      BY <3>1
  <2> QED
    BY <2>2, <2>3, <2>4 DEF Later
<1>4. Newest(S) = CHOOSE i \in S : \A j \in S \ {i} : before(key(i), key(j))
  BY DEF Newest, FirstBy
<1>5. ASSUME NEW m \in S, NEW w \in S, before(key(m), key(w)) PROVE Later(valuations, m, w)
  <2>1. PICK n \in DOMAIN key(m) : key(m)[n] < key(w)[n] /\ \A k \in 1 .. n - 1 : key(m)[k] = key(w)[k]
    BY <1>5
  <2>2. n = 1 \/ n = 2
    OBVIOUS
  <2>3. /\ m \in Nat /\ w \in Nat /\ valuations[m].time \in Int /\ valuations[w].time \in Int
    BY <1>1
  <2>4. CASE n = 1
    <3>1. -valuations[m].time < -valuations[w].time
      BY <2>1, <2>4
    <3> QED BY <2>3, <3>1 DEF Later
  <2>5. CASE n = 2
    <3>1. 1 \in 1 .. n - 1
      BY <2>5
    <3>2. -m < -w /\ -valuations[m].time = -valuations[w].time
      BY <2>1, <2>5, <3>1
    <3> QED BY <2>3, <3>2 DEF Later
  <2> QED BY <2>2, <2>4, <2>5
<1> HIDE DEF before, key
<1>6. Newest(S) \in S /\ \A w \in S \ {Newest(S)} : before(key(Newest(S)), key(w))
  BY <1>3, <1>4
<1> QED
  BY <1>5, <1>6

(* The row of some of them that no other is dated after. *)
LastDated(S, m) == m \in S /\ \A j \in S : rates[j].time <= rates[m].time

(* The rate that is before all others in the order of a ranking is the one  *)
(* that is chosen, and none is dated after it.                             *)
LEMMA RankedIsMember ==
    ASSUME IsTable(rates, RateRow), NEW S \in SUBSET DOMAIN rates, S # {}
    PROVE  /\ LastDated(S, FirstBy(S, LAMBDA i : Ranking(rates, i)))
           /\ LastDated(S, FirstBy(S, LAMBDA i : <<-rates[i].time, -i>>))
<1> DEFINE t(i) == -rates[i].time
           g(i) == IF rates[i].estimated THEN 1 ELSE 0
           p(i) == SourcePriority(rates[i].source)
           full(i) == <<t(i), g(i), p(i), -i>>
           short(i) == <<t(i), -i>>
           Sooner4(i, j) == \/ t(i) < t(j)
                            \/ t(i) = t(j) /\ g(i) < g(j)
                            \/ t(i) = t(j) /\ g(i) = g(j) /\ p(i) < p(j)
                            \/ t(i) = t(j) /\ g(i) = g(j) /\ p(i) = p(j) /\ -i < -j
           Sooner2(i, j) == t(i) < t(j) \/ (t(i) = t(j) /\ -i < -j)
           before(a, b) == \E n \in DOMAIN a : a[n] < b[n] /\ \A k \in 1 .. n - 1 : a[k] = b[k]
           R4 == {x \in S \X S : Sooner4(x[2], x[1])}
           R2 == {x \in S \X S : Sooner2(x[2], x[1])}
<1>1. \A i \in S : t(i) \in Int /\ g(i) \in Int /\ p(i) \in Int /\ i \in Int
  BY DEF IsTable, RateRow, SourcePriority, Sources
<1>2. IsFiniteSet(S)
  BY FS_Subset DEF IsTable
<1>3. /\ \A x, y \in S : <<x, y>> \in R4 <=> Sooner4(y, x)
      /\ \A x, y \in S : <<x, y>> \in R2 <=> Sooner2(y, x)
  OBVIOUS
<1>4. \A i, j \in S : Sooner4(i, j) => before(full(i), full(j))
  <2> SUFFICES ASSUME NEW i \in S, NEW j \in S, Sooner4(i, j) PROVE before(full(i), full(j))
    OBVIOUS
  <2> HIDE DEF t, g, p
  <2>1. DOMAIN full(i) = 1 .. 4
    OBVIOUS
  <2>2. CASE t(i) < t(j)
    <3>1. 1 \in DOMAIN full(i) /\ full(i)[1] < full(j)[1]
      BY <2>2
    <3> HIDE DEF full
    <3> QED BY <3>1
  <2>3. CASE t(i) = t(j) /\ g(i) < g(j)
    <3>1. 2 \in DOMAIN full(i) /\ full(i)[2] < full(j)[2] /\ \A k \in 1 .. 1 : full(i)[k] = full(j)[k]
      BY <2>3
    <3> HIDE DEF full
    <3> QED BY <3>1
  <2>4. CASE t(i) = t(j) /\ g(i) = g(j) /\ p(i) < p(j)
    <3>1. /\ 3 \in DOMAIN full(i) /\ full(i)[3] < full(j)[3]
          /\ full(i)[1] = full(j)[1] /\ full(i)[2] = full(j)[2]
      BY <2>4
    <3>2. \A k \in 1 .. 2 : k = 1 \/ k = 2
      OBVIOUS
    <3> HIDE DEF full
    <3> QED BY <3>1, <3>2
  <2>5. CASE t(i) = t(j) /\ g(i) = g(j) /\ p(i) = p(j) /\ -i < -j
    <3>1. /\ 4 \in DOMAIN full(i) /\ full(i)[4] < full(j)[4]
          /\ full(i)[1] = full(j)[1] /\ full(i)[2] = full(j)[2] /\ full(i)[3] = full(j)[3]
      BY <2>5
    <3>2. \A k \in 1 .. 3 : k = 1 \/ k = 2 \/ k = 3
      OBVIOUS
    <3> HIDE DEF full
    <3> QED BY <3>1, <3>2
  <2> HIDE DEF before, full
  <2> QED BY <2>2, <2>3, <2>4, <2>5
<1>5. \A i, j \in S : Sooner2(i, j) => before(short(i), short(j))
  <2> SUFFICES ASSUME NEW i \in S, NEW j \in S, Sooner2(i, j) PROVE before(short(i), short(j))
    OBVIOUS
  <2> HIDE DEF t
  <2>1. CASE t(i) < t(j)
    <3>1. 1 \in DOMAIN short(i) /\ short(i)[1] < short(j)[1]
      BY <2>1
    <3> HIDE DEF short
    <3> QED BY <3>1
  <2>2. CASE t(i) = t(j) /\ -i < -j
    <3>1. 2 \in DOMAIN short(i) /\ short(i)[2] < short(j)[2] /\ short(i)[1] = short(j)[1]
      BY <2>2
    <3> HIDE DEF short
    <3> QED BY <3>1
  <2> HIDE DEF before, short
  <2> QED BY <2>1, <2>2
<1>6. \E i \in S : \A j \in S \ {i} : Sooner4(i, j)
  <2> HIDE DEF R4, t, g, p
  <2>1. \A x, y \in S : x # y => <<x, y>> \in R4 \/ <<y, x>> \in R4
    BY <1>1, <1>3
  <2>2. \A x, y, z \in S : <<x, y>> \in R4 /\ <<y, z>> \in R4 => <<x, z>> \in R4
    BY <1>1, <1>3
  <2>3. \E m \in S : \A y \in S : y # m => <<y, m>> \in R4
    <3> HIDE DEF Sooner4
    <3> QED BY <1>2, <2>1, <2>2, LastOf
  <2> HIDE DEF Sooner4
  <2> QED BY <1>3, <2>3
<1>7. \E i \in S : \A j \in S \ {i} : Sooner2(i, j)
  <2> HIDE DEF R2, t
  <2>1. \A x, y \in S : x # y => <<x, y>> \in R2 \/ <<y, x>> \in R2
    BY <1>1, <1>3
  <2>2. \A x, y, z \in S : <<x, y>> \in R2 /\ <<y, z>> \in R2 => <<x, z>> \in R2
    BY <1>1, <1>3
  <2>3. \E m \in S : \A y \in S : y # m => <<y, m>> \in R2
    <3> HIDE DEF Sooner2
    <3> QED BY <1>2, <2>1, <2>2, LastOf
  <2> HIDE DEF Sooner2
  <2> QED BY <1>3, <2>3
<1>8. FirstBy(S, LAMBDA i : Ranking(rates, i))
        = CHOOSE i \in S : \A j \in S \ {i} : before(full(i), full(j))
  BY DEF FirstBy, Ranking
<1>9. FirstBy(S, LAMBDA i : <<-rates[i].time, -i>>)
        = CHOOSE i \in S : \A j \in S \ {i} : before(short(i), short(j))
  BY DEF FirstBy
<1>10. \A i, j \in S : /\ before(full(i), full(j)) => t(i) <= t(j)
                       /\ before(short(i), short(j)) => t(i) <= t(j)
  <2> SUFFICES ASSUME NEW i \in S, NEW j \in S
               PROVE  /\ before(full(i), full(j)) => t(i) <= t(j)
                      /\ before(short(i), short(j)) => t(i) <= t(j)
    OBVIOUS
  <2>1. t(i) \in Int /\ t(j) \in Int
    BY <1>1
  <2> HIDE DEF t, g, p
  <2>2. /\ DOMAIN full(i) = 1 .. 4 /\ full(i)[1] = t(i) /\ full(j)[1] = t(j)
        /\ DOMAIN short(i) = 1 .. 2 /\ short(i)[1] = t(i) /\ short(j)[1] = t(j)
    OBVIOUS
  <2> HIDE DEF full, short
  <2>3. \A n \in Nat : n = 1 \/ n = 0 \/ 1 \in 1 .. n - 1
    OBVIOUS
  <2> QED BY <2>1, <2>2, <2>3
<1>11. /\ \A i \in S : t(i) \in Int /\ t(i) = -rates[i].time /\ rates[i].time \in Int
  BY <1>1 DEF IsTable, RateRow
<1>12. \A m \in S : (\A j \in S \ {m} : t(m) <= t(j)) => LastDated(S, m)
  <2> SUFFICES ASSUME NEW m \in S, \A j \in S \ {m} : t(m) <= t(j), NEW j \in S
               PROVE  rates[j].time <= rates[m].time
    BY DEF LastDated
  <2> HIDE DEF t
  <2> QED BY <1>11
<1> HIDE DEF before, full, short, Sooner4, Sooner2, t
<1> DEFINE first == CHOOSE i \in S : \A j \in S \ {i} : before(full(i), full(j))
           last == CHOOSE i \in S : \A j \in S \ {i} : before(short(i), short(j))
<1>13. first \in S /\ \A j \in S \ {first} : before(full(first), full(j))
  BY <1>4, <1>6
<1>14. last \in S /\ \A j \in S \ {last} : before(short(last), short(j))
  BY <1>5, <1>7
<1> HIDE DEF first, last
<1>15. LastDated(S, first) /\ LastDated(S, last)
  BY <1>10, <1>12, <1>13, <1>14
<1> QED BY <1>8, <1>9, <1>15 DEF first, last

(* A rate that is found is a number. *)
LEMMA RateTyped ==
    ASSUME IsTable(rates, RateRow), NEW currency, NEW cutoff
    PROVE  /\ RateFor(rates, currency, cutoff) # NoRate => RateFor(rates, currency, cutoff) \in Int
           /\ LatestRate(rates, currency, cutoff) # NoRate =>
                LatestRate(rates, currency, cutoff) \in Int
<1> DEFINE rows == Candidates(rates, currency, cutoff)
           first == FirstBy(rows, LAMBDA i : Ranking(rates, i))
           last == FirstBy(rows, LAMBDA i : <<-rates[i].time, -i>>)
<1>1. rows \in SUBSET DOMAIN rates
  BY DEF Candidates
<1>2. rows # {} => first \in rows /\ last \in rows
  <2> HIDE DEF rows
  <2>1. rows # {} => LastDated(rows, first) /\ LastDated(rows, last)
    BY <1>1, RankedIsMember
  <2> HIDE DEF first, last
  <2> QED BY <2>1 DEF LastDated
<1>3. \A i \in DOMAIN rates : rates[i].rate \in Int
  BY DEF IsTable, RateRow
<1>4. /\ RateFor(rates, currency, cutoff)
           = IF currency = "CNY" THEN 1 ELSE IF rows = {} THEN NoRate ELSE rates[first].rate
      /\ LatestRate(rates, currency, cutoff)
           = IF currency = "CNY" THEN 1 ELSE IF rows = {} THEN NoRate ELSE rates[last].rate
  BY DEF RateFor, LatestRate
<1> HIDE DEF rows, first, last
<1> QED BY <1>1, <1>2, <1>3, <1>4
-----------------------------------------------------------------------------
(* Realized and held.                                                      *)

(* A closed asset has no snapshot that the report would value it by. *)
LEMMA ClosedUnvalued ==
    ASSUME ReportsTyped, NEW u \in Users, NEW cutoff \in Times, NEW a \in RealizedAssets(u, cutoff)
    PROVE  Valued(u, a, cutoff) = <<>> /\ ~Shown(u, a, cutoff)
<1> DEFINE raw == RawQuantity(Own(u), a)
           rows == Qualifying(u, a, cutoff, 0, raw)
           all == SnapshotsOf(u, a, cutoff)
<1>1. Quantity(Own(u), a) = 0 /\ (rows # {} => ~(raw < 0 /\ Positive(Newest(rows))))
  BY DEF RealizedAssets, Closed
<1>2. rows = {v \in all : AmountValued(a) /\ raw < 0 /\ Positive(v)}
  BY DEF Qualifying
<1>3. all \in SUBSET DOMAIN valuations /\ rows \in SUBSET DOMAIN valuations
  BY <1>2 DEF SnapshotsOf
<1> HIDE DEF all, rows, raw
<1>4. rows = {}
  <2>1. ASSUME rows # {} PROVE FALSE
    <3>1. Newest(rows) \in rows
      BY <1>3, <2>1, NewestIsMember DEF ReportsTyped
    <3>2. raw < 0 /\ Positive(Newest(rows))
      BY <1>2, <3>1
    <3> QED
      BY <1>1, <2>1, <3>2
  <2> QED
    BY <2>1
<1>5. Valued(u, a, cutoff) = <<>>
  <2>1. Qualifying(u, a, cutoff, Quantity(Own(u), a), RawQuantity(Own(u), a)) = {}
    BY <1>1, <1>4 DEF rows, raw
  <2> QED
    BY <1>1, <2>1 DEF Valued
<1>6. ~Shown(u, a, cutoff)
  <2>1. ASSUME Oversold(u, a), all # {}, Positive(Newest(all)) PROVE FALSE
    <3>1. Newest(all) \in all
      BY <1>3, <2>1, NewestIsMember DEF ReportsTyped
    <3>2. AmountValued(a) /\ raw < 0
      BY <2>1 DEF Oversold, raw
    <3>3. Newest(all) \in rows
      BY <1>2, <2>1, <3>1, <3>2
    <3> QED
      BY <1>4, <3>3
  <2> QED
    BY <1>1, <2>1 DEF Shown, all
<1> QED
  BY <1>5, <1>6

(* An asset in the realized list has no value and no line. *)
LEMMA RealizedUnheld == ReportsTyped => RealizedNotHeld
BY ClosedUnvalued DEF RealizedNotHeld
-----------------------------------------------------------------------------
(* Ledger entries.                                                         *)

(* The cash entries of events are finitely many, and typed. *)
LEMMA CashRowsTyped ==
    ASSUME IsTable(events, Event), NEW E \in SUBSET DOMAIN events
    PROVE  /\ IsFiniteSet(CashRows(E))
           /\ \A r \in CashRows(E) : r[1] \in E /\ r[2] \in DOMAIN events[r[1]].cash
           /\ \A r \in CashRows(E) : r = <<r[1], r[2]>> /\ CashAt(r) \in CashEntry
           /\ \A e \in E : \A i \in DOMAIN events[e].cash : <<e, i>> \in CashRows(E)
<1> DEFINE rows == [e \in DOMAIN events |-> {e} \X DOMAIN events[e].cash]
           Sets == {rows[e] : e \in E}
<1>1. \A e \in E : events[e].cash \in Seq(CashEntry)
  BY DEF IsTable, Event
<1>2. IsFiniteSet(Sets)
  <2>1. IsFiniteSet(E)
    BY FS_Subset DEF IsTable
  <2> HIDE DEF rows
  <2> QED BY <2>1, FiniteImage
<1>3. \A e \in E : IsFiniteSet(rows[e])
  <2> SUFFICES ASSUME NEW e \in E PROVE IsFiniteSet(rows[e])
    OBVIOUS
  <2> DEFINE one == {e}
             D == DOMAIN events[e].cash
  <2>1. IsFiniteSet(one)
    BY FS_Singleton
  <2>2. IsFiniteSet(D)
    <3>1. D = 1 .. Len(events[e].cash) /\ Len(events[e].cash) \in Nat
      BY <1>1
    <3> HIDE DEF D
    <3> QED BY <3>1, FS_Interval
  <2>3. rows[e] = one \X D
    OBVIOUS
  <2> HIDE DEF one, D, rows
  <2> QED BY <2>1, <2>2, <2>3, FS_Product
<1>4. CashRows(E) = UNION Sets
  BY DEF CashRows
<1>5. IsFiniteSet(UNION Sets)
  <2>1. \A T \in Sets : IsFiniteSet(T)
    BY <1>3
  <2> HIDE DEF Sets
  <2> QED BY <1>2, <2>1, FS_UNION
<1>6. /\ \A r \in CashRows(E) : r[1] \in E /\ r[2] \in DOMAIN events[r[1]].cash /\ r = <<r[1], r[2]>>
      /\ \A e \in E : \A i \in DOMAIN events[e].cash : <<e, i>> \in CashRows(E)
  BY DEF CashRows
<1>7. \A r \in CashRows(E) : CashAt(r) \in CashEntry
  BY <1>1, <1>6 DEF CashAt
<1> QED BY <1>4, <1>5, <1>6, <1>7

(* An entry of asset a in one of the events of E. *)
EntriesOf(E, a) ==
    {x \in AssetEntry : x.asset = a /\ \E e \in E : x \in ToSet(events[e].assets)}

GatherOn(evs, asset, r, seq, e) ==
    seq \o Chosen(evs[e].assets, {x \in ToSet(evs[e].assets) : x.asset = asset})

Gathering == INSTANCE FoldTheorems WITH Op <- GatherOn

(* The entries of one asset in the events of E. *)
LEMMA AssetEntriesTyped ==
    ASSUME IsTable(events, Event), NEW E \in SUBSET DOMAIN events, NEW a
    PROVE  AssetEntries(E, a) \in Seq(EntriesOf(E, a))
<1> DEFINE X == Seq(EntriesOf(E, a))
           list == InTimeOrder(events, E)
<1>1. list \in Seq(E)
  <2>1. KeySet(E)
    BY FS_Subset DEF IsTable, KeySet
  <2>2. \A x \in E : events[x].time \in Nat
    BY FundingAttributionAssumption DEF IsTable, Event
  <2> QED BY <2>1, <2>2, EventsInOrder
<1>2. ASSUME NEW seq \in X, NEW e \in E PROVE GatherOn(events, a, a, seq, e) \in X
  <2> DEFINE assets == events[e].assets
             S == {x \in ToSet(assets) : x.asset = a}
  <2>1. assets \in Seq(AssetEntry)
    BY DEF IsTable, Event
  <2>2. S \subseteq ToSet(assets) /\ \A x \in S : x.asset = a
    OBVIOUS
  <2> HIDE DEF S
  <2>3. Chosen(assets, S) \in Seq(S) /\ S \subseteq AssetEntry
    <3> HIDE DEF assets
    <3> QED BY <2>1, <2>2, ChosenMembers
  <2>4. S \subseteq EntriesOf(E, a)
    BY <2>2, <2>3 DEF EntriesOf
  <2>5. Chosen(assets, S) \in X
    BY <2>3, <2>4
  <2>6. GatherOn(events, a, a, seq, e) = seq \o Chosen(assets, S)
    BY DEF GatherOn, S
  <2> HIDE DEF assets
  <2> QED BY <2>5, <2>6
<1>3. Gathering!Folded(events, a, a, <<>>, list) \in X
  <2>1. <<>> \in X
    OBVIOUS
  <2> HIDE DEF X, list
  <2> QED BY <1>1, <1>2, <2>1, Gathering!Stays
<1>4. AssetEntries(E, a) = Gathering!Folded(events, a, a, <<>>, list)
  BY DEF AssetEntries, GatherOn, Gathering!Folded, Gathering!FoldLeft, Gathering!MapThenFoldSet,
         FoldLeft, MapThenFoldSet, Gathering!Max, Max
<1> QED BY <1>3, <1>4

QuantityOn(asset, q, r, sum, x) == AddQuantity(asset, sum, x.quantity)

Counting == INSTANCE FoldTheorems WITH Op <- QuantityOn

RawOn(p, q, r, sum, x) == sum + x.quantity

CountingRaw == INSTANCE FoldTheorems WITH Op <- RawOn

(* The quantities of an asset, which are zero when no event names the asset. *)
LEMMA QuantityTyped ==
    ASSUME IsTable(events, Event), NEW E \in SUBSET DOMAIN events, NEW a
    PROVE  /\ Quantity(E, a) \in Int /\ RawQuantity(E, a) \in Int
           /\ Quantity(E, a) # 0 \/ RawQuantity(E, a) # 0 => EntriesOf(E, a) # {}
<1> DEFINE list == AssetEntries(E, a)
           S == EntriesOf(E, a)
           zero == {0}
<1>1. list \in Seq(S)
  BY AssetEntriesTyped
<1>2. \A x \in S : x.quantity \in Int
  BY DEF EntriesOf, AssetEntry
<1>3. /\ \A n \in Int : \A x \in S : QuantityOn(a, a, a, n, x) \in Int
      /\ \A n \in Int : \A x \in S : RawOn(a, a, a, n, x) \in Int
  BY <1>2 DEF QuantityOn, AddQuantity, RawOn
<1>4. /\ Quantity(E, a) = Counting!Folded(a, a, a, 0, list)
      /\ RawQuantity(E, a) = CountingRaw!Folded(a, a, a, 0, list)
  <2>1. Quantity(E, a) = Counting!Folded(a, a, a, 0, list)
    BY DEF Quantity, QuantityOn, Counting!Folded, Counting!FoldLeft, Counting!MapThenFoldSet,
           FoldLeft, MapThenFoldSet, Counting!Max, Max
  <2>2. RawQuantity(E, a) = CountingRaw!Folded(a, a, a, 0, list)
    BY DEF RawQuantity, RawOn, CountingRaw!Folded, CountingRaw!FoldLeft,
           CountingRaw!MapThenFoldSet, FoldLeft, MapThenFoldSet, CountingRaw!Max, Max
  <2> QED BY <2>1, <2>2
<1> HIDE DEF list, S, zero
<1>5. Counting!Folded(a, a, a, 0, list) \in Int
  <2>1. 0 \in Int
    OBVIOUS
  <2> QED BY <1>1, <1>3, <2>1, Counting!Stays
<1>6. CountingRaw!Folded(a, a, a, 0, list) \in Int
  <2>1. 0 \in Int
    OBVIOUS
  <2> QED BY <1>1, <1>3, <2>1, CountingRaw!Stays
<1>7. ASSUME S = {}
      PROVE  /\ Counting!Folded(a, a, a, 0, list) \in zero
             /\ CountingRaw!Folded(a, a, a, 0, list) \in zero
  <2>1. /\ 0 \in zero /\ \A n \in zero : \A x \in S : QuantityOn(a, a, a, n, x) \in zero
        /\ \A n \in zero : \A x \in S : RawOn(a, a, a, n, x) \in zero
    BY <1>7 DEF zero
  <2>2. Counting!Folded(a, a, a, 0, list) \in zero
    BY <1>1, <2>1, Counting!Stays
  <2>3. CountingRaw!Folded(a, a, a, 0, list) \in zero
    BY <1>1, <2>1, CountingRaw!Stays
  <2> QED BY <2>2, <2>3
<1> QED BY <1>4, <1>5, <1>6, <1>7 DEF zero, S

(* Finitely many assets have a quantity. *)
LEMMA FewHeld ==
    ASSUME IsTable(events, Event), NEW E \in SUBSET DOMAIN events
    PROVE  IsFiniteSet({a \in Assets : Quantity(E, a) # 0})
<1> DEFINE Rows(e) == {e} \X DOMAIN events[e].assets
           Sets == {Rows(e) : e \in E}
           f == [r \in UNION Sets |-> events[r[1]].assets[r[2]].asset]
           named == {f[r] : r \in UNION Sets}
<1>1. \A e \in E : events[e].assets \in Seq(AssetEntry)
  BY DEF IsTable, Event
<1>2. IsFiniteSet(Sets)
  <2> DEFINE rows == [e \in E |-> Rows(e)]
  <2>1. IsFiniteSet(E)
    BY FS_Subset DEF IsTable
  <2>2. Sets = {rows[e] : e \in E}
    <3> HIDE DEF Rows
    <3> QED OBVIOUS
  <2> HIDE DEF rows, Sets
  <2> QED BY <2>1, <2>2, FiniteImage
<1>3. ASSUME NEW e \in E PROVE IsFiniteSet(Rows(e))
  <2> DEFINE one == {e}
             D == DOMAIN events[e].assets
  <2>1. IsFiniteSet(one)
    BY FS_Singleton
  <2>2. IsFiniteSet(D)
    <3>1. D = 1 .. Len(events[e].assets) /\ Len(events[e].assets) \in Nat
      BY <1>1
    <3> HIDE DEF D
    <3> QED BY <3>1, FS_Interval
  <2>3. Rows(e) = one \X D
    OBVIOUS
  <2> HIDE DEF one, D, Rows
  <2> QED BY <2>1, <2>2, <2>3, FS_Product
<1>4. IsFiniteSet(UNION Sets)
  <2>1. \A T \in Sets : IsFiniteSet(T)
    <3> HIDE DEF Rows
    <3> QED BY <1>3
  <2> HIDE DEF Sets
  <2> QED BY <1>2, <2>1, FS_UNION
<1>5. ASSUME NEW a \in Assets, Quantity(E, a) # 0
      PROVE  a \in named
  <2>1. PICK x \in EntriesOf(E, a) : TRUE
    BY <1>5, QuantityTyped
  <2>2. PICK e \in E : x \in ToSet(events[e].assets) /\ x.asset = a
    BY <2>1 DEF EntriesOf
  <2>3. PICK i \in DOMAIN events[e].assets : events[e].assets[i].asset = a
    BY <2>2 DEF ToSet
  <2>4. <<e, i>> \in UNION Sets
    BY <2>3
  <2>5. f[<<e, i>>] = a
    <3> HIDE DEF Sets
    <3> QED BY <2>3, <2>4
  <2> HIDE DEF f, Sets
  <2> QED BY <2>4, <2>5
<1>6. IsFiniteSet(named)
  <2> DEFINE U == UNION Sets
  <2>1. IsFiniteSet(U)
    BY <1>4
  <2> HIDE DEF U, f
  <2>2. IsFiniteSet({f[r] : r \in U})
    BY <2>1, FiniteImage
  <2> QED BY <2>2 DEF U
<1>7. {a \in Assets : Quantity(E, a) # 0} \subseteq named
  <2> HIDE DEF named
  <2> QED BY <1>5
<1> HIDE DEF named
<1> QED BY <1>6, <1>7, FS_Subset
-----------------------------------------------------------------------------
(* What assets are worth.                                                  *)

RowsFor(u, a, cutoff) ==
    Qualifying(u, a, cutoff, Quantity(Own(u), a), RawQuantity(Own(u), a))

(* The three ways an asset is valued. *)
LEMMA ValuedCases ==
    ASSUME ReportsTyped, NEW u, NEW a, NEW cutoff
    PROVE  /\ RowsFor(u, a, cutoff) # {} =>
                /\ Newest(RowsFor(u, a, cutoff)) \in RowsFor(u, a, cutoff)
                /\ Valued(u, a, cutoff) = <<valuations[Newest(RowsFor(u, a, cutoff))].currency,
                                            valuations[Newest(RowsFor(u, a, cutoff))].value>>
           /\ (RowsFor(u, a, cutoff) = {} /\ Quantity(Own(u), a) # 0 /\ AmountValued(a)) =>
                Valued(u, a, cutoff) = <<CurrencyOf[a], Quantity(Own(u), a)>>
           /\ (RowsFor(u, a, cutoff) = {} /\ ~(Quantity(Own(u), a) # 0 /\ AmountValued(a))) =>
                Valued(u, a, cutoff) = <<>>
<1> DEFINE rows == RowsFor(u, a, cutoff)
           q == Quantity(Own(u), a)
           open == q # 0 /\ AmountValued(a)
           snapshot == <<valuations[Newest(rows)].currency, valuations[Newest(rows)].value>>
           ledger == <<CurrencyOf[a], q>>
<1>1. rows \in SUBSET DOMAIN valuations
  BY DEF RowsFor, Qualifying, SnapshotsOf
<1>2. Valued(u, a, cutoff) = CASE rows # {} -> snapshot
                               [] rows = {} /\ q # 0 /\ AmountValued(a) -> ledger
                               [] OTHER -> <<>>
  BY DEF Valued, RowsFor
<1>3. rows # {} => Newest(rows) \in rows
  <2> HIDE DEF rows
  <2> QED BY <1>1, NewestIsMember DEF ReportsTyped
<1> HIDE DEF rows, q, snapshot, ledger
<1> QED BY <1>2, <1>3 DEF rows, q, snapshot, ledger

(* A user's valued assets are finitely many, each worth a whole number. *)
LEMMA ValuedTyped ==
    ASSUME ReportsTyped, NEW u, NEW cutoff
    PROVE  /\ IsFiniteSet(ValuedAssets(u, cutoff))
           /\ \A p \in ValuedAssets(u, cutoff) :
                /\ p[1] \in Assets /\ p = <<p[1], Valued(u, p[1], cutoff)>>
                /\ p[2] # <<>> /\ p[2][2] \in Int
           /\ \A a \in Assets : Valued(u, a, cutoff) # <<>> =>
                <<a, Valued(u, a, cutoff)>> \in ValuedAssets(u, cutoff)
<1> DEFINE held == {a \in Assets : Quantity(Own(u), a) # 0}
           f == [v \in DOMAIN valuations |-> valuations[v].asset]
           seen == {f[v] : v \in DOMAIN valuations}
           g == [a \in held \cup seen |-> <<a, Valued(u, a, cutoff)>>]
           all == {g[a] : a \in held \cup seen}
<1>1. IsTable(events, Event) /\ IsTable(valuations, SnapshotRow)
  BY DEF ReportsTyped, TypeOK
<1>2. Own(u) \in SUBSET DOMAIN events
  BY DEF Own
<1>3. \A a : Quantity(Own(u), a) \in Int
  BY <1>1, <1>2, QuantityTyped
<1>4. IsFiniteSet(held \cup seen)
  <2>1. IsFiniteSet(held)
    BY <1>1, <1>2, FewHeld
  <2>2. IsFiniteSet(seen)
    <3> HIDE DEF f
    <3> QED BY <1>1, FiniteImage DEF IsTable
  <2> HIDE DEF held, seen, f
  <2> QED BY <2>1, <2>2, FiniteUnion
<1>5. IsFiniteSet(all)
  <2> DEFINE S == held \cup seen
  <2>1. IsFiniteSet(S)
    BY <1>4
  <2> HIDE DEF S, g
  <2>2. IsFiniteSet({g[a] : a \in S})
    BY <2>1, FiniteImage
  <2> QED BY <2>2 DEF S
<1>6. ASSUME NEW a \in Assets, Valued(u, a, cutoff) # <<>>
      PROVE  a \in held \cup seen /\ Valued(u, a, cutoff)[2] \in Int
  <2> DEFINE rows == RowsFor(u, a, cutoff)
  <2>1. CASE rows # {}
    <3>1. Newest(rows) \in rows
      BY <2>1, ValuedCases
    <3>2. Newest(rows) \in DOMAIN valuations /\ valuations[Newest(rows)].asset = a
      BY <3>1 DEF RowsFor, Qualifying, SnapshotsOf
    <3>3. valuations[Newest(rows)].value \in Int
      BY <1>1, <3>2 DEF IsTable, SnapshotRow
    <3>4. a \in seen
      BY <3>2
    <3> HIDE DEF held, seen
    <3> QED BY <2>1, <3>3, <3>4, ValuedCases
  <2>2. CASE rows = {}
    <3>1. Quantity(Own(u), a) # 0 /\ AmountValued(a)
      BY <1>6, <2>2, ValuedCases
    <3>2. Valued(u, a, cutoff) = <<CurrencyOf[a], Quantity(Own(u), a)>>
      BY <2>2, <3>1, ValuedCases
    <3>3. a \in held
      BY <3>1
    <3> HIDE DEF held, seen
    <3> QED BY <1>3, <3>2, <3>3
  <2> QED BY <2>1, <2>2
<1> HIDE DEF held, seen
<1>7. \A p \in ValuedAssets(u, cutoff) :
        \E a \in Assets : p = <<a, Valued(u, a, cutoff)>> /\ Valued(u, a, cutoff) # <<>>
  BY DEF ValuedAssets
<1>8. ValuedAssets(u, cutoff) \subseteq all
  BY <1>6, <1>7
<1> HIDE DEF all
<1>9. IsFiniteSet(ValuedAssets(u, cutoff))
  BY <1>5, <1>8, FS_Subset
<1>10. \A p \in ValuedAssets(u, cutoff) :
         /\ p[1] \in Assets /\ p = <<p[1], Valued(u, p[1], cutoff)>>
         /\ p[2] # <<>> /\ p[2][2] \in Int
  BY <1>6, <1>7
<1>11. \A a \in Assets : Valued(u, a, cutoff) # <<>> =>
         <<a, Valued(u, a, cutoff)>> \in ValuedAssets(u, cutoff)
  BY DEF ValuedAssets
<1> QED BY <1>9, <1>10, <1>11
-----------------------------------------------------------------------------
(* The audit.                                                              *)

(* The worth of an asset in the audit. *)
Worth(u, a, cutoff) ==
    IF Qualifying(u, a, cutoff, Quantity(Own(u), a), 0) # {}
    THEN valuations[Newest(Qualifying(u, a, cutoff, Quantity(Own(u), a), 0))].value
    ELSE IF AmountValued(a) THEN Quantity(Own(u), a) ELSE 0

LEMMA Breakdown ==
    ASSUME NEW u, NEW currency, NEW cutoff, OwnUpTo(u, cutoff) = Own(u)
    PROVE  AssetBreakdown(u, currency, cutoff)
             = SumFunctionOnSet([a \in AuditedAssets(u, currency, cutoff) |-> Worth(u, a, cutoff)],
                                AuditedAssets(u, currency, cutoff))
<1> DEFINE rows(a) == Qualifying(u, a, cutoff, Quantity(Own(u), a), 0)
           cased(a) == CASE rows(a) # {} -> valuations[Newest(rows(a))].value
                         [] rows(a) = {} /\ AmountValued(a) -> Quantity(Own(u), a)
                         [] OTHER -> 0
           S == AuditedAssets(u, currency, cutoff)
<1>1. AssetBreakdown(u, currency, cutoff) = SumFunctionOnSet([a \in S |-> cased(a)], S)
  BY DEF AssetBreakdown, Total
<1>2. \A a : cased(a) = IF rows(a) # {} THEN valuations[Newest(rows(a))].value
                        ELSE IF AmountValued(a) THEN Quantity(Own(u), a) ELSE 0
  <2> HIDE DEF rows
  <2> QED OBVIOUS
<1>3. \A a : cased(a) = Worth(u, a, cutoff)
  <2> HIDE DEF cased
  <2> QED BY <1>2 DEF Worth
<1> HIDE DEF cased, S
<1>4. [a \in S |-> cased(a)] = [a \in S |-> Worth(u, a, cutoff)]
  BY <1>3
<1> QED BY <1>1, <1>4 DEF S

(* Past every event, what the assets of a currency are worth in the audit   *)
(* is what they are worth in the report.                                   *)
LEMMA AssetsReconcile ==
    ASSUME ReportsTyped, NEW u \in Users, NEW cutoff, NEW currency,
           \A e \in Own(u) : events[e].time <= cutoff,
           InOwnCurrency, \A a \in Assets : ~Oversold(u, a)
    PROVE  AssetBreakdown(u, currency, cutoff) = AssetValue(ValuedAssets(u, cutoff), currency)
<1> DEFINE A == AuditedAssets(u, currency, cutoff)
           val == [a \in A |-> Worth(u, a, cutoff)]
           T == {a \in A : Valued(u, a, cutoff) # <<>>}
           h == [a \in T |-> <<a, Valued(u, a, cutoff)>>]
           V == {p \in ValuedAssets(u, cutoff) : p[2][1] = currency}
           g == [p \in V |-> p[2][2]]
<1>1. OwnUpTo(u, cutoff) = Own(u)
  BY DEF OwnUpTo
<1>2. IsTable(events, Event) /\ IsTable(valuations, SnapshotRow) /\ Own(u) \in SUBSET DOMAIN events
  BY DEF ReportsTyped, TypeOK, Own
<1>3. A = {a \in Assets : CurrencyOf[a] = currency /\ Quantity(Own(u), a) # 0}
  BY <1>1 DEF AuditedAssets
<1>4. \A a : Quantity(Own(u), a) \in Int /\ RawQuantity(Own(u), a) \in Int
  BY <1>2, QuantityTyped
<1>5. ASSUME NEW a \in Assets
      PROVE  /\ Quantity(Own(u), a) # 0 =>
                  RowsFor(u, a, cutoff) = Qualifying(u, a, cutoff, Quantity(Own(u), a), 0)
             /\ Quantity(Own(u), a) = 0 => RowsFor(u, a, cutoff) = {}
  BY <1>4 DEF RowsFor, Qualifying, Oversold
<1>6. ASSUME NEW a \in Assets, Quantity(Own(u), a) # 0
      PROVE  /\ Worth(u, a, cutoff) \in Int
             /\ Valued(u, a, cutoff) # <<>> => Valued(u, a, cutoff) = <<CurrencyOf[a], Worth(u, a, cutoff)>>
             /\ Valued(u, a, cutoff) = <<>> => Worth(u, a, cutoff) = 0
  <2> DEFINE rows == RowsFor(u, a, cutoff)
  <2>1. Worth(u, a, cutoff) = IF rows # {} THEN valuations[Newest(rows)].value
                              ELSE IF AmountValued(a) THEN Quantity(Own(u), a) ELSE 0
    BY <1>5, <1>6 DEF Worth
  <2>2. CASE rows # {}
    <3>1. Newest(rows) \in rows
      BY <2>2, ValuedCases
    <3>2. Newest(rows) \in DOMAIN valuations /\ valuations[Newest(rows)].asset = a
      BY <3>1 DEF RowsFor, Qualifying, SnapshotsOf
    <3>3. valuations[Newest(rows)].value \in Int /\ valuations[Newest(rows)].currency = CurrencyOf[a]
      BY <1>2, <3>2 DEF IsTable, SnapshotRow, InOwnCurrency
    <3>4. Valued(u, a, cutoff) = <<valuations[Newest(rows)].currency, valuations[Newest(rows)].value>>
      BY <2>2, ValuedCases
    <3> HIDE DEF rows
    <3> QED BY <2>1, <2>2, <3>3, <3>4
  <2>3. CASE rows = {}
    BY <1>4, <1>6, <2>1, <2>3, ValuedCases
  <2> QED BY <2>2, <2>3
<1>7. IsFiniteSet(A)
  <2> DEFINE held == {a \in Assets : Quantity(Own(u), a) # 0}
  <2>1. A \subseteq held
    BY <1>3
  <2>2. IsFiniteSet(held)
    BY <1>2, FewHeld
  <2> HIDE DEF A, held
  <2> QED BY <2>1, <2>2, FS_Subset
<1>8. /\ \A a \in A : val[a] \in Int /\ a \in Assets /\ Quantity(Own(u), a) # 0 /\ CurrencyOf[a] = currency
      /\ \A a \in A : a \notin T => val[a] = 0
      /\ T \in SUBSET A /\ IsFiniteSet(T)
      /\ \A a \in T : val[a] \in Int
  <2> HIDE DEF A
  <2>1. \A a \in A : a \in Assets /\ Quantity(Own(u), a) # 0 /\ CurrencyOf[a] = currency
    BY <1>3
  <2>2. T \in SUBSET A /\ IsFiniteSet(T)
    BY <1>7, FS_Subset
  <2> QED BY <1>6, <2>1, <2>2
<1>9. SumFunctionOnSet(val, A) = SumFunctionOnSet(val, T)
  <2> HIDE DEF A, T, val
  <2> QED BY <1>7, <1>8, SumSupport
<1>10. ASSUME NEW a \in T
       PROVE  h[a] \in V /\ g[h[a]] = val[a] /\ h[a] = <<a, Valued(u, a, cutoff)>>
  <2>1. a \in A /\ a \in Assets /\ Quantity(Own(u), a) # 0 /\ CurrencyOf[a] = currency
    BY <1>3
  <2>2. Valued(u, a, cutoff) = <<CurrencyOf[a], Worth(u, a, cutoff)>>
    BY <1>6, <2>1
  <2>3. <<a, Valued(u, a, cutoff)>> \in ValuedAssets(u, cutoff)
    BY <2>1, ValuedTyped
  <2>4. val[a] = Worth(u, a, cutoff) /\ h[a] = <<a, Valued(u, a, cutoff)>>
    BY <2>1
  <2>5. h[a] \in V
    <3> HIDE DEF h, A
    <3> QED BY <2>1, <2>2, <2>3, <2>4
  <2> HIDE DEF A, V, h, val
  <2> QED BY <2>2, <2>4, <2>5
<1>11. ASSUME NEW p \in V PROVE \E a \in T : h[a] = p
  <2> DEFINE a == p[1]
  <2>1. /\ a \in Assets /\ p = <<a, Valued(u, a, cutoff)>>
        /\ Valued(u, a, cutoff) # <<>> /\ Valued(u, a, cutoff)[1] = currency
    BY ValuedTyped
  <2> HIDE DEF a
  <2>2. Quantity(Own(u), a) # 0
    BY <1>5, <2>1, ValuedCases
  <2>3. CurrencyOf[a] = currency
    BY <1>6, <2>1, <2>2
  <2>4. a \in T
    BY <1>3, <2>1, <2>2, <2>3
  <2> QED BY <2>1, <2>4
<1>12. SumFunctionOnSet(g, V) = SumFunctionOnSet(val, T)
  <2>1. IsFiniteSet(V)
    BY ValuedTyped, FS_Subset
  <2>2. \A a, b \in T : h[a] = h[b] => a = b
    <3> SUFFICES ASSUME NEW a \in T, NEW b \in T, h[a] = h[b] PROVE a = b
      OBVIOUS
    <3>1. h[a] = <<a, Valued(u, a, cutoff)>> /\ h[b] = <<b, Valued(u, b, cutoff)>>
      BY <1>10
    <3>2. <<a, Valued(u, a, cutoff)>> = <<b, Valued(u, b, cutoff)>>
      BY <3>1
    <3>3. \A x, y, v, w : <<x, v>> = <<y, w>> => x = y
      OBVIOUS
    <3> HIDE DEF h, T
    <3> QED BY <3>2, <3>3
  <2> HIDE DEF g, V, val, T, h
  <2>3. \A a \in T : h[a] \in V /\ g[h[a]] = val[a]
    BY <1>10
  <2> QED BY <1>8, <1>11, <2>1, <2>2, <2>3, SumMatched
<1>13. AssetBreakdown(u, currency, cutoff) = SumFunctionOnSet(val, A)
  BY <1>1, Breakdown
<1>14. AssetValue(ValuedAssets(u, cutoff), currency) = SumFunctionOnSet(g, V)
  BY DEF AssetValue, Total
<1> QED BY <1>9, <1>12, <1>13, <1>14

(* An audited currency, beside its row of the report. *)
LEMMA RowAudited ==
    ASSUME NEW u, NEW cutoff, NEW audit \in GenerateAudit(u, cutoff)
    PROVE  \E c : /\ audit.performance = CurrencyRow(u, c, cutoff, ValuedAssets(u, cutoff))
                  /\ audit = AuditedCurrency(u, audit.performance, cutoff)
                  /\ audit.currency = c /\ audit.performance.currency = c
<1>1. PICK row \in Performance(u, cutoff).by_currency : audit = AuditedCurrency(u, row, cutoff)
  BY DEF GenerateAudit
<1>2. Performance(u, cutoff).by_currency
        = {CurrencyRow(u, c, cutoff, ValuedAssets(u, cutoff)) :
             c \in ReportedCurrencies(u, ValuedAssets(u, cutoff))}
  BY DEF Performance, Overview
<1>3. PICK c : row = CurrencyRow(u, c, cutoff, ValuedAssets(u, cutoff))
  BY <1>1, <1>2
<1>4. row.currency = c
  BY <1>3 DEF CurrencyRow, RowOf
<1>5. audit.performance = row /\ audit.currency = row.currency
  BY <1>1 DEF AuditedCurrency
<1> QED BY <1>1, <1>3, <1>4, <1>5

(* The trail of a currency that has a rate. *)
LEMMA TrailFields ==
    ASSUME NEW row, NEW cny, NEW c, c # CNY, row.rate # NoRate
    PROVE  Trail(row, cny, c)
             = [value |-> InCny(row.cash + row.assets, row.rate),
                investment |-> InCny((row.cash + row.assets) - row.native, row.rate),
                fx |-> (InCny(row.cash + row.assets, row.rate) - cny)
                         - InCny((row.cash + row.assets) - row.native, row.rate)]
<1> DEFINE value == InCny(row.cash + row.assets, row.rate)
           gain == InCny((row.cash + row.assets) - row.native, row.rate)
<1>1. Trail(row, cny, c)
        = [value |-> value, investment |-> IF c = CNY THEN 0 ELSE gain,
           fx |-> IF c = CNY THEN 0 ELSE (value - cny) - (IF c = CNY THEN 0 ELSE gain)]
  BY Zenon DEF Trail
<1> HIDE DEF value, gain
<1>2. Trail(row, cny, c) = [value |-> value, investment |-> gain, fx |-> (value - cny) - gain]
  BY <1>1
<1> QED BY <1>2 DEF value, gain

(* The trail and the breakdowns arrive at the report. *)
LEMMA AuditExplained == ReportsTyped => AuditReconciles
<1>1. ASSUME ReportsTyped, NEW u \in Users, NEW cutoff \in Times,
             NEW audit \in GenerateAudit(u, cutoff), audit.currency # CNY
      PROVE  /\ audit.status = "COMPLETE" =>
                  \A m \in {"value", "investment", "fx"} : audit.trail[m] = audit.performance[m]
             /\ (/\ \A e \in Own(u) : events[e].time <= cutoff
                 /\ InOwnCurrency /\ \A a \in Assets : ~Oversold(u, a))
                => /\ audit.cash = audit.performance.cash
                   /\ audit.assets = audit.performance.assets
                   /\ audit.native = audit.performance.native
  <2> DEFINE row == audit.performance
             valued == ValuedAssets(u, cutoff)
  <2>1. PICK c : /\ row = CurrencyRow(u, c, cutoff, valued) /\ audit = AuditedCurrency(u, row, cutoff)
                 /\ audit.currency = c /\ row.currency = c
    BY RowAudited
  <2> DEFINE rows == OwnCash(u, c)
             rate == RateFor(rates, c, cutoff)
             cash == Balance(rows)
             assets == AssetValue(valued, c)
             native == HistoricalNative(rows)
             cny == HistoricalCny(rows)
  <2>2. c # CNY
    BY <1>1, <2>1
  <2>3. row = RowOf(c, cash, assets, native, cny, rate)
    BY <2>1, <2>2 DEF CurrencyRow
  <2>4. /\ audit.status = (IF row.rate = NoRate THEN "INCOMPLETE" ELSE "COMPLETE")
        /\ audit.trail = Trail(row, cny, c)
        /\ audit.cash = CashBreakdown(u, c, cutoff)
        /\ audit.assets = AssetBreakdown(u, c, cutoff)
        /\ audit.native = native
    BY <2>1 DEF AuditedCurrency
  <2>5. row.cash = cash /\ row.assets = assets /\ row.native = native /\ row.rate = rate
    <3> HIDE DEF rows, rate, cash, assets, native, cny, row
    <3> QED BY <2>3 DEF RowOf
  <2>6. ASSUME audit.status = "COMPLETE"
        PROVE  \A m \in {"value", "investment", "fx"} : audit.trail[m] = row[m]
    <3>1. rate # NoRate
      BY <2>4, <2>5, <2>6
    <3>2. /\ audit.trail.value = InCny(cash + assets, rate)
          /\ audit.trail.investment = InCny((cash + assets) - native, rate)
          /\ audit.trail.fx = (InCny(cash + assets, rate) - cny) - InCny((cash + assets) - native, rate)
      <4> HIDE DEF rows, rate, cash, assets, native, cny, row
      <4>1. Trail(row, cny, c)
              = [value |-> InCny(row.cash + row.assets, row.rate),
                 investment |-> InCny((row.cash + row.assets) - row.native, row.rate),
                 fx |-> (InCny(row.cash + row.assets, row.rate) - cny)
                          - InCny((row.cash + row.assets) - row.native, row.rate)]
        BY <2>2, <2>5, <3>1, TrailFields
      <4> QED BY <2>4, <2>5, <4>1
    <3>3. /\ row.value = InCny(cash + assets, rate)
          /\ row.investment = InCny((cash + assets) - native, rate)
          /\ row.fx = (InCny(cash + assets, rate) - cny) - InCny((cash + assets) - native, rate)
      <4> HIDE DEF rows, rate, cash, assets, native, cny, row
      <4> QED BY <2>2, <2>3, <3>1 DEF RowOf
    <3> HIDE DEF rows, rate, cash, assets, native, cny, row
    <3> QED BY <3>2, <3>3
  <2>7. ASSUME \A e \in Own(u) : events[e].time <= cutoff, InOwnCurrency,
               \A a \in Assets : ~Oversold(u, a)
        PROVE  audit.cash = row.cash /\ audit.assets = row.assets /\ audit.native = row.native
    <3>1. OwnUpTo(u, cutoff) = Own(u)
      BY <2>7 DEF OwnUpTo
    <3>2. CashBreakdown(u, c, cutoff) = cash
      BY <3>1 DEF CashBreakdown, OwnCash
    <3>3. AssetBreakdown(u, c, cutoff) = assets
      BY <1>1, <2>7, AssetsReconcile
    <3> QED BY <2>4, <2>5, <3>2, <3>3
  <2> QED BY <2>6, <2>7
<1> QED BY <1>1 DEF AuditReconciles
-----------------------------------------------------------------------------
(* The overview.                                                           *)

SignedOn(p, q, r, sum, c) == sum + SignedRmb(c)

Signing == INSTANCE FoldTheorems WITH Op <- SignedOn

LEMMA SignedAdds ==
    ASSUME NEW E, NEW seq \in Seq(E), NEW v,
           \A n \in 1 .. Len(seq) : v[n] \in Int /\ v[n] = SignedRmb(seq[n])
    PROVE  Signing!Folded(E, E, E, 0, seq) = SumFunctionOnSet(v, 1 .. Len(seq))
<1> DEFINE N == Len(seq)
<1>1. N \in Nat /\ \A n \in 1 .. N : v[n] \in Int
  OBVIOUS
<1>2. /\ 0 \in Sums(v, N)[0]
      /\ \A n \in 1 .. N : \A x \in Sums(v, N)[n - 1] : x + v[n] \in Sums(v, N)[n]
      /\ \A x \in Sums(v, N)[N] : x = SumFunctionOnSet(v, 1 .. N)
  <2> HIDE DEF N
  <2> QED BY <1>1, PrefixSums
<1>3. \A x : \A n \in 1 .. N : SignedOn(E, E, E, x, seq[n]) = x + v[n]
  BY DEF SignedOn
<1>4. \A n \in 1 .. N : \A x \in Sums(v, N)[n - 1] : SignedOn(E, E, E, x, seq[n]) \in Sums(v, N)[n]
  BY <1>2, <1>3
<1>5. Signing!Folded(E, E, E, 0, seq) \in Sums(v, N)[N]
  BY <1>2, <1>4, Signing!Advances
<1> QED BY <1>2, <1>5

DeltaOn(p, q, r, sum, c) == sum + c.delta

Moving == INSTANCE FoldTheorems WITH Op <- DeltaOn

LEMMA DeltaAdds ==
    ASSUME NEW E, NEW seq \in Seq(E), NEW v,
           \A n \in 1 .. Len(seq) : v[n] \in Int /\ v[n] = seq[n].delta
    PROVE  Moving!Folded(E, E, E, 0, seq) = SumFunctionOnSet(v, 1 .. Len(seq))
<1> DEFINE N == Len(seq)
<1>1. N \in Nat /\ \A n \in 1 .. N : v[n] \in Int
  OBVIOUS
<1>2. /\ 0 \in Sums(v, N)[0]
      /\ \A n \in 1 .. N : \A x \in Sums(v, N)[n - 1] : x + v[n] \in Sums(v, N)[n]
      /\ \A x \in Sums(v, N)[N] : x = SumFunctionOnSet(v, 1 .. N)
  <2> HIDE DEF N
  <2> QED BY <1>1, PrefixSums
<1>3. \A x : \A n \in 1 .. N : DeltaOn(E, E, E, x, seq[n]) = x + v[n]
  BY DEF DeltaOn
<1>4. \A n \in 1 .. N : \A x \in Sums(v, N)[n - 1] : DeltaOn(E, E, E, x, seq[n]) \in Sums(v, N)[n]
  BY <1>2, <1>3
<1>5. Moving!Folded(E, E, E, 0, seq) \in Sums(v, N)[N]
  BY <1>2, <1>4, Moving!Advances
<1> QED BY <1>2, <1>5

LEMMA SignedTyped == ASSUME NEW c \in CashEntry PROVE SignedRmb(c) \in Int
<1>1. c.delta \in Int /\ c.rmb \in Bases /\ c.rate \in Bases
  BY DEF CashEntry
<1>2. \A m, n \in Int : m * n \in Int
  OBVIOUS
<1> QED BY <1>1, <1>2 DEF SignedRmb, Bases

(* What the chosen entries of an event add up to. *)
LEMMA SumsOfChosen ==
    ASSUME NEW list \in Seq(CashEntry), NEW S,
           NEW s, \A i \in DOMAIN list : s[i] = SignedRmb(list[i]),
           NEW d, \A i \in DOMAIN list : d[i] = list[i].delta
    PROVE  /\ SumOf(Chosen(list, S), SignedRmb)
                = SumFunctionOnSet(s, Places(list, Len(list), S))
           /\ SumOf(Chosen(list, S), LAMBDA c : c.delta)
                = SumFunctionOnSet(d, Places(list, Len(list), S))
<1> DEFINE taken == Chosen(list, S)
           sv == [n \in DOMAIN taken |-> SignedRmb(taken[n])]
           dv == [n \in DOMAIN taken |-> taken[n].delta]
<1>1. \A i \in DOMAIN list : s[i] \in Int /\ d[i] \in Int
  <2>1. \A i \in DOMAIN list : list[i] \in CashEntry
    OBVIOUS
  <2>2. \A i \in DOMAIN list : list[i].delta \in Int
    BY <2>1 DEF CashEntry
  <2>3. \A i \in DOMAIN list : SignedRmb(list[i]) \in Int
    BY <2>1, SignedTyped
  <2> QED BY <2>2, <2>3
<1>2. taken \in Seq(S \cap ToSet(list))
  <2>1. list \in Seq(ToSet(list))
    BY Members
  <2> QED BY <2>1, ChosenList
<1>3. DOMAIN taken = 1 .. Len(taken)
  BY <1>2
<1>4. /\ \A n \in 1 .. Len(taken) : sv[n] \in Int
      /\ SumFunctionOnSet(sv, 1 .. Len(taken)) = SumFunctionOnSet(s, Places(list, Len(list), S))
  <2>1. \A n \in DOMAIN taken : \A i \in DOMAIN list : taken[n] = list[i] => sv[n] = s[i]
    OBVIOUS
  <2> HIDE DEF sv
  <2> QED BY <1>1, <2>1, ChosenSum
<1>5. /\ \A n \in 1 .. Len(taken) : dv[n] \in Int
      /\ SumFunctionOnSet(dv, 1 .. Len(taken)) = SumFunctionOnSet(d, Places(list, Len(list), S))
  <2>1. \A n \in DOMAIN taken : \A i \in DOMAIN list : taken[n] = list[i] => dv[n] = d[i]
    OBVIOUS
  <2> HIDE DEF dv
  <2> QED BY <1>1, <2>1, ChosenSum
<1> DEFINE X == S \cap ToSet(list)
<1>6. Signing!Folded(X, X, X, 0, taken) = SumFunctionOnSet(sv, 1 .. Len(taken))
  <2>1. \A n \in 1 .. Len(taken) : sv[n] \in Int /\ sv[n] = SignedRmb(taken[n])
    BY <1>3, <1>4
  <2> HIDE DEF taken, sv, X
  <2> QED BY <1>2, <2>1, SignedAdds DEF X
<1>7. Moving!Folded(X, X, X, 0, taken) = SumFunctionOnSet(dv, 1 .. Len(taken))
  <2>1. \A n \in 1 .. Len(taken) : dv[n] \in Int /\ dv[n] = taken[n].delta
    BY <1>3, <1>5
  <2> HIDE DEF taken, dv, X
  <2> QED BY <1>2, <2>1, DeltaAdds DEF X
<1>8. SumOf(taken, SignedRmb) = Signing!Folded(X, X, X, 0, taken)
  BY DEF SumOf, SignedOn, Signing!Folded, Signing!FoldLeft, Signing!MapThenFoldSet,
         FoldLeft, MapThenFoldSet, Signing!Max, Max
<1>9. SumOf(taken, LAMBDA c : c.delta) = Moving!Folded(X, X, X, 0, taken)
  BY DEF SumOf, DeltaOn, Moving!Folded, Moving!FoldLeft, Moving!MapThenFoldSet,
         FoldLeft, MapThenFoldSet, Moving!Max, Max
<1> HIDE DEF taken, sv, dv, X
<1>10. /\ SumOf(taken, SignedRmb) = SumFunctionOnSet(s, Places(list, Len(list), S))
       /\ SumOf(taken, LAMBDA c : c.delta) = SumFunctionOnSet(d, Places(list, Len(list), S))
  BY <1>4, <1>5, <1>6, <1>7, <1>8, <1>9
<1> QED BY <1>10 DEF taken

(* The exchanges of foreign money, and the money brought in from outside. *)
PoolOf(u) == {r \in PoolRows(CashRows(Own(u))) : CashAt(r).currency # CNY}
OutsideOf(u) == {r \in OwnCash(u, CNY) : CashAt(r).external}

EventOf(R) == [r \in R |-> r[1]]

(* The entries of an event among some rows, and their places in the event. *)
LEMMA OfEvent ==
    ASSUME IsTable(events, Event), NEW E \in SUBSET DOMAIN events, NEW e \in E,
           NEW R \in SUBSET CashRows(E), NEW S,
           \A i \in DOMAIN events[e].cash : <<e, i>> \in R <=> events[e].cash[i] \in S,
           NEW f, NEW g,
           \A i \in DOMAIN events[e].cash : g[i] \in Int,
           \A i \in DOMAIN events[e].cash : <<e, i>> \in R => f[<<e, i>>] = g[i]
    PROVE  SumFunctionOnSet(g, Places(events[e].cash, Len(events[e].cash), S))
             = SumFunctionOnSet(f, Group(R, EventOf(R), e))
<1> DEFINE list == events[e].cash
           P == Places(list, Len(list), S)
           G == Group(R, EventOf(R), e)
           all == 1 .. Len(list)
           h == [i \in all |-> <<e, i>>]
<1>1. list \in Seq(CashEntry)
  BY DEF IsTable, Event
<1>2. Len(list) \in Nat /\ DOMAIN list = all
  BY <1>1
<1>3. IsFiniteSet(all)
  BY <1>2, FS_Interval
<1>4. P = {i \in all : list[i] \in S}
  BY DEF Places
<1>5. G = {r \in R : r[1] = e}
  BY DEF Group, EventOf
<1>6. \A i \in all : h[i] = <<e, i>>
  OBVIOUS
<1>7. \A i \in all : /\ g[i] \in Int /\ (<<e, i>> \in R <=> list[i] \in S)
                     /\ <<e, i>> \in R => f[<<e, i>>] = g[i]
  BY <1>2
<1>8. \A r \in R : r[1] = e => r[2] \in all /\ r = <<e, r[2]>>
  BY <1>2, CashRowsTyped
<1>9. IsFiniteSet(G)
  BY CashRowsTyped, FS_Subset, <1>5
<1> HIDE DEF list, P, G, all, h
<1>10. IsFiniteSet(P) /\ \A i \in P : i \in all /\ list[i] \in S
  BY <1>3, <1>4, FS_Subset
<1>17. \A i \in P : g[i] \in Int /\ <<e, i>> \in R /\ f[<<e, i>>] = g[i]
  <2> SUFFICES ASSUME NEW i \in P PROVE g[i] \in Int /\ <<e, i>> \in R /\ f[<<e, i>>] = g[i]
    OBVIOUS
  <2>1. i \in DOMAIN events[e].cash /\ i \in all /\ list[i] \in S
    BY <1>2, <1>10 DEF list
  <2> QED BY <2>1 DEF list
<1>11. \A i \in P : h[i] \in G /\ f[h[i]] = g[i]
  <2> SUFFICES ASSUME NEW i \in P PROVE h[i] \in G /\ f[h[i]] = g[i]
    OBVIOUS
  <2>1. h[i] = <<e, i>> /\ <<e, i>>[1] = e
    BY <1>6, <1>10
  <2> QED BY <1>5, <1>17, <2>1
<1>12. \A i, j \in P : h[i] = h[j] => i = j
  BY <1>6, <1>10
<1>13. \A k \in G : \E i \in P : h[i] = k
  BY <1>4, <1>5, <1>6, <1>7, <1>8
<1>14. \A i \in P : g[i] \in Int
  <2> SUFFICES ASSUME NEW i \in P PROVE g[i] \in Int
    OBVIOUS
  <2>1. i \in DOMAIN events[e].cash
    BY <1>2, <1>10 DEF list
  <2> QED BY <2>1
<1>15. SumFunctionOnSet(f, G) = SumFunctionOnSet(g, P)
  BY <1>9, <1>10, <1>11, <1>12, <1>13, <1>14, SumMatched
<1> QED BY <1>15 DEF P, G, list

(* When every exchange was recorded with the RMB it moved, what was         *)
(* invested is what the exchanges were worth.                              *)
LEMMA InvestedInPools ==
    ASSUME IsTable(events, Event), NEW u, \A e \in Own(u) : Balanced(events[e])
    PROVE  /\ IsFiniteSet(PoolOf(u))
           /\ \A r \in PoolOf(u) : SignedRmb(CashAt(r)) \in Int
           /\ NetInvested(u)
                = SumFunctionOnSet([r \in PoolOf(u) |-> SignedRmb(CashAt(r))], PoolOf(u))
<1> DEFINE E == Own(u)
           P == PoolOf(u)
           X == OutsideOf(u)
           f == [r \in P |-> SignedRmb(CashAt(r))]
           d == [r \in X |-> Delta(r)]
           gp == [e \in E |-> SumFunctionOnSet(f, Group(P, EventOf(P), e))]
           gx == [e \in E |-> SumFunctionOnSet(d, Group(X, EventOf(X), e))]
<1>1. E \in SUBSET DOMAIN events /\ IsFiniteSet(E)
  BY FS_Subset DEF Own, IsTable
<1>2. P \in SUBSET CashRows(E) /\ X \in SUBSET CashRows(E)
  BY DEF PoolOf, OutsideOf, PoolRows, OwnCash, InCurrency
<1>3. IsFiniteSet(P) /\ IsFiniteSet(X)
  <2> HIDE DEF P, X, E
  <2> QED BY <1>1, <1>2, CashRowsTyped, FS_Subset
<1>4. /\ \A r \in P : r[1] \in E /\ SignedRmb(CashAt(r)) \in Int
      /\ \A r \in X : r[1] \in E /\ Delta(r) \in Int
  <2>1. \A r \in CashRows(E) : r[1] \in E /\ CashAt(r) \in CashEntry
    <3> HIDE DEF E
    <3> QED BY <1>1, CashRowsTyped
  <2>2. \A c \in CashEntry : c.delta \in Int
    BY DEF CashEntry
  <2> HIDE DEF P, X, E
  <2> QED BY <1>2, <2>1, <2>2, SignedTyped DEF Delta
<1>5. ASSUME NEW e \in E
      PROVE  gp[e] \in Int /\ gx[e] \in Int /\ 0 = gp[e] + gx[e]
  <2> DEFINE ev == events[e]
             list == ev.cash
             Sp == {c \in ToSet(list) : c.currency # CNY /\ ev.type \in InvestmentPoolEvents}
             Sx == {c \in ToSet(list) : c.currency = CNY /\ c.external}
             s == [i \in DOMAIN list |-> SignedRmb(list[i])]
             m == [i \in DOMAIN list |-> list[i].delta]
             N == Len(list)
  <2>1. list \in Seq(CashEntry) /\ \A i \in DOMAIN list : list[i] \in CashEntry
    BY <1>1 DEF IsTable, Event
  <2>2. /\ \A i \in DOMAIN list : s[i] \in Int
        /\ \A i \in DOMAIN list : m[i] \in Int
    <3>1. \A c \in CashEntry : c.delta \in Int
      BY DEF CashEntry
    <3>2. \A i \in DOMAIN list : SignedRmb(list[i]) \in Int /\ list[i].delta \in Int
      <4> HIDE DEF list
      <4> QED BY <2>1, <3>1, SignedTyped
    <3> QED BY <3>2
  <2>3. \A i \in DOMAIN list : <<e, i>> \in CashRows(E) /\ CashAt(<<e, i>>) = list[i]
    BY <1>1, CashRowsTyped DEF CashAt
  <2>4. /\ \A i \in DOMAIN list : <<e, i>> \in P <=> list[i] \in Sp
        /\ \A i \in DOMAIN list : <<e, i>> \in X <=> list[i] \in Sx
    <3>1. \A i \in DOMAIN list : list[i] \in ToSet(list)
      BY DEF ToSet
    <3>2. /\ \A i \in DOMAIN list : <<e, i>> \in P <=>
               list[i].currency # CNY /\ ev.type \in InvestmentPoolEvents
          /\ \A i \in DOMAIN list : <<e, i>> \in X <=> list[i].currency = CNY /\ list[i].external
      BY <2>3 DEF PoolOf, OutsideOf, PoolRows, OwnCash, InCurrency
    <3> HIDE DEF list, P, X
    <3> QED BY <3>1, <3>2
  <2>5. SumFunctionOnSet(s, Places(list, N, Sp)) = gp[e]
    <3>1. \A i \in DOMAIN list : <<e, i>> \in P => f[<<e, i>>] = s[i]
      <4> HIDE DEF P
      <4> QED BY <2>3
    <3> HIDE DEF s, f, P, E, Sp
    <3>2. \A i \in DOMAIN events[e].cash : <<e, i>> \in P <=> events[e].cash[i] \in Sp
      BY <2>4
    <3>3. /\ \A i \in DOMAIN events[e].cash : s[i] \in Int
          /\ \A i \in DOMAIN events[e].cash : <<e, i>> \in P => f[<<e, i>>] = s[i]
      BY <2>2, <3>1
    <3>4. SumFunctionOnSet(s, Places(events[e].cash, Len(events[e].cash), Sp))
            = SumFunctionOnSet(f, Group(P, EventOf(P), e))
      BY <1>1, <1>2, <3>2, <3>3, OfEvent
    <3> QED BY <3>4 DEF f, P, E
  <2>6. SumFunctionOnSet(m, Places(list, N, Sx)) = gx[e]
    <3>1. \A i \in DOMAIN list : <<e, i>> \in X => d[<<e, i>>] = m[i]
      <4> HIDE DEF X
      <4> QED BY <2>3 DEF Delta
    <3> HIDE DEF m, d, X, E, Sx
    <3>2. \A i \in DOMAIN events[e].cash : <<e, i>> \in X <=> events[e].cash[i] \in Sx
      BY <2>4
    <3>3. /\ \A i \in DOMAIN events[e].cash : m[i] \in Int
          /\ \A i \in DOMAIN events[e].cash : <<e, i>> \in X => d[<<e, i>>] = m[i]
      BY <2>2, <3>1
    <3>4. SumFunctionOnSet(m, Places(events[e].cash, Len(events[e].cash), Sx))
            = SumFunctionOnSet(d, Group(X, EventOf(X), e))
      BY <1>1, <1>2, <3>2, <3>3, OfEvent
    <3> QED BY <3>4 DEF d, X, E
  <2>7. SumOf(Chosen(list, Sp), SignedRmb) + SumOf(Chosen(list, Sx), LAMBDA c : c.delta) = 0
    BY DEF Balanced
  <2>8. /\ SumOf(Chosen(list, Sp), SignedRmb) = SumFunctionOnSet(s, Places(list, N, Sp))
        /\ SumOf(Chosen(list, Sx), LAMBDA c : c.delta) = SumFunctionOnSet(m, Places(list, N, Sx))
    <3>1. /\ \A i \in DOMAIN list : s[i] = SignedRmb(list[i])
          /\ \A i \in DOMAIN list : m[i] = list[i].delta
      OBVIOUS
    <3> HIDE DEF list, Sp, Sx, s, m
    <3>2. /\ SumOf(Chosen(list, Sp), SignedRmb) = SumFunctionOnSet(s, Places(list, Len(list), Sp))
          /\ SumOf(Chosen(list, Sp), LAMBDA c : c.delta) = SumFunctionOnSet(m, Places(list, Len(list), Sp))
      BY <2>1, <3>1, SumsOfChosen
    <3>3. /\ SumOf(Chosen(list, Sx), SignedRmb) = SumFunctionOnSet(s, Places(list, Len(list), Sx))
          /\ SumOf(Chosen(list, Sx), LAMBDA c : c.delta) = SumFunctionOnSet(m, Places(list, Len(list), Sx))
      BY <2>1, <3>1, SumsOfChosen
    <3> QED BY <3>2, <3>3
  <2>9. gp[e] \in Int /\ gx[e] \in Int
    <3> DEFINE Gp == Group(P, EventOf(P), e)
               Gx == Group(X, EventOf(X), e)
    <3>1. IsFiniteSet(Gp) /\ IsFiniteSet(Gx)
      BY <1>3, FS_Subset DEF Group
    <3>2. (\A r \in Gp : f[r] \in Int) /\ (\A r \in Gx : d[r] \in Int)
      BY <1>4 DEF Group
    <3> HIDE DEF f, d
    <3> HIDE DEF Gp, Gx
    <3>3. SumFunctionOnSet(f, Gp) \in Int /\ SumFunctionOnSet(d, Gx) \in Int
      BY <3>1, <3>2, SumInt
    <3> QED BY <3>3 DEF Gp, Gx
  <2> HIDE DEF gp, gx, s, m, Sp, Sx, list, N
  <2> QED BY <2>5, <2>6, <2>7, <2>8, <2>9
<1> DEFINE none == [e \in E |-> 0]
<1>6. SumFunctionOnSet(gp, E) + SumFunctionOnSet(gx, E) = 0
  <2>1. \A e \in E : none[e] = 0
    OBVIOUS
  <2> HIDE DEF E, gp, gx, none
  <2>2. SumFunctionOnSet(none, E) = 0
    BY <1>1, <2>1, SumZero
  <2>3. \A e \in E : gp[e] \in Int /\ gx[e] \in Int /\ none[e] = gp[e] + gx[e]
    BY <1>5, <2>1
  <2>4. SumFunctionOnSet(none, E) = SumFunctionOnSet(gp, E) + SumFunctionOnSet(gx, E)
    BY <1>1, <2>3, SumPlus
  <2> QED BY <2>2, <2>4
<1>7. SumFunctionOnSet(gp, E) = SumFunctionOnSet(f, P)
  <2>1. Groups(P, EventOf(P), E) = P
    BY <1>4 DEF Groups, EventOf
  <2>2. (\A r \in P : f[r] \in Int) /\ (\A e \in E : gp[e] = SumFunctionOnSet(f, Group(P, EventOf(P), e)))
    BY <1>4
  <2> HIDE DEF E, P, f, gp
  <2> QED BY <1>1, <1>3, <2>1, <2>2, SumByGroup
<1>8. SumFunctionOnSet(gx, E) = SumFunctionOnSet(d, X)
  <2>1. Groups(X, EventOf(X), E) = X
    BY <1>4 DEF Groups, EventOf
  <2>2. (\A r \in X : d[r] \in Int) /\ (\A e \in E : gx[e] = SumFunctionOnSet(d, Group(X, EventOf(X), e)))
    BY <1>4
  <2> HIDE DEF E, X, d, gx
  <2> QED BY <1>1, <1>3, <2>1, <2>2, SumByGroup
<1>9. NetInvested(u) = -SumFunctionOnSet(d, X)
  BY DEF NetInvested, Total, OutsideOf
<1>10. SumFunctionOnSet(f, P) \in Int /\ SumFunctionOnSet(d, X) \in Int
  <2>1. (\A r \in P : f[r] \in Int) /\ (\A r \in X : d[r] \in Int)
    BY <1>4
  <2> HIDE DEF f, d, P, X
  <2> QED BY <1>3, <2>1, SumInt
<1> HIDE DEF d, X, gp, gx, E
<1>11. NetInvested(u) = SumFunctionOnSet(f, P)
  <2> HIDE DEF f, P
  <2> QED BY <1>6, <1>7, <1>8, <1>9, <1>10
<1> QED BY <1>3, <1>4, <1>11

(* The sums over the ledger and the assets are whole numbers. *)
LEMMA SumsTyped ==
    ASSUME ReportsTyped, NEW u, NEW c, NEW cutoff
    PROVE  /\ Balance(OwnCash(u, c)) \in Int
           /\ HistoricalNative(OwnCash(u, c)) \in Int
           /\ HistoricalCny(OwnCash(u, c)) \in Int
           /\ AssetValue(ValuedAssets(u, cutoff), c) \in Int
<1> DEFINE all == CashRows(Own(u))
           rows == OwnCash(u, c)
           B == {r \in rows : InBalance(CashAt(r))}
           P == PoolRows(rows)
           V == {p \in ValuedAssets(u, cutoff) : p[2][1] = c}
           b == [r \in B |-> Delta(r)]
           n == [r \in P |-> Delta(r)]
           s == [r \in P |-> SignedRmb(CashAt(r))]
           v == [p \in V |-> p[2][2]]
<1>1. IsTable(events, Event) /\ Own(u) \in SUBSET DOMAIN events
  BY DEF ReportsTyped, TypeOK, Own
<1>2. rows \subseteq all /\ B \subseteq all /\ P \subseteq all
  BY DEF OwnCash, InCurrency, PoolRows
<1>3. IsFiniteSet(all) /\ \A r \in all : CashAt(r) \in CashEntry
  BY <1>1, CashRowsTyped
<1>4. \A r \in all : Delta(r) \in Int
  BY <1>3 DEF Delta, CashEntry
<1>5. \A r \in all : SignedRmb(CashAt(r)) \in Int
  BY <1>3, SignedTyped
<1>6. IsFiniteSet(V) /\ \A p \in V : p[2][2] \in Int
  BY ValuedTyped, FS_Subset
<1> HIDE DEF all, B, P, V
<1>7. IsFiniteSet(B) /\ IsFiniteSet(P)
  BY <1>2, <1>3, FS_Subset
<1>8. /\ \A r \in B : b[r] \in Int
      /\ \A r \in P : n[r] \in Int
      /\ \A r \in P : s[r] \in Int
      /\ \A p \in V : v[p] \in Int
  BY <1>2, <1>4, <1>5, <1>6
<1> HIDE DEF b, n, s, v
<1>9. /\ SumFunctionOnSet(b, B) \in Int /\ SumFunctionOnSet(n, P) \in Int
      /\ SumFunctionOnSet(s, P) \in Int /\ SumFunctionOnSet(v, V) \in Int
  BY <1>6, <1>7, <1>8, SumInt
<1> QED BY <1>9 DEF Balance, HistoricalNative, HistoricalCny, AssetValue, Total, b, n, s, v, B, P, V

(* A report has finitely many currencies, every foreign one that was moved *)
(* among them.                                                             *)
LEMMA CurrenciesFinite ==
    ASSUME ReportsTyped, NEW u, NEW cutoff
    PROVE  /\ IsFiniteSet(ReportedCurrencies(u, ValuedAssets(u, cutoff)))
           /\ \A r \in CashRows(Own(u)) : CashAt(r).currency # CNY =>
                CashAt(r).currency \in ReportedCurrencies(u, ValuedAssets(u, cutoff))
<1> DEFINE rows == {x \in CashRows(Own(u)) : InBalance(CashAt(x))}
           held == {b \in Assets : Quantity(Own(u), b) # 0}
           V == ValuedAssets(u, cutoff)
           f == [r \in rows |-> CashAt(r).currency]
           g == [p \in V |-> p[2][1]]
           h == [a \in held |-> CurrencyOf[a]]
           F == {f[r] : r \in rows}
           G == {g[p] : p \in V}
           H == {h[a] : a \in held}
<1>1. IsTable(events, Event) /\ Own(u) \in SUBSET DOMAIN events
  BY DEF ReportsTyped, TypeOK, Own
<1>2. IsFiniteSet(rows) /\ IsFiniteSet(V) /\ IsFiniteSet(held)
  <2>1. IsFiniteSet(rows)
    BY <1>1, CashRowsTyped, FS_Subset
  <2>2. IsFiniteSet(V)
    BY ValuedTyped
  <2>3. IsFiniteSet(held)
    BY <1>1, FewHeld
  <2> QED BY <2>1, <2>2, <2>3
<1>3. ReportedCurrencies(u, V) = F \cup G \cup H
  <2>1. F = {CashAt(r).currency : r \in rows}
    OBVIOUS
  <2>2. G = {p[2][1] : p \in V}
    <3> HIDE DEF V
    <3> QED OBVIOUS
  <2>3. H = {CurrencyOf[a] : a \in held}
    <3> HIDE DEF held
    <3> QED OBVIOUS
  <2> HIDE DEF F, G, H, f, g, h
  <2> QED BY <2>1, <2>2, <2>3 DEF ReportedCurrencies
<1>4. \A r \in CashRows(Own(u)) : CashAt(r).currency # CNY => CashAt(r).currency \in F
  BY DEF InBalance
<1> HIDE DEF rows, held, V, f, g, h
<1>5. IsFiniteSet(F) /\ IsFiniteSet(G) /\ IsFiniteSet(H)
  BY <1>2, FiniteImage
<1> HIDE DEF F, G, H
<1>6. IsFiniteSet(F \cup G \cup H)
  <2>1. IsFiniteSet(F \cup G)
    BY <1>5, FiniteUnion
  <2> QED BY <1>5, <2>1, FiniteUnion
<1> QED BY <1>3, <1>4, <1>6 DEF V

(* The exchanges of a currency, over the currencies of a report. *)
LEMMA PoolsByCurrency ==
    ASSUME ReportsTyped, NEW u, NEW cutoff, IsFiniteSet(PoolOf(u)),
           NEW w, \A c \in ReportedCurrencies(u, ValuedAssets(u, cutoff)) :
                     w[c] = IF c = CNY THEN 0 ELSE HistoricalCny(OwnCash(u, c))
    PROVE  SumFunctionOnSet(w, ReportedCurrencies(u, ValuedAssets(u, cutoff)))
             = SumFunctionOnSet([r \in PoolOf(u) |-> SignedRmb(CashAt(r))], PoolOf(u))
<1> DEFINE C == ReportedCurrencies(u, ValuedAssets(u, cutoff))
           P == PoolOf(u)
           f == [r \in P |-> SignedRmb(CashAt(r))]
           key == [r \in P |-> CashAt(r).currency]
<1>1. IsTable(events, Event) /\ Own(u) \in SUBSET DOMAIN events
  BY DEF ReportsTyped, TypeOK, Own
<1>2. P \subseteq CashRows(Own(u)) /\ IsFiniteSet(P) /\ \A r \in P : CashAt(r).currency # CNY
  BY DEF PoolOf, PoolRows
<1>3. \A r \in P : f[r] \in Int
  <2>1. \A r \in CashRows(Own(u)) : CashAt(r) \in CashEntry
    BY <1>1, CashRowsTyped
  <2>2. \A r \in P : SignedRmb(CashAt(r)) \in Int
    <3> HIDE DEF P
    <3> QED BY <1>2, <2>1, SignedTyped
  <2> QED BY <2>2
<1>4. \A r \in P : key[r] \in C
  <2>1. \A r \in P : CashAt(r).currency \in C
    <3> HIDE DEF P, C
    <3> QED BY <1>2, CurrenciesFinite DEF C
  <2> QED BY <2>1
<1>5. ASSUME NEW c \in C PROVE w[c] = SumFunctionOnSet(f, Group(P, key, c))
  <2>1. CASE c = CNY
    <3> DEFINE G == Group(P, key, c)
    <3>1. G = {}
      BY <1>2, <2>1 DEF Group
    <3>2. w[c] = 0
      BY <2>1
    <3> HIDE DEF f, G
    <3>3. SumFunctionOnSet(f, G) = 0
      BY <3>1, SumEmpty
    <3> QED BY <3>2, <3>3 DEF G
  <2>2. CASE c # CNY
    <3> DEFINE G == PoolRows(OwnCash(u, c))
               s == [r \in G |-> SignedRmb(CashAt(r))]
    <3>1. G = Group(P, key, c)
      BY <2>2 DEF Group, PoolOf, PoolRows, OwnCash, InCurrency
    <3>2. IsFiniteSet(G) /\ G \subseteq P
      <4>1. G \subseteq P
        BY <3>1 DEF Group
      <4> HIDE DEF G, P
      <4> QED BY <1>2, <4>1, FS_Subset
    <3>3. \A r \in G : s[r] = f[r]
      BY <3>2
    <3>4. w[c] = SumFunctionOnSet(s, G)
      BY <2>2 DEF HistoricalCny, Total
    <3> HIDE DEF s, f, G
    <3>5. SumFunctionOnSet(s, G) = SumFunctionOnSet(f, G)
      BY <3>2, <3>3, SumSame
    <3> QED BY <3>1, <3>4, <3>5
  <2> QED BY <2>1, <2>2
<1>6. Groups(P, key, C) = P
  BY <1>4 DEF Groups
<1>7. IsFiniteSet(C)
  BY CurrenciesFinite
<1> HIDE DEF C, P, f, key
<1>8. SumFunctionOnSet(w, C) = SumFunctionOnSet(f, P)
  BY <1>2, <1>3, <1>5, <1>6, <1>7, SumByGroup
<1> QED BY <1>8 DEF C, P, f

(* A row of the report that has a rate. *)
LEMMA RatedRow ==
    ASSUME ReportsTyped, NEW u, NEW c, NEW cutoff, NEW row,
           row = CurrencyRow(u, c, cutoff, ValuedAssets(u, cutoff)), row.rate # NoRate,
           c = CNY => row.value = 0
    PROVE  /\ row.value \in Int /\ row.investment \in Int
           /\ row.fx = row.value
                - (IF c = CNY THEN 0 ELSE HistoricalCny(OwnCash(u, c))) - row.investment
<1> DEFINE cash == Balance(OwnCash(u, c))
           assets == AssetValue(ValuedAssets(u, cutoff), c)
           native == IF c = CNY THEN 0 ELSE HistoricalNative(OwnCash(u, c))
           cny == IF c = CNY THEN 0 ELSE HistoricalCny(OwnCash(u, c))
           rate == RateFor(rates, c, cutoff)
           value == InCny(cash + assets, rate)
           gain == InCny((cash + assets) - native, rate)
<1>1. row = RowOf(c, cash, assets, native, cny, rate)
  BY DEF CurrencyRow
<1>2. cash \in Int /\ assets \in Int /\ native \in Int /\ cny \in Int
  BY SumsTyped
<1> HIDE DEF cash, assets, native, cny, rate
<1>3. row.rate = rate
  BY <1>1 DEF RowOf
<1>4. rate \in Int
  BY <1>3, RateTyped DEF rate, ReportsTyped
<1>5. value \in Int /\ gain \in Int
  <2>1. \A m, n \in Int : InCny(m, n) \in Int
    BY DEF InCny
  <2> DEFINE x == cash + assets
             y == x - native
  <2>2. x \in Int /\ y \in Int
    BY <1>2
  <2> HIDE DEF x, y
  <2>3. InCny(x, rate) \in Int /\ InCny(y, rate) \in Int
    BY <1>4, <2>1, <2>2
  <2> QED BY <2>3 DEF x, y
<1> HIDE DEF value, gain
<1>6. /\ row.value = value
      /\ row.investment = IF c = CNY THEN 0 ELSE gain
      /\ row.fx = IF c = CNY THEN 0 ELSE (value - cny) - (IF c = CNY THEN 0 ELSE gain)
  BY <1>1, <1>3 DEF RowOf, value, gain
<1>7. CASE c = CNY
  BY <1>5, <1>6, <1>7 DEF cny
<1>8. CASE c # CNY
  <2>1. row.investment = gain /\ row.fx = (value - cny) - gain
    BY <1>6, <1>8
  <2> QED BY <1>2, <1>5, <1>6, <2>1 DEF cny
<1> QED BY <1>7, <1>8

(* The overview is the sum of its rows. *)
LEMMA OverviewSummed == ReportsTyped => OverviewAddsUp
<1>1. ASSUME ReportsTyped, NEW u \in Users, NEW cutoff \in Times,
             \A row \in Performance(u, cutoff).by_currency :
                row.rate # NoRate /\ (row.currency = CNY => row.value = 0),
             \A e \in Own(u) : Balanced(events[e])
      PROVE  Performance(u, cutoff).fx = Total(Performance(u, cutoff).by_currency, LAMBDA row : row.fx)
  <2> DEFINE valued == ValuedAssets(u, cutoff)
             C == ReportedCurrencies(u, valued)
             h == [c \in C |-> CurrencyRow(u, c, cutoff, valued)]
             rows == {CurrencyRow(u, c, cutoff, valued) : c \in C}
             value == [row \in rows |-> row.value]
             gain == [row \in rows |-> row.investment]
             fx == [row \in rows |-> row.fx]
             w == [c \in C |-> IF c = CNY THEN 0 ELSE HistoricalCny(OwnCash(u, c))]
             part == [row \in rows |-> w[row.currency]]
             invested == NetInvested(u)
             rest == [row \in rows |-> fx[row] + gain[row]]
  <2>1. Performance(u, cutoff) = Overview(rows, invested)
    BY DEF Performance
  <2>2. Performance(u, cutoff).by_currency = rows
    <3> HIDE DEF rows, invested
    <3> QED BY <2>1 DEF Overview
  <2>3. IsFiniteSet(C)
    BY <1>1, CurrenciesFinite
  <2>4. ASSUME NEW c \in C
        PROVE  /\ h[c] \in rows /\ h[c].currency = c
               /\ h[c].value \in Int /\ h[c].investment \in Int /\ w[c] \in Int
               /\ h[c].fx = h[c].value - w[c] - h[c].investment
    <3> DEFINE row == CurrencyRow(u, c, cutoff, valued)
    <3>1. row.currency = c
      BY DEF CurrencyRow, RowOf
    <3>2. row \in rows /\ h[c] = row
      OBVIOUS
    <3>3. row.rate # NoRate /\ (c = CNY => row.value = 0)
      BY <1>1, <2>2, <3>1, <3>2
    <3>4. /\ row.value \in Int /\ row.investment \in Int
          /\ row.fx = row.value - (IF c = CNY THEN 0 ELSE HistoricalCny(OwnCash(u, c))) - row.investment
      <4> HIDE DEF row
      <4> QED BY <1>1, <3>3, RatedRow DEF row
    <3>5. w[c] = (IF c = CNY THEN 0 ELSE HistoricalCny(OwnCash(u, c))) /\ w[c] \in Int
      BY <1>1, SumsTyped
    <3> HIDE DEF h, rows, row, w
    <3> QED BY <3>1, <3>2, <3>4, <3>5
  <2>5. \A row \in rows : \E c \in C : h[c] = row
    OBVIOUS
  <2>6. IsFiniteSet(rows)
    <3>1. rows = {h[c] : c \in C}
      <4> HIDE DEF C
      <4> QED OBVIOUS
    <3> HIDE DEF rows, h, C
    <3> QED BY <2>3, <3>1, FiniteImage
  <2>7. SumFunctionOnSet(part, rows) = SumFunctionOnSet(w, C)
    <3>1. \A c \in C : h[c] \in rows /\ part[h[c]] = w[c] /\ w[c] \in Int
      <4> HIDE DEF h, rows, w, C
      <4> QED BY <2>4
    <3>2. \A c, d \in C : h[c] = h[d] => c = d
      <4> HIDE DEF h, rows, w, C
      <4> QED BY <2>4
    <3> HIDE DEF h, rows, w, C, part
    <3> QED BY <2>3, <2>5, <2>6, <3>1, <3>2, SumMatched
  <2>8. SumFunctionOnSet(w, C) = invested
    <3> DEFINE P == PoolOf(u)
               f == [r \in P |-> SignedRmb(CashAt(r))]
    <3>1. IsFiniteSet(P) /\ invested = SumFunctionOnSet(f, P)
      BY <1>1, InvestedInPools DEF ReportsTyped, TypeOK
    <3>2. \A c \in C : w[c] = IF c = CNY THEN 0 ELSE HistoricalCny(OwnCash(u, c))
      OBVIOUS
    <3> HIDE DEF w
    <3>3. SumFunctionOnSet(w, C) = SumFunctionOnSet(f, P)
      BY <1>1, <3>1, <3>2, PoolsByCurrency
    <3> QED BY <3>1, <3>3
  <2>9. ASSUME NEW row \in rows
        PROVE  /\ value[row] \in Int /\ gain[row] \in Int /\ part[row] \in Int /\ fx[row] \in Int
               /\ fx[row] = value[row] - part[row] - gain[row]
    <3>1. PICK c \in C : h[c] = row
      BY <2>5
    <3>2. /\ value[row] = row.value /\ gain[row] = row.investment /\ fx[row] = row.fx
          /\ part[row] = w[row.currency]
      OBVIOUS
    <3> HIDE DEF rows, h, w, C, value, gain, fx, part
    <3> QED BY <2>4, <3>1, <3>2
  <2>10. /\ SumFunctionOnSet(value, rows) \in Int /\ SumFunctionOnSet(gain, rows) \in Int
         /\ SumFunctionOnSet(part, rows) \in Int /\ SumFunctionOnSet(fx, rows) \in Int
         /\ SumFunctionOnSet(rest, rows) = SumFunctionOnSet(fx, rows) + SumFunctionOnSet(gain, rows)
         /\ SumFunctionOnSet(value, rows) = SumFunctionOnSet(rest, rows) + SumFunctionOnSet(part, rows)
    <3>1. \A row \in rows : rest[row] = fx[row] + gain[row]
      OBVIOUS
    <3> HIDE DEF rows, h, w, C, value, gain, fx, part, rest
    <3>2. /\ \A row \in rows : value[row] \in Int
          /\ \A row \in rows : gain[row] \in Int
          /\ \A row \in rows : part[row] \in Int
          /\ \A row \in rows : fx[row] \in Int
      BY <2>9
    <3>3. /\ SumFunctionOnSet(value, rows) \in Int /\ SumFunctionOnSet(gain, rows) \in Int
          /\ SumFunctionOnSet(part, rows) \in Int /\ SumFunctionOnSet(fx, rows) \in Int
      BY <2>6, <3>2, SumInt
    <3>4. \A row \in rows : fx[row] \in Int /\ gain[row] \in Int /\ rest[row] = fx[row] + gain[row]
      BY <3>1, <3>2
    <3>5. SumFunctionOnSet(rest, rows) = SumFunctionOnSet(fx, rows) + SumFunctionOnSet(gain, rows)
      BY <2>6, <3>4, SumPlus
    <3>6. \A row \in rows : rest[row] \in Int /\ part[row] \in Int /\ value[row] = rest[row] + part[row]
      BY <2>9, <3>1
    <3>7. SumFunctionOnSet(value, rows) = SumFunctionOnSet(rest, rows) + SumFunctionOnSet(part, rows)
      BY <2>6, <3>6, SumPlus
    <3> QED BY <3>3, <3>5, <3>7
  <2>11. Performance(u, cutoff).fx
           = SumFunctionOnSet(value, rows) - invested - SumFunctionOnSet(gain, rows)
    <3>1. {row \in rows : row.rate # NoRate} = rows
      BY <1>1, <2>2
    <3> HIDE DEF rows, invested
    <3> QED BY <2>1, <3>1 DEF Overview, Total
  <2>12. Total(Performance(u, cutoff).by_currency, LAMBDA row : row.fx) = SumFunctionOnSet(fx, rows)
    BY <2>2 DEF Total
  <2> HIDE DEF rows, h, w, C, value, gain, fx, part, rest, invested
  <2> QED BY <2>7, <2>8, <2>10, <2>11, <2>12
<1> QED BY <1>1 DEF OverviewAddsUp
-----------------------------------------------------------------------------
(* The positions page.                                                     *)

(* Of rates with different dates there is one to choose. *)
LEMMA OneRate ==
    ASSUME IsTable(rates, RateRow), UntiedRates, NEW currency, NEW cutoff
    PROVE  LatestRate(rates, currency, cutoff) = RateFor(rates, currency, cutoff)
<1> DEFINE rows == Candidates(rates, currency, cutoff)
           first == FirstBy(rows, LAMBDA i : Ranking(rates, i))
           last == FirstBy(rows, LAMBDA i : <<-rates[i].time, -i>>)
<1>1. rows \in SUBSET DOMAIN rates /\ \A i \in rows : rates[i].currency = currency
  BY DEF Candidates
<1>2. /\ RateFor(rates, currency, cutoff)
           = IF currency = "CNY" THEN 1 ELSE IF rows = {} THEN NoRate ELSE rates[first].rate
      /\ LatestRate(rates, currency, cutoff)
           = IF currency = "CNY" THEN 1 ELSE IF rows = {} THEN NoRate ELSE rates[last].rate
  BY DEF RateFor, LatestRate
<1> HIDE DEF rows
<1>3. rows # {} => LastDated(rows, first) /\ LastDated(rows, last)
  BY <1>1, RankedIsMember
<1> HIDE DEF first, last
<1>4. ASSUME rows # {} PROVE first = last
  <2>1. /\ first \in DOMAIN rates /\ last \in DOMAIN rates
        /\ rates[first].currency = rates[last].currency
        /\ rates[first].time <= rates[last].time /\ rates[last].time <= rates[first].time
    BY <1>1, <1>3, <1>4 DEF LastDated
  <2>2. rates[first].time \in Int /\ rates[last].time \in Int
    BY <2>1 DEF IsTable, RateRow
  <2>3. rates[first].time = rates[last].time
    BY <2>1, <2>2
  <2> QED BY <2>1, <2>3 DEF UntiedRates
<1> QED BY <1>2, <1>4

(* What the page and the report may be compared on. *)
Comparable(u) ==
    /\ UntiedRates /\ \A v \in DOMAIN valuations : valuations[v].rate = NoBasis
    /\ \A a \in Assets : ~Emptied(u, a)

RateNow(c) == RateFor(rates, c, Latest)

(* The line of an asset has a value where the report gives the asset one    *)
(* and its currency a rate, and it is that value at that rate.             *)
LEMMA LineOf ==
    ASSUME ReportsTyped, NEW u, Comparable(u), NEW a \in Assets
    PROVE  /\ AssetPosition(u, a, Latest).asset = a
           /\ (Valued(u, a, Latest) # <<>> /\ RateNow(Valued(u, a, Latest)[1]) # NoRate) =>
                /\ Shown(u, a, Latest)
                /\ AssetPosition(u, a, Latest).value
                     = InCny(Valued(u, a, Latest)[2], RateNow(Valued(u, a, Latest)[1]))
           /\ (Shown(u, a, Latest) /\ Known(AssetPosition(u, a, Latest).value)) =>
                Valued(u, a, Latest) # <<>> /\ RateNow(Valued(u, a, Latest)[1]) # NoRate
<1> DEFINE all == SnapshotsOf(u, a, Latest)
           rows == RowsFor(u, a, Latest)
           q == Quantity(Own(u), a)
           raw == RawQuantity(Own(u), a)
           new == valuations[Newest(all)]
           native == IF all # {} THEN new.value ELSE IF AmountValued(a) THEN q ELSE NoBasis
           rate == IF all = {} THEN LatestRate(rates, CurrencyOf[a], Latest)
                   ELSE IF new.rate # NoBasis THEN new.rate
                   ELSE LatestRate(rates, new.currency, Latest)
           line == AssetPosition(u, a, Latest)
           valued == Valued(u, a, Latest)
<1>1. IsTable(events, Event) /\ IsTable(valuations, SnapshotRow) /\ Own(u) \in SUBSET DOMAIN events
  BY DEF ReportsTyped, TypeOK, Own
<1>2. q \in Int /\ raw \in Int
  BY <1>1, QuantityTyped
<1>3. line.asset = a /\ line.value = Times2(native, rate)
  BY DEF AssetPosition, AssetLine
<1>4. all \subseteq DOMAIN valuations /\ \A v \in all : valuations[v].asset = a
  BY DEF SnapshotsOf
<1>5. rows = {v \in all : q # 0 \/ (AmountValued(a) /\ raw < 0 /\ Positive(v))}
  BY DEF RowsFor, Qualifying
<1>6. \A c : LatestRate(rates, c, Latest) = RateNow(c)
  BY OneRate DEF Comparable, ReportsTyped, RateNow
<1>7. Shown(u, a, Latest) <=> q # 0 \/ (AmountValued(a) /\ raw < 0 /\ all # {} /\ Positive(Newest(all)))
  BY DEF Shown, Oversold
<1>8. AmountValued(a) /\ raw < 0 /\ all # {} => Positive(Newest(all))
  BY DEF Comparable, Emptied, Oversold
<1>9. all # {} => Newest(all) \in all /\ \A w \in all \ {Newest(all)} : Later(valuations, Newest(all), w)
  <2> HIDE DEF all
  <2> QED BY <1>1, <1>4, NewestIsMember
<1>10. /\ rows # {} => /\ Newest(rows) \in rows
                       /\ valued = <<valuations[Newest(rows)].currency, valuations[Newest(rows)].value>>
       /\ (rows = {} /\ q # 0 /\ AmountValued(a)) => valued = <<CurrencyOf[a], q>>
       /\ (rows = {} /\ ~(q # 0 /\ AmountValued(a))) => valued = <<>>
  BY ValuedCases
<1>11. rows # {} => \A w \in rows \ {Newest(rows)} : Later(valuations, Newest(rows), w)
  <2>1. rows \subseteq DOMAIN valuations
    BY <1>4, <1>5
  <2> HIDE DEF rows
  <2> QED BY <1>1, <2>1, NewestIsMember
<1> HIDE DEF all, rows, q, raw, valued, line
<1>12. rows # {} => Newest(rows) = Newest(all) /\ all # {}
  <2> SUFFICES ASSUME rows # {}, Newest(rows) # Newest(all) PROVE FALSE
    BY <1>5
  <2> DEFINE m == Newest(rows)
             n == Newest(all)
  <2>1. m \in rows /\ m \in all /\ all # {}
    BY <1>5, <1>10
  <2>2. n \in all
    BY <1>9, <2>1
  <2>3. n \in rows
    BY <1>5, <1>8, <2>1, <2>2
  <2>4. m \in Nat /\ n \in Nat /\ valuations[m].time \in Int /\ valuations[n].time \in Int
    BY <1>1, <1>4, <2>1, <2>2 DEF IsTable, SnapshotRow
  <2>5. Later(valuations, m, n) /\ Later(valuations, n, m)
    BY <1>9, <1>11, <2>1, <2>2, <2>3
  <2> HIDE DEF m, n
  <2> QED BY <2>4, <2>5 DEF Later
<1>13. all # {} => new.rate = NoBasis /\ new.value \in Int
  <2>1. \A v \in DOMAIN valuations : valuations[v].value \in Int /\ valuations[v].rate = NoBasis
    BY <1>1 DEF IsTable, SnapshotRow, Comparable
  <2> QED BY <1>4, <1>9, <2>1
<1>14. \A x \in Int : \A c : RateNow(c) # NoRate => InCny(x, RateNow(c)) \in Int
  <2>1. \A m, n \in Int : m * n \in Int
    OBVIOUS
  <2>2. \A c : RateNow(c) # NoRate => RateNow(c) \in Int
    BY RateTyped DEF RateNow, ReportsTyped
  <2> QED BY <2>1, <2>2 DEF InCny
<1>15. \A x \in Int : Known(x)
  BY NoBasisAssumption DEF Known
<1>16. CASE rows # {}
  <2> DEFINE c == new.currency
  <2>1. /\ valued = <<c, new.value>> /\ native = new.value /\ rate = RateNow(c)
        /\ new.value \in Int /\ Shown(u, a, Latest)
    BY <1>5, <1>6, <1>7, <1>8, <1>10, <1>12, <1>13, <1>16
  <2>2. valued[1] = c /\ valued[2] = new.value /\ valued # <<>>
    BY <2>1
  <2> HIDE DEF new, c, native, rate
  <2>3. RateNow(c) # NoRate => line.value = InCny(new.value, RateNow(c))
    BY <1>3, <1>15, <2>1 DEF Times2
  <2>4. RateNow(c) = NoRate => ~Known(line.value)
    BY <1>3, <2>1 DEF Times2, Known
  <2> QED BY <1>3, <2>1, <2>2, <2>3, <2>4 DEF line, valued
<1>17. CASE rows = {}
  <2>1. Shown(u, a, Latest) => q # 0 /\ all = {}
    BY <1>5, <1>7, <1>9, <1>17
  <2>2. CASE q # 0 /\ AmountValued(a)
    <3> DEFINE c == CurrencyOf[a]
    <3>1. valued = <<c, q>> /\ native = q /\ rate = RateNow(c) /\ Shown(u, a, Latest)
      BY <1>6, <1>7, <1>10, <1>17, <2>1, <2>2
    <3>2. valued[1] = c /\ valued[2] = q /\ valued # <<>>
      BY <3>1
    <3> HIDE DEF new, c, native, rate
    <3>3. RateNow(c) # NoRate => line.value = InCny(q, RateNow(c))
      BY <1>2, <1>3, <1>15, <3>1 DEF Times2
    <3>4. RateNow(c) = NoRate => ~Known(line.value)
      BY <1>3, <3>1 DEF Times2, Known
    <3> QED BY <1>3, <3>1, <3>2, <3>3, <3>4 DEF line, valued
  <2>3. CASE ~(q # 0 /\ AmountValued(a))
    <3>1. valued = <<>>
      BY <1>10, <1>17, <2>3
    <3>2. Shown(u, a, Latest) => native = NoBasis
      BY <2>1, <2>3
    <3> HIDE DEF native, rate, new
    <3>3. Shown(u, a, Latest) => ~Known(line.value)
      BY <1>3, <3>2 DEF Times2, Known
    <3> QED BY <1>3, <3>1, <3>3 DEF line, valued
  <2> QED BY <2>2, <2>3
<1> QED BY <1>16, <1>17

(* An amount in CNY, nothing where there is no rate. *)
Rated(x, rate) == IF rate = NoRate THEN 0 ELSE InCny(x, rate)

LEMMA RatedTyped ==
    ASSUME ReportsTyped, NEW x \in Int, NEW c
    PROVE  /\ Rated(x, RateNow(c)) \in Int
           /\ RateNow(c) # NoRate =>
                RateNow(c) \in Int /\ Rated(x, RateNow(c)) = InCny(x, RateNow(c))
                /\ Known(InCny(x, RateNow(c)))
           /\ RateNow(c) = NoRate => Rated(x, RateNow(c)) = 0
<1>1. RateNow(c) # NoRate => RateNow(c) \in Int
  BY RateTyped DEF RateNow, ReportsTyped
<1>2. \A m, n \in Int : InCny(m, n) \in Int
  BY DEF InCny
<1>3. \A y \in Int : Known(y)
  BY NoBasisAssumption DEF Known
<1> QED BY <1>1, <1>2, <1>3 DEF Rated

InReport(u) == ReportedCurrencies(u, ValuedAssets(u, Latest))

CashNow(u) == [c \in InReport(u) |-> Rated(Balance(OwnCash(u, c)), RateNow(c))]

AssetsNow(u) ==
    [c \in InReport(u) |-> Rated(AssetValue(ValuedAssets(u, Latest), c), RateNow(c))]

KnownCash(u) == {p \in CashPositions(u, Latest) : Known(p.value)}

KnownAssets(u) == {p \in AssetPositions(u, Latest) : Known(p.value)}

(* The cash of the page is the rated cash of the report's currencies. *)
LEMMA PageCash ==
    ASSUME ReportsTyped, NEW u, Comparable(u)
    PROVE  SumFunctionOnSet([p \in KnownCash(u) |-> p.value], KnownCash(u))
             = SumFunctionOnSet(CashNow(u), InReport(u))
<1> DEFINE C == InReport(u)
           D == {CashAt(r).currency : r \in CashRows(Own(u))}
           K == {d \in D : Balance(OwnCash(u, d)) # 0 /\ RateNow(d) # NoRate}
           h == [c \in K |-> CashPosition(u, c, Latest)]
           T == KnownCash(u)
           value == [p \in T |-> p.value]
           f == CashNow(u)
<1>1. \A c : Balance(OwnCash(u, c)) \in Int
  BY SumsTyped
<1>2. \A c : LatestRate(rates, c, Latest) = RateNow(c)
  BY OneRate DEF Comparable, ReportsTyped, RateNow
<1>3. \A c : /\ CashPosition(u, c, Latest).currency = c
             /\ CashPosition(u, c, Latest).value = Times2(Balance(OwnCash(u, c)), RateNow(c))
  BY <1>2 DEF CashPosition
<1>4. ASSUME NEW c
      PROVE  /\ RateNow(c) # NoRate =>
                  /\ Known(CashPosition(u, c, Latest).value)
                  /\ CashPosition(u, c, Latest).value = Rated(Balance(OwnCash(u, c)), RateNow(c))
             /\ RateNow(c) = NoRate => ~Known(CashPosition(u, c, Latest).value)
  <2>1. Known(Balance(OwnCash(u, c)))
    BY <1>1, NoBasisAssumption DEF Known
  <2>2. RateNow(c) # NoRate =>
          /\ Rated(Balance(OwnCash(u, c)), RateNow(c)) = InCny(Balance(OwnCash(u, c)), RateNow(c))
          /\ Known(InCny(Balance(OwnCash(u, c)), RateNow(c)))
    BY <1>1, RatedTyped
  <2>3. RateNow(c) = NoRate => CashPosition(u, c, Latest).value = NoBasis
    BY <1>3 DEF Times2
  <2>4. RateNow(c) # NoRate =>
          CashPosition(u, c, Latest).value = InCny(Balance(OwnCash(u, c)), RateNow(c))
    BY <1>3, <2>1 DEF Times2
  <2> QED BY <2>2, <2>3, <2>4 DEF Known
<1>5. ASSUME NEW c, Balance(OwnCash(u, c)) # 0 PROVE c \in C /\ c \in D
  <2> DEFINE B == {r \in OwnCash(u, c) : InBalance(CashAt(r))}
             b == [r \in B |-> Delta(r)]
  <2>1. Balance(OwnCash(u, c)) = SumFunctionOnSet(b, B)
    BY DEF Balance, Total
  <2>2. B # {}
    <3> SUFFICES ASSUME B = {} PROVE FALSE
      OBVIOUS
    <3> HIDE DEF B, b
    <3> QED BY <1>5, <2>1, SumEmpty
  <2>3. PICK r \in B : TRUE
    BY <2>2
  <2>4. r \in CashRows(Own(u)) /\ InBalance(CashAt(r)) /\ CashAt(r).currency = c
    BY <2>3 DEF OwnCash, InCurrency
  <2> QED BY <2>4 DEF InReport, ReportedCurrencies
<1>6. K \in SUBSET C /\ IsFiniteSet(C) /\ IsFiniteSet(K)
  <2>1. K \in SUBSET C
    BY <1>5
  <2>2. IsFiniteSet(C)
    BY CurrenciesFinite DEF InReport
  <2> HIDE DEF K, C
  <2> QED BY <2>1, <2>2, FS_Subset
<1>7. \A c \in C : f[c] = Rated(Balance(OwnCash(u, c)), RateNow(c)) /\ f[c] \in Int
  BY <1>1, RatedTyped DEF CashNow
<1>8. ASSUME NEW c \in K PROVE h[c] \in T /\ value[h[c]] = f[c] /\ f[c] \in Int /\ h[c].currency = c
  <2>1. c \in D /\ Balance(OwnCash(u, c)) # 0 /\ RateNow(c) # NoRate /\ c \in C
    BY <1>6
  <2>2. h[c] = CashPosition(u, c, Latest)
    OBVIOUS
  <2>3. CashPosition(u, c, Latest) \in CashPositions(u, Latest)
    BY <2>1 DEF CashPositions
  <2>4. h[c] \in T
    BY <1>4, <2>1, <2>2, <2>3 DEF KnownCash
  <2>5. value[h[c]] = h[c].value
    BY <2>4
  <2> HIDE DEF h, T, value, f, C
  <2> QED BY <1>3, <1>4, <1>7, <2>1, <2>2, <2>4, <2>5
<1>9. ASSUME NEW p \in T PROVE \E c \in K : h[c] = p
  <2>1. p \in CashPositions(u, Latest) /\ Known(p.value)
    BY DEF KnownCash
  <2>2. PICK c \in D : Balance(OwnCash(u, c)) # 0 /\ p = CashPosition(u, c, Latest)
    BY <2>1 DEF CashPositions
  <2>3. c \in K
    BY <1>4, <2>1, <2>2
  <2> QED BY <2>2, <2>3
<1>10. \A c \in C : c \notin K => f[c] = 0
  <2> SUFFICES ASSUME NEW c \in C, c \notin K PROVE f[c] = 0
    OBVIOUS
  <2>1. Balance(OwnCash(u, c)) = 0 \/ RateNow(c) = NoRate
    BY <1>5
  <2>2. CASE RateNow(c) = NoRate
    BY <1>7, <2>2 DEF Rated
  <2>3. CASE RateNow(c) # NoRate /\ Balance(OwnCash(u, c)) = 0
    <3>1. RateNow(c) \in Int
      BY <2>3, <1>1, RatedTyped
    <3>2. f[c] = 0 * RateNow(c)
      BY <1>7, <2>3 DEF Rated, InCny
    <3> HIDE DEF f
    <3> QED BY <3>1, <3>2
  <2> QED BY <2>1, <2>2, <2>3
<1>11. IsFiniteSet(T)
  <2> DEFINE all == {h[c] : c \in K}
  <2>1. IsFiniteSet(all)
    <3> HIDE DEF K, h
    <3> QED BY <1>6, FiniteImage
  <2>2. T \subseteq all
    BY <1>9
  <2> HIDE DEF all, T
  <2> QED BY <2>1, <2>2, FS_Subset
<1> HIDE DEF C, D, K, h, T, value, f
<1>12. \A c, d \in K : h[c] = h[d] => c = d
  BY <1>8
<1>13. SumFunctionOnSet(value, T) = SumFunctionOnSet(f, K)
  BY <1>6, <1>8, <1>9, <1>11, <1>12, SumMatched
<1>14. SumFunctionOnSet(f, C) = SumFunctionOnSet(f, K)
  BY <1>6, <1>7, <1>10, SumSupport
<1> QED BY <1>13, <1>14 DEF value, T, f, C

(* The assets of the page are the rated assets of the report's currencies. *)
LEMMA PageAssets ==
    ASSUME ReportsTyped, NEW u, Comparable(u)
    PROVE  SumFunctionOnSet([p \in KnownAssets(u) |-> p.value], KnownAssets(u))
             = SumFunctionOnSet(AssetsNow(u), InReport(u))
<1> DEFINE C == InReport(u)
           V == ValuedAssets(u, Latest)
           R == {p \in V : RateNow(p[2][1]) # NoRate}
           h == [p \in R |-> AssetPosition(u, p[1], Latest)]
           T == KnownAssets(u)
           value == [p \in T |-> p.value]
           f == [p \in V |-> Rated(p[2][2], RateNow(p[2][1]))]
           key == [p \in V |-> p[2][1]]
           g == AssetsNow(u)
<1>1. /\ IsFiniteSet(V)
      /\ \A p \in V : /\ p[1] \in Assets /\ p = <<p[1], Valued(u, p[1], Latest)>>
                      /\ p[2] # <<>> /\ p[2][2] \in Int
      /\ \A a \in Assets : Valued(u, a, Latest) # <<>> => <<a, Valued(u, a, Latest)>> \in V
  BY ValuedTyped
<1>2. \A p \in V : f[p] = Rated(p[2][2], RateNow(p[2][1])) /\ f[p] \in Int /\ key[p] = p[2][1]
  <2> HIDE DEF V
  <2> QED BY <1>1, RatedTyped
<1>3. IsFiniteSet(R) /\ R \in SUBSET V
  <2> HIDE DEF V
  <2> QED BY <1>1, FS_Subset
<1>4. ASSUME NEW p \in R
      PROVE  h[p] \in T /\ value[h[p]] = f[p] /\ f[p] \in Int /\ h[p].asset = p[1]
  <2> DEFINE a == p[1]
             worth == Valued(u, a, Latest)
             line == AssetPosition(u, a, Latest)
  <2>1. /\ p \in V /\ RateNow(p[2][1]) # NoRate /\ a \in Assets
        /\ p[2] = worth /\ worth # <<>> /\ p[2][2] \in Int
    <3> HIDE DEF V
    <3>1. p \in V /\ RateNow(p[2][1]) # NoRate
      OBVIOUS
    <3>2. p = <<a, worth>> /\ p[2] # <<>> /\ p[1] \in Assets /\ p[2][2] \in Int
      BY <1>1, <3>1
    <3> HIDE DEF worth
    <3> QED BY <3>1, <3>2
  <2>2. h[p] = line
    OBVIOUS
  <2>3. /\ line.asset = a /\ Shown(u, a, Latest)
        /\ line.value = InCny(worth[2], RateNow(worth[1]))
    BY <2>1, LineOf
  <2>4. /\ Rated(worth[2], RateNow(worth[1])) = InCny(worth[2], RateNow(worth[1]))
        /\ Known(InCny(worth[2], RateNow(worth[1])))
    BY <2>1, RatedTyped
  <2>5. line \in AssetPositions(u, Latest)
    BY <2>1, <2>3 DEF AssetPositions
  <2>6. line \in T
    BY <2>3, <2>4, <2>5 DEF KnownAssets
  <2>7. value[line] = line.value
    BY <2>6
  <2> HIDE DEF h, T, value, f, V, line, worth
  <2> QED BY <1>2, <2>1, <2>2, <2>3, <2>4, <2>6, <2>7
<1>5. ASSUME NEW t \in T PROVE \E p \in R : h[p] = t
  <2>1. t \in AssetPositions(u, Latest) /\ Known(t.value)
    BY DEF KnownAssets
  <2>2. PICK a \in Assets : Shown(u, a, Latest) /\ t = AssetPosition(u, a, Latest)
    BY <2>1 DEF AssetPositions
  <2> DEFINE worth == Valued(u, a, Latest)
             p == <<a, worth>>
  <2>3. worth # <<>> /\ RateNow(worth[1]) # NoRate
    BY <2>1, <2>2, LineOf
  <2>4. p \in V
    BY <1>1, <2>3
  <2>5. p[1] = a /\ p[2] = worth
    OBVIOUS
  <2> HIDE DEF p, worth, V
  <2>6. p \in R
    BY <2>3, <2>4, <2>5
  <2>7. h[p] = t
    BY <2>2, <2>5, <2>6
  <2> QED BY <2>6, <2>7
<1>6. \A p, q \in R : h[p] = h[q] => p = q
  <2> SUFFICES ASSUME NEW p \in R, NEW q \in R, h[p] = h[q] PROVE p = q
    OBVIOUS
  <2>1. p[1] = q[1]
    <3> HIDE DEF h, R, T, value, f
    <3>1. h[p].asset = p[1] /\ h[q].asset = q[1]
      BY <1>4
    <3> QED BY <3>1
  <2>2. p \in V /\ q \in V
    BY <1>3
  <2> HIDE DEF V, R, h
  <2> QED BY <1>1, <2>1, <2>2
<1>7. IsFiniteSet(T)
  <2> DEFINE all == {h[p] : p \in R}
  <2>1. IsFiniteSet(all)
    <3> HIDE DEF R, h
    <3> QED BY <1>3, FiniteImage
  <2>2. T \subseteq all
    BY <1>5
  <2> HIDE DEF all, T
  <2> QED BY <2>1, <2>2, FS_Subset
<1>8. \A p \in V : p \notin R => f[p] = 0
  <2>1. \A p \in V : p \notin R => RateNow(p[2][1]) = NoRate
    OBVIOUS
  <2> HIDE DEF V, f, R
  <2> QED BY <1>2, <2>1 DEF Rated
<1>9. IsFiniteSet(C) /\ \A p \in V : key[p] \in C
  <2>1. IsFiniteSet(C)
    BY CurrenciesFinite DEF InReport
  <2>2. \A p \in V : p[2][1] \in C
    BY DEF InReport, ReportedCurrencies
  <2> HIDE DEF V, C
  <2> QED BY <2>1, <2>2
<1>10. ASSUME NEW c \in C PROVE g[c] = SumFunctionOnSet(f, Group(V, key, c))
  <2> DEFINE G == {p \in V : p[2][1] = c}
             n == [p \in G |-> p[2][2]]
             rate == RateNow(c)
  <2>1. G = Group(V, key, c)
    <3> HIDE DEF V
    <3> QED BY DEF Group
  <2>2. AssetValue(V, c) = SumFunctionOnSet(n, G)
    BY DEF AssetValue, Total
  <2>3. g[c] = Rated(AssetValue(V, c), rate)
    BY DEF AssetsNow, InReport
  <2>4. IsFiniteSet(G) /\ G \subseteq V
    <3> HIDE DEF V
    <3> QED BY <1>1, FS_Subset
  <2>5. \A p \in G : n[p] = p[2][2] /\ n[p] \in Int /\ p[2][1] = c /\ p \in V
    <3> HIDE DEF V
    <3> QED BY <1>1
  <2> HIDE DEF G, n, rate, V, f, g, C
  <2>6. \A p \in G : f[p] = Rated(n[p], rate)
    BY <1>2, <2>5 DEF rate
  <2>7. CASE rate = NoRate
    <3>1. \A p \in G : f[p] = 0
      BY <2>6, <2>7 DEF Rated
    <3>2. SumFunctionOnSet(f, G) = 0
      BY <2>4, <3>1, SumZero
    <3> QED BY <2>1, <2>3, <2>7, <3>2 DEF Rated
  <2>8. CASE rate # NoRate
    <3>1. rate \in Int
      BY <2>8, RateTyped DEF rate, RateNow, ReportsTyped
    <3>2. \A p \in G : n[p] \in Int /\ f[p] = n[p] * rate
      BY <2>5, <2>6, <2>8 DEF Rated, InCny
    <3>3. SumFunctionOnSet(f, G) = SumFunctionOnSet(n, G) * rate
      BY <2>4, <3>1, <3>2, SumTimes
    <3> QED BY <2>1, <2>2, <2>3, <2>8, <3>3 DEF Rated, InCny
  <2> QED BY <2>7, <2>8
<1>11. Groups(V, key, C) = V
  <2> HIDE DEF V, C, key
  <2> QED BY <1>9 DEF Groups
<1> HIDE DEF C, V, R, h, T, value, f, key, g
<1>12. SumFunctionOnSet(value, T) = SumFunctionOnSet(f, R)
  BY <1>3, <1>4, <1>5, <1>6, <1>7, SumMatched
<1>13. SumFunctionOnSet(f, V) = SumFunctionOnSet(f, R)
  <2>1. \A p \in V : f[p] \in Int
    BY <1>2
  <2> QED BY <1>1, <1>3, <1>8, <2>1, SumSupport
<1>14. SumFunctionOnSet(g, C) = SumFunctionOnSet(f, V)
  <2>1. \A p \in V : f[p] \in Int
    BY <1>2
  <2> QED BY <1>1, <1>9, <1>10, <1>11, <2>1, SumByGroup
<1> QED BY <1>12, <1>13, <1>14 DEF value, T, g, C

(* The report's total is that of its rated currencies, cash and assets. *)
LEMMA ReportTotal ==
    ASSUME ReportsTyped, NEW u
    PROVE  Performance(u, Latest).assets
             = SumFunctionOnSet(CashNow(u), InReport(u)) + SumFunctionOnSet(AssetsNow(u), InReport(u))
<1> DEFINE C == InReport(u)
           V == ValuedAssets(u, Latest)
           cash(c) == Balance(OwnCash(u, c))
           assets(c) == AssetValue(V, c)
           K == {c \in C : RateNow(c) # NoRate}
           h == [c \in K |-> CurrencyRow(u, c, Latest, V)]
           rows == {CurrencyRow(u, c, Latest, V) : c \in C}
           T == {row \in rows : row.rate # NoRate}
           value == [row \in T |-> row.value]
           f == [c \in C |-> CashNow(u)[c] + AssetsNow(u)[c]]
<1>1. /\ \A c : cash(c) \in Int
      /\ \A c : assets(c) \in Int
  BY SumsTyped
<1>2. ASSUME NEW c
      PROVE  /\ CurrencyRow(u, c, Latest, V).currency = c
             /\ CurrencyRow(u, c, Latest, V).rate = RateNow(c)
             /\ RateNow(c) # NoRate =>
                  CurrencyRow(u, c, Latest, V).value = InCny(cash(c) + assets(c), RateNow(c))
  <2> HIDE DEF V
  <2> QED BY DEF CurrencyRow, RowOf, RateNow
<1>3. ASSUME NEW c \in C
      PROVE  /\ CashNow(u)[c] \in Int /\ AssetsNow(u)[c] \in Int /\ f[c] \in Int
             /\ f[c] = CashNow(u)[c] + AssetsNow(u)[c]
             /\ RateNow(c) # NoRate => f[c] = InCny(cash(c) + assets(c), RateNow(c))
             /\ RateNow(c) = NoRate => f[c] = 0
  <2> DEFINE x == cash(c)
             y == assets(c)
             rate == RateNow(c)
  <2>1. CashNow(u)[c] = Rated(x, rate) /\ AssetsNow(u)[c] = Rated(y, rate)
    BY DEF CashNow, AssetsNow, InReport
  <2>2. x \in Int /\ y \in Int
    BY <1>1
  <2>3. f[c] = CashNow(u)[c] + AssetsNow(u)[c]
    OBVIOUS
  <2>4. rate # NoRate => rate \in Int
    BY RateTyped DEF RateNow, ReportsTyped
  <2> HIDE DEF x, y, rate, f, C, V
  <2>5. CASE rate = NoRate
    BY <2>1, <2>3, <2>5 DEF Rated, rate
  <2>6. CASE rate # NoRate
    <3>1. CashNow(u)[c] = x * rate /\ AssetsNow(u)[c] = y * rate
      BY <2>1, <2>6 DEF Rated, InCny
    <3>2. x * rate \in Int /\ y * rate \in Int /\ x * rate + y * rate = (x + y) * rate
      BY <2>2, <2>4, <2>6
    <3>3. f[c] = InCny(x + y, rate)
      BY <2>3, <3>1, <3>2 DEF InCny
    <3> QED BY <2>3, <2>6, <3>1, <3>2, <3>3 DEF x, y, rate
  <2> QED BY <2>5, <2>6
<1>4. IsFiniteSet(C) /\ IsFiniteSet(K) /\ K \in SUBSET C
  <2>1. IsFiniteSet(C)
    BY CurrenciesFinite DEF InReport
  <2> HIDE DEF C
  <2> QED BY <2>1, FS_Subset
<1>5. Performance(u, Latest).assets = SumFunctionOnSet(value, T)
  <2>1. rows = {CurrencyRow(u, c, Latest, V) : c \in ReportedCurrencies(u, V)}
    BY DEF InReport
  <2> HIDE DEF rows, V
  <2> QED BY <2>1 DEF Performance, Overview, Total, V
<1>6. ASSUME NEW c \in K
      PROVE  h[c] \in T /\ value[h[c]] = f[c] /\ f[c] \in Int /\ h[c].currency = c
  <2>1. c \in C /\ RateNow(c) # NoRate
    OBVIOUS
  <2>2. h[c] = CurrencyRow(u, c, Latest, V)
    OBVIOUS
  <2>3. h[c] \in rows
    BY <2>1, <2>2
  <2> HIDE DEF h, rows, V, C, f
  <2>4. h[c] \in T
    BY <1>2, <2>1, <2>2, <2>3
  <2>5. value[h[c]] = h[c].value
    BY <2>4
  <2> HIDE DEF T, value
  <2> QED BY <1>2, <1>3, <2>1, <2>2, <2>4, <2>5
<1>7. ASSUME NEW row \in T PROVE \E c \in K : h[c] = row
  <2>1. row \in rows /\ row.rate # NoRate
    OBVIOUS
  <2>2. PICK c \in C : row = CurrencyRow(u, c, Latest, V)
    BY <2>1
  <2> HIDE DEF V, C, rows
  <2>3. c \in K
    BY <1>2, <2>1, <2>2
  <2> QED BY <2>2, <2>3
<1>8. IsFiniteSet(T)
  <2> DEFINE all == {h[c] : c \in K}
  <2>1. IsFiniteSet(all)
    <3> HIDE DEF K, h
    <3> QED BY <1>4, FiniteImage
  <2>2. T \subseteq all
    BY <1>7
  <2> HIDE DEF all, T
  <2> QED BY <2>1, <2>2, FS_Subset
<1>9. \A c \in C : c \notin K => RateNow(c) = NoRate
  OBVIOUS
<1> HIDE DEF C, V, K, h, rows, T, value, f
<1>10. \A c, d \in K : h[c] = h[d] => c = d
  BY <1>6
<1>11. SumFunctionOnSet(value, T) = SumFunctionOnSet(f, K)
  BY <1>4, <1>6, <1>7, <1>8, <1>10, SumMatched
<1>12. SumFunctionOnSet(f, C) = SumFunctionOnSet(f, K)
  <2>1. \A c \in C : f[c] \in Int
    BY <1>3
  <2>2. \A c \in C : c \notin K => f[c] = 0
    BY <1>3, <1>9
  <2> QED BY <1>4, <2>1, <2>2, SumSupport
<1>13. SumFunctionOnSet(f, C) = SumFunctionOnSet(CashNow(u), C) + SumFunctionOnSet(AssetsNow(u), C)
  <2>1. \A c \in C : CashNow(u)[c] \in Int /\ AssetsNow(u)[c] \in Int
                     /\ f[c] = CashNow(u)[c] + AssetsNow(u)[c]
    BY <1>3
  <2> QED BY <1>4, <2>1, SumPlus
<1> QED BY <1>5, <1>11, <1>12, <1>13 DEF C

(* The page and the report arrive at the same total. *)
LEMMA SameTotal ==
    ASSUME ReportsTyped, NEW u, Comparable(u)
    PROVE  PositionTotals(u, Latest).value = Performance(u, Latest).assets
<1> DEFINE cash == SumFunctionOnSet([p \in KnownCash(u) |-> p.value], KnownCash(u))
           assets == SumFunctionOnSet([p \in KnownAssets(u) |-> p.value], KnownAssets(u))
<1>1. PositionTotals(u, Latest).value = cash + assets
  BY DEF PositionTotals, Totals, KnownTotal, Total, KnownCash, KnownAssets
<1>2. /\ cash = SumFunctionOnSet(CashNow(u), InReport(u))
      /\ assets = SumFunctionOnSet(AssetsNow(u), InReport(u))
  BY PageCash, PageAssets
<1> HIDE DEF cash, assets
<1> QED BY <1>1, <1>2, ReportTotal

(* Whatever is attributed to an asset has a known cost. *)
LEMMA CostKnown ==
    ASSUME ReportsTyped, NEW u, NEW a
    PROVE  Total(Attributed(u, a), LAMBDA x : books.attributions[x].rmb_basis) \in Int
<1> DEFINE S == Attributed(u, a)
           f == [x \in S |-> books.attributions[x].rmb_basis]
<1>1. IsTable(books.attributions, Attribution)
  BY DEF ReportsTyped, TypeOK, RowsTyped
<1>2. S \subseteq DOMAIN books.attributions
  BY DEF Attributed, Where
<1>3. IsFiniteSet(S)
  <2> HIDE DEF S
  <2> QED BY <1>1, <1>2, FS_Subset DEF IsTable
<1>4. \A x \in S : f[x] \in Int
  <2> HIDE DEF S
  <2> QED BY <1>1, <1>2 DEF IsTable, Attribution
<1>5. Total(S, LAMBDA x : books.attributions[x].rmb_basis) = SumFunctionOnSet(f, S)
  BY DEF Total
<1> HIDE DEF f, S
<1>6. SumFunctionOnSet(f, S) \in Int
  BY <1>3, <1>4, SumInt
<1> QED BY <1>5, <1>6 DEF S

(* The calculator and the page arrive at the same gain of a COMPLETE asset. *)
LEMMA LinesMatch ==
    ASSUME ReportsTyped, NEW u
    PROVE  LinesAgree(u)
<1> SUFFICES ASSUME NEW a \in Assets, NEW line, line = AssetPosition(u, a, Latest),
                    line.native # NoBasis, line.rate # NoRate,
                    Known(ProductPerformance(u, line.asset, line.native, line.rate).pnl)
             PROVE  LET product == ProductPerformance(u, line.asset, line.native, line.rate)
                    IN  /\ line.pnl = product.pnl
                        /\ (AmountValued(line.asset) /\ NativeCost(u, line.asset) # 0) =>
                             line.investment = product.investment /\ line.fx = product.fx
  BY DEF LinesAgree, AssetPositions
<1> DEFINE rows == SnapshotsOf(u, a, Latest)
           new == valuations[Newest(rows)]
           native == IF rows # {} THEN new.value
                     ELSE IF AmountValued(a) THEN Quantity(Own(u), a) ELSE NoBasis
           rate == IF rows = {} THEN LatestRate(rates, CurrencyOf[a], Latest)
                   ELSE IF new.rate # NoBasis THEN new.rate
                   ELSE LatestRate(rates, new.currency, Latest)
           spent == NativeCost(u, a)
           cost == AssetCost(u, a)
           product == ProductPerformance(u, a, native, rate)
           earned == InCny(native - spent, rate)
           gain == InCny(native, rate) - cost
<1>1. line = AssetLine(a, rows, native, rate, spent, cost)
  BY DEF AssetPosition
<1>2. line.asset = a /\ line.native = native /\ line.rate = rate
  <2> HIDE DEF rows, native, rate, spent, cost
  <2> QED BY <1>1 DEF AssetLine
<1>3. native # NoBasis /\ rate # NoRate /\ Known(product.pnl)
  BY <1>2
<1>4. rows # {} => new \in SnapshotRow
  <2>1. rows \in SUBSET DOMAIN valuations
    BY DEF SnapshotsOf
  <2> HIDE DEF rows
  <2>2. rows # {} => Newest(rows) \in rows
    BY <2>1, NewestIsMember DEF ReportsTyped
  <2> QED BY <2>1, <2>2 DEF ReportsTyped, IsTable
<1>5. native \in Int
  <2>1. Quantity(Own(u), a) \in Int
    BY QuantityTyped DEF ReportsTyped, TypeOK, Own
  <2>2. rows # {} => new.value \in Int
    BY <1>4 DEF SnapshotRow
  <2> HIDE DEF rows, new
  <2> QED BY <1>3, <2>1, <2>2
<1>6. rate \in Int
  <2>1. rows # {} => new.rate \in Int \cup {NoBasis}
    BY <1>4 DEF SnapshotRow
  <2>2. \A c : LatestRate(rates, c, Latest) # NoRate => LatestRate(rates, c, Latest) \in Int
    BY RateTyped DEF ReportsTyped
  <2> HIDE DEF rows, new
  <2> QED BY <1>3, <2>1, <2>2
<1>7. Attributed(u, a) # {} /\ StatusOf(a, u) = "COMPLETE"
  <2> HIDE DEF native, rate
  <2> QED BY <1>3 DEF ProductPerformance, Known
<1>8. CurrencyOf[a] # CNY
  BY <1>7 DEF StatusOf
<1>9. cost \in Int
  BY <1>7, CostKnown DEF AssetCost
<1>10. NativeBasis(u, a) = spent
  BY <1>7 DEF NativeBasis
<1> HIDE DEF rows, new, native, rate, spent, cost
<1>11. Known(native) /\ Known(cost) /\ Known(InCny(native, rate)) /\ Known(gain)
  <2>1. InCny(native, rate) \in Int
    BY <1>5, <1>6 DEF InCny
  <2>2. gain \in Int
    BY <1>9, <2>1
  <2> HIDE DEF gain
  <2> QED BY <1>3, <1>9, <2>1, <2>2, NoBasisAssumption DEF Known
<1>12. /\ product.pnl = gain
       /\ product.investment = earned
       /\ product.fx = gain - earned
  <2>1. InCny(native, rate) - AssetCost(u, a) = gain
    BY DEF cost
  <2>2. InCny(native - NativeBasis(u, a), rate) = earned
    BY <1>10
  <2> HIDE DEF gain, earned
  <2> QED BY <1>7, <2>1, <2>2 DEF ProductPerformance
<1>13. Minus(Times2(native, rate), cost) = gain
  BY <1>3, <1>11 DEF Times2, Minus
<1> HIDE DEF gain, earned, product
<1>14. line.pnl = gain
  BY <1>1, <1>11, <1>13 DEF AssetLine
<1>15. (AmountValued(a) /\ spent # 0) => line.investment = earned /\ line.fx = gain - earned
  BY <1>1, <1>3, <1>8, <1>11, <1>13 DEF AssetLine, earned
<1> QED BY <1>2, <1>12, <1>14, <1>15 DEF product, spent

(* The page agrees with the report and the calculator. *)
LEMMA SurfacesAlike == ReportsTyped => SurfacesAgree
<1> SUFFICES ASSUME ReportsTyped PROVE SurfacesAgree
  OBVIOUS
<1>1. \A u \in Users : Comparable(u) =>
        PositionTotals(u, Latest).value = Performance(u, Latest).assets
  BY SameTotal
<1>2. \A u \in Users : LinesAgree(u)
  BY LinesMatch
<1> QED BY <1>1, <1>2 DEF SurfacesAgree, Comparable
=============================================================================
