-------------------------- MODULE FundingLots_proofs --------------------------
(***************************************************************************)
(* Proofs about FundingLots, for any users, currencies, times and amounts. *)
(* First IInv, which is inductive: the lemmas say what each write to the   *)
(* tables does to their soundness, and the theorems read the safety        *)
(* properties off it.                                                      *)
(*                                                                         *)
(* Then where the money is: SumInv, inductive relative to IInv, says what  *)
(* the sums over lot_consumptions, attribution_gaps and funding_lots are   *)
(* in the middle of an allocation; the three conservation properties the   *)
(* runs check are its consequences for the tables.  PoolInv says which     *)
(* lots a running allocation has emptied; with it every commit is a step   *)
(* of FundingPool, and the engine implements that specification.           *)
(***************************************************************************)
EXTENDS FundingLots, SequenceTheorems, SumTheorems

-----------------------------------------------------------------------------
(* Arithmetic of a rounded share.                                          *)

(* A quotient below q + 1 is at most q. *)
LEMMA DivBound ==
    ASSUME NEW n \in Nat, NEW d \in Nat \ {0}, NEW q \in Nat, n < d * (q + 1)
    PROVE  n \div d \in 0 .. q
  BY Z3

(* ROUND_HALF_UP of a proportional share never exceeds the whole.          *)
LEMMA ShareBound ==
    ASSUME NEW b \in Nat, NEW r \in Nat \ {0}, NEW a \in 0 .. r
    PROVE  RoundHalfUp(b * a, r) \in 0 .. b
<1> DEFINE n == 2 * (b * a) + r
           d == 2 * r
<1>1. b * a \in Nat /\ b * a <= b * r
  BY Z3
<1>2. d * (b + 1) = 2 * (b * r) + 2 * r
  BY Z3
<1>3. n \in Nat /\ d \in Nat \ {0} /\ n < d * (b + 1)
  <2>1. b * r \in Nat
    BY Z3
  <2> QED BY <1>1, <1>2, <2>1
<1> HIDE DEF n, d
<1>4. n \div d \in 0 .. b
  BY <1>3, DivBound
<1> QED BY <1>4 DEF RoundHalfUp, n, d

-----------------------------------------------------------------------------
(* What each write does to the soundness of the tables.                    *)

(* Recording an event row disturbs nothing. *)
LEMMA AppendEventSound ==
    ASSUME NEW L, NEW C, NEW G, NEW E, Sound(L, C, G, E), NEW e \in Event
    PROVE  Sound(L, C, G, Append(E, e))
<1>1. /\ E \in Seq(Event) /\ L \in Seq(Lot) /\ C \in Seq(Consumption) /\ G \subseteq Gap
      /\ SourcesOf(L, E) /\ TrailOf(L, C) /\ StatusesOf(L)
      /\ OwnFundsOf(L, C, E) /\ LineageOf(L, C)
  BY DEF Sound, TablesTyped
<1>2. /\ Append(E, e) \in Seq(Event)
      /\ DOMAIN E \subseteq DOMAIN Append(E, e)
      /\ \A i \in DOMAIN E : Append(E, e)[i] = E[i]
  BY <1>1
<1>3. SourcesOf(L, Append(E, e))
  BY <1>1, <1>2 DEF SourcesOf
<1>4. OwnFundsOf(L, C, Append(E, e))
  BY <1>1, <1>2 DEF OwnFundsOf
<1> QED BY <1>1, <1>2, <1>3, <1>4 DEF Sound, TablesTyped

(* A fresh lot, from create_lot, disturbs nothing. *)
LEMMA AppendLotSound ==
    ASSUME NEW L, NEW C, NEW G, NEW E, Sound(L, C, G, E),
           NEW u \in Users, NEW c \in Currencies, NEW t \in Times,
           NEW a \in Nat \ {0}, NEW b \in Bases, NEW s \in DOMAIN E
    PROVE  Sound(Append(L, NewLot(u, c, s, a, b, t)), C, G, E)
<1> DEFINE lot == NewLot(u, c, s, a, b, t)
           M == Append(L, lot)
<1>1. /\ E \in Seq(Event) /\ L \in Seq(Lot) /\ C \in Seq(Consumption) /\ G \subseteq Gap
      /\ SourcesOf(L, E) /\ TrailOf(L, C) /\ StatusesOf(L)
      /\ OwnFundsOf(L, C, E) /\ LineageOf(L, C)
  BY DEF Sound, TablesTyped
<1>2. lot \in Lot
  BY <1>1 DEF NewLot, Lot, Statuses
<1>3. /\ M \in Seq(Lot) /\ Len(M) = Len(L) + 1 /\ DOMAIN M = 1 .. Len(M)
      /\ DOMAIN L = 1 .. Len(L) /\ Len(L) \in Nat
      /\ \A l \in DOMAIN L : M[l] = L[l]
      /\ M[Len(L) + 1] = lot
  BY <1>1, <1>2
<1> HIDE DEF M
<1>4. SourcesOf(M, E)
  <2>1. lot.source_event = s
    BY DEF NewLot
  <2> HIDE DEF lot
  <2>2. \A l \in DOMAIN M : l \in DOMAIN L \/ l = Len(L) + 1
    BY <1>3
  <2> QED BY <1>1, <1>3, <2>1, <2>2 DEF SourcesOf
<1>5. TrailOf(M, C)
  <2>1. \A i \in DOMAIN C : HoldsBefore(M, C, i, C[i].lot, C[i].amount + C[i].remaining_after)
    BY <1>1, <1>3 DEF TrailOf, HoldsBefore
  <2>2. \A l \in DOMAIN L : HoldsBefore(M, C, Len(C) + 1, l, M[l].remaining_amount)
    BY <1>1, <1>3 DEF TrailOf, HoldsBefore
  <2>3. HoldsBefore(M, C, Len(C) + 1, Len(L) + 1, lot.remaining_amount)
    <3>1. \A j \in DOMAIN C : C[j].lot # Len(L) + 1
      BY <1>1, <1>3 DEF TrailOf
    <3> QED BY <1>3, <3>1 DEF HoldsBefore, LatestBefore, NewLot
  <2>4. \A l \in DOMAIN M : HoldsBefore(M, C, Len(C) + 1, l, M[l].remaining_amount)
    BY <1>3, <2>2, <2>3
  <2>5. \A i \in DOMAIN C : C[i].lot \in DOMAIN M /\ C[i].amount > 0
    BY <1>1, <1>3 DEF TrailOf
  <2> QED BY <2>1, <2>4, <2>5 DEF TrailOf
<1>6. StatusesOf(M)
  <2>1. StatusTells(lot)
    BY NoBasisAssumption DEF StatusTells, NewLot, Bases
  <2> QED BY <1>1, <1>3, <2>1 DEF StatusesOf
<1>7. OwnFundsOf(M, C, E)
  BY <1>1, <1>3 DEF OwnFundsOf
<1>8. LineageOf(M, C)
  BY <1>1, <1>3 DEF LineageOf, OwnFundsOf
<1> QED BY <1>1, <1>3, <1>4, <1>5, <1>6, <1>7, <1>8 DEF Sound, TablesTyped, M

(* consume_lot on a spendable lot, for the running event. *)
LEMMA ConsumeSound ==
    ASSUME NEW L, NEW C, NEW G, NEW E, Sound(L, C, G, E), E # <<>>,
           NEW l \in DOMAIN L, NEW a \in Nat \ {0}, a <= L[l].remaining_amount,
           Spendable(L[l], E[Len(E)].user, E[Len(E)].currency, E[Len(E)].time),
           \A k \in DOMAIN L : L[k].source_event < Len(E)
    PROVE  Sound([L EXCEPT ![l] = Consumed(@, a)],
                 Append(C, ConsumptionOf(l, L[l], Len(E), a)), G, E)
<1> DEFINE old == L[l]
           new == Consumed(old, a)
           row == ConsumptionOf(l, old, Len(E), a)
           share == BasisShare(old.remaining_basis, a, old.remaining_amount)
           M == [L EXCEPT ![l] = new]
           D == Append(C, row)
           n == Len(C)
<1>1. /\ E \in Seq(Event) /\ L \in Seq(Lot) /\ C \in Seq(Consumption) /\ G \subseteq Gap
      /\ SourcesOf(L, E) /\ TrailOf(L, C) /\ StatusesOf(L)
      /\ OwnFundsOf(L, C, E) /\ LineageOf(L, C)
  BY DEF Sound, TablesTyped
<1>2. Len(E) \in DOMAIN E /\ Len(E) \in Nat /\ DOMAIN L = 1 .. Len(L) /\ Len(L) \in Nat
  BY <1>1
<1>3. /\ old \in Lot /\ StatusTells(old) /\ l \in Nat
      /\ old.remaining_amount \in Nat \ {0} /\ old.original_amount \in Nat
      /\ old.status = "AVAILABLE"
  <2>1. old \in Lot /\ l \in Nat
    BY <1>1, <1>2
  <2>2. StatusTells(old)
    BY <1>1 DEF StatusesOf
  <2>3. old.status = "AVAILABLE" /\ old.remaining_amount > 0
    BY DEF Spendable
  <2> HIDE DEF old
  <2> QED BY <2>1, <2>2, <2>3 DEF Lot
<1>4. old.remaining_basis \in Nat /\ old.original_basis \in Nat
      /\ old.original_basis # NoBasis /\ old.remaining_basis <= old.original_basis
  BY <1>3 DEF StatusTells, Lot, Bases
<1>5. share \in 0 .. old.remaining_basis
  <2>1. a \in 0 .. old.remaining_amount
    BY <1>3
  <2>2. RoundHalfUp(old.remaining_basis * a, old.remaining_amount) \in 0 .. old.remaining_basis
    BY <1>3, <1>4, <2>1, ShareBound
  <2>3. old.remaining_basis \in 0 .. old.remaining_basis
    BY <1>4
  <2> QED BY <2>2, <2>3 DEF BasisShare
<1>6. /\ row \in Consumption
      /\ row.lot = l /\ row.event = Len(E) /\ row.amount = a
      /\ row.remaining_after = old.remaining_amount - a
  BY <1>2, <1>3, <1>4, <1>5 DEF ConsumptionOf, Consumption
<1>7. /\ new.user = old.user /\ new.currency = old.currency
      /\ new.source_event = old.source_event /\ new.created_at = old.created_at
      /\ new.original_amount = old.original_amount
      /\ new.original_basis = old.original_basis
      /\ new.remaining_amount = old.remaining_amount - a
      /\ new.remaining_basis = old.remaining_basis - share
      /\ new.status = IF a = old.remaining_amount THEN "FULLY_CONSUMED" ELSE "AVAILABLE"
  BY <1>3 DEF Consumed, Lot
<1>8. new \in Lot
  <2>1. new.remaining_amount \in Nat /\ new.remaining_basis \in Nat
    BY <1>3, <1>4, <1>5, <1>7
  <2>2. new.status \in Statuses
    BY <1>7 DEF Statuses
  <2> HIDE DEF old
  <2> QED BY <1>3, <2>1, <2>2 DEF Consumed, Lot, Bases, Statuses
<1>9. StatusTells(new)
  <2>1. a = old.remaining_amount => share = old.remaining_basis
    BY DEF BasisShare
  <2> HIDE DEF share, new, old
  <2> QED BY <1>3, <1>4, <1>5, <1>7, <2>1, NoBasisAssumption DEF StatusTells
<1>10. /\ M \in Seq(Lot) /\ Len(M) = Len(L) /\ DOMAIN M = DOMAIN L
       /\ M[l] = new
       /\ \A k \in DOMAIN L : k # l => M[k] = L[k]
  BY <1>1, <1>2, <1>8
<1>11. /\ D \in Seq(Consumption) /\ Len(D) = n + 1 /\ n \in Nat
       /\ DOMAIN D = 1 .. n + 1 /\ DOMAIN C = 1 .. n
       /\ D[n + 1] = row
       /\ \A i \in 1 .. n : D[i] = C[i]
  BY <1>1, <1>6
<1> HIDE DEF M, D, row, new, old, share, n
<1>12. SourcesOf(M, E)
  BY <1>1, <1>7, <1>10 DEF SourcesOf, old
<1>13. StatusesOf(M)
  BY <1>1, <1>9, <1>10 DEF StatusesOf
<1>14. OwnFundsOf(M, D, E)
  <2>1. \A k \in DOMAIN L : M[k].user = L[k].user /\ M[k].currency = L[k].currency
           /\ M[k].created_at = L[k].created_at /\ M[k].original_basis = L[k].original_basis
    BY <1>7, <1>10 DEF old
  <2>2. PaysFor(M[l], E[Len(E)])
    BY <1>4, <2>1 DEF PaysFor, Spendable, old
  <2>3. ASSUME NEW i \in 1 .. n
        PROVE  D[i].lot \in DOMAIN M /\ D[i].event \in DOMAIN E
               /\ PaysFor(M[D[i].lot], E[D[i].event])
    <3>1. D[i] = C[i] /\ C[i].lot \in DOMAIN L /\ C[i].event \in DOMAIN E
          /\ PaysFor(L[C[i].lot], E[C[i].event])
      BY <1>1, <1>11 DEF OwnFundsOf
    <3> QED BY <1>10, <2>1, <3>1 DEF PaysFor
  <2>4. D[n + 1].lot = l /\ D[n + 1].event = Len(E)
    BY <1>6, <1>11
  <2>5. DOMAIN D = 1 .. n \cup {n + 1}
    BY <1>11
  <2> QED BY <1>2, <1>10, <2>2, <2>3, <2>4, <2>5 DEF OwnFundsOf
<1>15. LineageOf(M, D)
  <2>1. \A k \in DOMAIN L : M[k].source_event = L[k].source_event
    BY <1>7, <1>10 DEF old
  <2>2. \A k \in DOMAIN L : D[n + 1].event # M[k].source_event
    <3>1. \A k \in DOMAIN L : L[k].source_event \in Nat
      <4>1. \A k \in DOMAIN L : L[k] \in Lot
        BY <1>1
      <4> QED BY <4>1 DEF Lot
    <3> QED BY <1>2, <1>6, <1>11, <2>1, <3>1
  <2> QED BY <1>1, <1>10, <1>11, <2>1, <2>2 DEF LineageOf
<1>16. \A k \in DOMAIN L : M[k].original_amount = L[k].original_amount
  BY <1>7, <1>10 DEF old
<1>17. ASSUME NEW m \in 1 .. n + 1, NEW q \in DOMAIN L, NEW amount,
              HoldsBefore(L, C, m, q, amount)
       PROVE  HoldsBefore(M, D, m, q, amount)
  <2>1. UntouchedBefore(D, m, q) => UntouchedBefore(C, m, q)
    BY <1>11 DEF UntouchedBefore
  <2>2. ASSUME NEW j \in DOMAIN D, LatestBefore(D, m, j, q)
        PROVE  j \in DOMAIN C /\ LatestBefore(C, m, j, q) /\ D[j] = C[j]
    BY <1>11, <2>2 DEF LatestBefore
  <2> QED BY <1>16, <1>17, <2>1, <2>2 DEF HoldsBefore
<1>18. TrailOf(M, D)
  <2>1. ASSUME NEW i \in 1 .. n
        PROVE  /\ D[i].lot \in DOMAIN M /\ D[i].amount > 0
               /\ HoldsBefore(M, D, i, D[i].lot, D[i].amount + D[i].remaining_after)
    <3>1. /\ C[i].lot \in DOMAIN L /\ C[i].amount > 0 /\ D[i] = C[i]
          /\ HoldsBefore(L, C, i, C[i].lot, C[i].amount + C[i].remaining_after)
      BY <1>1, <1>11 DEF TrailOf
    <3>2. i \in 1 .. n + 1
      BY <1>11
    <3> QED BY <1>10, <1>17, <3>1, <3>2
  <2>2. HoldsBefore(M, D, n + 1, l, old.remaining_amount)
    <3>1. HoldsBefore(L, C, n + 1, l, old.remaining_amount)
      BY <1>1 DEF TrailOf, old, n
    <3>2. n + 1 \in 1 .. n + 1
      BY <1>11
    <3> QED BY <1>17, <3>1, <3>2
  <2>3. /\ D[n + 1].lot \in DOMAIN M /\ D[n + 1].amount > 0
        /\ HoldsBefore(M, D, n + 1, D[n + 1].lot, D[n + 1].amount + D[n + 1].remaining_after)
    <3>1. row.amount + row.remaining_after = old.remaining_amount
      BY <1>3, <1>6
    <3> QED BY <1>6, <1>10, <1>11, <2>2, <3>1
  <2>4. HoldsBefore(M, D, n + 2, l, M[l].remaining_amount)
    <3>1. ~UntouchedBefore(D, n + 2, l)
      BY <1>6, <1>11 DEF UntouchedBefore
    <3>2. ASSUME NEW j \in DOMAIN D, LatestBefore(D, n + 2, j, l)
          PROVE  M[l].remaining_amount = D[j].remaining_after
      <4>1. j = n + 1
        BY <1>6, <1>11, <3>2 DEF LatestBefore
      <4> QED BY <1>6, <1>7, <1>10, <1>11, <4>1
    <3> QED BY <3>1, <3>2 DEF HoldsBefore
  <2>5. ASSUME NEW k \in DOMAIN M, k # l
        PROVE  HoldsBefore(M, D, n + 2, k, M[k].remaining_amount)
    <3>1. HoldsBefore(L, C, n + 1, k, M[k].remaining_amount)
      BY <1>1, <1>10, <2>5 DEF TrailOf, n
    <3>2. D[n + 1].lot # k
      BY <1>6, <1>11, <2>5
    <3>3. UntouchedBefore(D, n + 2, k) => UntouchedBefore(C, n + 1, k)
      BY <1>11 DEF UntouchedBefore
    <3>4. ASSUME NEW j \in DOMAIN D, LatestBefore(D, n + 2, j, k)
          PROVE  LatestBefore(C, n + 1, j, k) /\ D[j] = C[j]
      BY <1>11, <3>2, <3>4 DEF LatestBefore
    <3> QED BY <1>10, <1>11, <1>16, <3>1, <3>3, <3>4 DEF HoldsBefore, LatestBefore
  <2>6. \A k \in DOMAIN M : HoldsBefore(M, D, Len(D) + 1, k, M[k].remaining_amount)
    <3>1. Len(D) + 1 = n + 2
      BY <1>11
    <3> QED BY <2>4, <2>5, <3>1
  <2>7. DOMAIN D = 1 .. n \cup {n + 1}
    BY <1>11
  <2> QED BY <2>1, <2>3, <2>6, <2>7 DEF TrailOf
<1>19. Sound(M, D, G, E)
  BY <1>1, <1>10, <1>11, <1>12, <1>13, <1>14, <1>15, <1>18 DEF Sound, TablesTyped
<1> QED BY <1>19 DEF M, D, row, new, old

(* Appending to a table keeps its rows. *)
LEMMA AppendKeeps ==
    ASSUME NEW S, NEW L \in Seq(S), NEW x
    PROVE  /\ DOMAIN L \subseteq DOMAIN Append(L, x)
           /\ \A l \in DOMAIN L : Append(L, x)[l] = L[l]
<1>1. L \in Seq(S \cup {x}) /\ x \in S \cup {x}
  BY SeqMonotonic
<1>2. /\ Append(L, x) \in Seq(S \cup {x})
      /\ Len(Append(L, x)) = Len(L) + 1
      /\ \A i \in 1 .. Len(L) : Append(L, x)[i] = L[i]
  BY <1>1, AppendProperties
<1> QED BY <1>1, <1>2

(* Nothing is drawn from a table that stays as it is. *)
LEMMA DrawnReflexive ==
    ASSUME NEW L \in Seq(Lot)
    PROVE  Drawn(L, L)
<1>1. \A l \in DOMAIN L : L[l] \in Lot
  OBVIOUS
<1> QED BY <1>1 DEF Drawn, Lot

-----------------------------------------------------------------------------
(* IInv is inductive: one lemma per action.                                *)

(* The empty database satisfies IInv. *)
LEMMA InitIInv == Init => IInv
<1> SUFFICES ASSUME Init PROVE IInv
  OBVIOUS
<1>1. Sound(<<>>, <<>>, {}, <<>>)
  BY DEF Sound, TablesTyped, SourcesOf, TrailOf, StatusesOf, OwnFundsOf, LineageOf
<1>2. db.lots = <<>> /\ db.consumptions = <<>> /\ db.gaps = {} /\ db.events = <<>>
  BY DEF Init, Books
<1>3. db \in Database
  BY DEF Init, Books, Database
<1>4. JobSound
  BY <1>2, <1>3, NoJobAssumption DEF Init, JobSound, IsAllocating, Drawn
<1> QED BY <1>1, <1>2, <1>4 DEF Init, IInv

(* The event row is written first, by every handler. *)
LEMMA RecordEventSound ==
    ASSUME IInv, NEW u \in Users, NEW c \in Currencies, NEW t \in Times, NEW d \in Nat,
           RecordEvent(u, c, d, t)
    PROVE  /\ job = NoJob /\ Books = db
           /\ Sound(lots, consumptions, gaps, events')
           /\ Len(events') = Len(events) + 1 /\ Len(events) \in Nat
           /\ Len(events') \in DOMAIN events' /\ events' # <<>>
           /\ events'[Len(events')].user = u
           /\ events'[Len(events')].currency = c
           /\ events'[Len(events')].time = t
<1> DEFINE e == [user |-> u, currency |-> c, drawn |-> d, time |-> t]
<1>1. events \in Seq(Event) /\ e \in Event
  BY DEF IInv, Sound, TablesTyped, Event
<1>2. events' = Append(events, e)
  BY DEF RecordEvent
<1>3. Sound(lots, consumptions, gaps, events')
  BY <1>1, <1>2, AppendEventSound DEF IInv
<1>4. job = NoJob /\ Books = db
  BY DEF RecordEvent, IInv, JobSound
<1> QED BY <1>1, <1>2, <1>3, <1>4

(* An inflow adds an event and one fresh lot of it. *)
LEMMA RecordInflowIInv ==
    ASSUME IInv, NEW u \in Users, NEW c \in Currencies, NEW t \in Times,
           NEW a \in Amounts, NEW b \in Costs, RecordInflow(u, c, t, a, b)
    PROVE  IInv'
<1>1. RecordEvent(u, c, 0, t)
  BY DEF RecordInflow
<1>2. /\ Sound(lots, consumptions, gaps, events')
      /\ Len(events') = Len(events) + 1 /\ Len(events') \in DOMAIN events' /\ events' # <<>>
  BY <1>1, RecordEventSound
<1>3. a \in Nat \ {0} /\ b \in Bases
  BY FundingLotsAssumption
<1>4. Sound(lots', consumptions', gaps', events')
  BY <1>2, <1>3, AppendLotSound DEF RecordInflow, event
<1>5. Sound(db.lots, db.consumptions, db.gaps, db.events)'
  BY DEF RecordInflow, IInv
<1>6. job' \in Committing /\ job' # NoJob /\ ~IsAllocating'
  BY NoJobAssumption DEF RecordInflow, Committing, IsAllocating
<1>7. Drawn(db.lots, lots')
  <2>1. lots \in Seq(Lot) /\ Drawn(db.lots, lots)
    BY DEF IInv, Sound, TablesTyped, JobSound
  <2>2. DOMAIN lots \subseteq DOMAIN lots' /\ \A l \in DOMAIN lots : lots'[l] = lots[l]
    BY <2>1, AppendKeeps DEF RecordInflow
  <2> QED BY <2>1, <2>2 DEF Drawn
<1>8. JobSound'
  BY <1>2, <1>6, <1>7 DEF JobSound, RecordInflow, IInv
<1> QED BY <1>4, <1>5, <1>8 DEF IInv

(* allocate() starts from exactly the spendable lots. *)
LEMMA BeginAllocationIInv ==
    ASSUME IInv, NEW u \in Users, NEW c \in Currencies, NEW t \in Times,
           NEW a \in Amounts, NEW g \in Target \cup {NoTarget},
           BeginAllocation(u, c, t, a, g)
    PROVE  IInv'
<1> DEFINE S == {l \in DOMAIN lots : Spendable(lots[l], u, c, t)}
<1>1. RecordEvent(u, c, a, t) /\ a \in Nat
  BY FundingLotsAssumption DEF BeginAllocation, AvailableLots
<1>2. /\ Sound(lots, consumptions, gaps, events')
      /\ Len(events') = Len(events) + 1 /\ Len(events) \in Nat /\ events' # <<>>
      /\ events'[Len(events')].user = u
      /\ events'[Len(events')].currency = c
      /\ events'[Len(events')].time = t
  BY <1>1, RecordEventSound
<1>3. Sound(lots', consumptions', gaps', events')
  BY <1>2 DEF BeginAllocation, AvailableLots
<1>4. Sound(db.lots, db.consumptions, db.gaps, db.events)'
  BY DEF BeginAllocation, AvailableLots, IInv
<1>5. /\ job' = [phase |-> "allocating", candidates |-> S, left |-> a, cost |-> 0, target |-> g]
      /\ lots' = lots /\ gaps' = gaps /\ db' = db
  BY DEF BeginAllocation, AvailableLots
<1>6. DOMAIN lots \subseteq Nat
  BY DEF IInv, Sound, TablesTyped
<1>7. job' \in Allocating /\ job' # NoJob
  BY <1>1, <1>5, <1>6, NoJobAssumption DEF Allocating
<1>8. {k \in DOMAIN lots : CanPay(k, event)}' = S
  BY <1>2, <1>5 DEF CanPay, event
<1>9. \A l \in DOMAIN lots : lots[l].source_event < Len(events')
  <2>1. events \in Seq(Event) /\ SourcesOf(lots, events)
    BY DEF IInv, Sound, TablesTyped
  <2> QED BY <1>2, <2>1 DEF SourcesOf
<1>10. JobSound'
  BY <1>2, <1>5, <1>7, <1>8, <1>9 DEF JobSound, IInv, event
<1> QED BY <1>3, <1>4, <1>10 DEF IInv

(* While allocate() runs, the job is a record of the allocating phase. *)
LEMMA AllocatingJob ==
    ASSUME IInv, IsAllocating
    PROVE  /\ job \in Allocating /\ job # NoJob
           /\ event \in DOMAIN events /\ event \in Nat
           /\ events \in Seq(Event) /\ events[event] \in Event
           /\ lots \in Seq(Lot) /\ consumptions \in Seq(Consumption)
<1>1. job \in Allocating
  <2>1. job \in Allocating \cup Committing /\ job # NoJob /\ job.phase = "allocating"
    BY DEF IInv, JobSound, IsAllocating
  <2> QED BY <2>1 DEF Committing
<1>2. events # <<>> /\ events \in Seq(Event)
      /\ lots \in Seq(Lot) /\ consumptions \in Seq(Consumption)
  BY DEF IInv, JobSound, IsAllocating, Sound, TablesTyped
<1> QED BY <1>1, <1>2 DEF event, IsAllocating

(* One turn of the loop spends one lot and leaves the list exact. *)
LEMMA ConsumeLotIInv ==
    ASSUME IInv, ConsumeLot
    PROVE  IInv' /\ job' \in Allocating
<1>1. IsAllocating /\ job.left > 0
  BY DEF ConsumeLot, NextInLine
<1>2. /\ job \in Allocating /\ job # NoJob /\ event \in Nat
      /\ lots \in Seq(Lot) /\ consumptions \in Seq(Consumption)
  BY <1>1, AllocatingJob
<1>3. PICK l \in job.candidates :
        LET amount == Smaller(lots[l].remaining_amount, job.left)
            row == ConsumptionOf(l, lots[l], event, amount)
        IN  /\ lots' = [lots EXCEPT ![l] = Consumed(@, amount)]
            /\ consumptions' = Append(consumptions, row)
            /\ job' = [job EXCEPT !.candidates = @ \ {l},
                                  !.left = @ - amount,
                                  !.cost = @ + row.basis]
  BY DEF ConsumeLot, NextInLine
<1> DEFINE amount == Smaller(lots[l].remaining_amount, job.left)
           row == ConsumptionOf(l, lots[l], event, amount)
<1>4. /\ lots' = [lots EXCEPT ![l] = Consumed(@, amount)]
      /\ consumptions' = Append(consumptions, row)
      /\ job' = [job EXCEPT !.candidates = @ \ {l},
                            !.left = @ - amount, !.cost = @ + row.basis]
      /\ gaps' = gaps /\ events' = events /\ db' = db
  BY <1>3 DEF ConsumeLot, NextInLine
<1>5. /\ l \in DOMAIN lots /\ CanPay(l, event)
      /\ \A k \in DOMAIN lots : lots[k].source_event < event
      /\ job.candidates \subseteq {k \in DOMAIN lots : CanPay(k, event)}
      /\ {k \in DOMAIN lots : CanPay(k, event)} \subseteq job.candidates
      /\ events # <<>> /\ db.gaps \subseteq gaps
  BY <1>1, <1>2 DEF IInv, JobSound
<1>6. /\ lots[l].remaining_amount \in Nat \ {0} /\ job.left \in Nat \ {0}
      /\ job.cost \in Nat /\ job.candidates \subseteq Nat
  <2>1. lots[l] \in Lot
    BY <1>2, <1>5
  <2> QED BY <1>1, <1>2, <1>5, <2>1 DEF Lot, Allocating, CanPay, Spendable
<1>7. /\ amount \in Nat \ {0} /\ amount <= lots[l].remaining_amount /\ amount <= job.left
      /\ amount = job.left \/ amount = lots[l].remaining_amount
  BY <1>6 DEF Smaller
<1> HIDE DEF amount
<1>8. Sound(lots', consumptions', gaps', events')
  BY <1>4, <1>5, <1>7, ConsumeSound DEF IInv, CanPay, event
<1>9. row \in Consumption
  <2>1. consumptions' \in Seq(Consumption)
    BY <1>8 DEF Sound, TablesTyped
  <2>2. Len(consumptions') = Len(consumptions) + 1
        /\ Len(consumptions) \in Nat
        /\ consumptions'[Len(consumptions) + 1] = row
    BY <1>2, <1>4, AppendProperties
  <2> QED BY <2>1, <2>2
<1>10. row.basis \in Nat
  BY <1>9 DEF Consumption
<1> HIDE DEF row
<1>11. /\ job' \in Allocating
       /\ job'.candidates = job.candidates \ {l} /\ job'.left = job.left - amount
  <2>1. job.candidates \ {l} \subseteq Nat /\ job.left - amount \in Nat
        /\ job.cost + row.basis \in Nat
    BY <1>6, <1>7, <1>10
  <2>2. job' = [job EXCEPT !.candidates = job.candidates \ {l},
                          !.left = job.left - amount, !.cost = job.cost + row.basis]
    BY <1>4
  <2> DEFINE T == Target \cup {NoTarget}
             left == job.left - amount
             cost == job.cost + row.basis
             rest == job.candidates \ {l}
  <2>3. job \in [phase : {"allocating"}, candidates : SUBSET Nat, left : Nat,
                 cost : Nat, target : T]
    BY <1>2 DEF Allocating
  <2>4. left \in Nat /\ cost \in Nat /\ rest \in SUBSET Nat
        /\ job' = [job EXCEPT !.candidates = rest, !.left = left, !.cost = cost]
    BY <2>1, <2>2
  <2> HIDE DEF T, left, cost, rest
  <2>5. job' \in [phase : {"allocating"}, candidates : SUBSET Nat, left : Nat,
                  cost : Nat, target : T]
        /\ job'.candidates = rest /\ job'.left = left
    BY <2>3, <2>4
  <2> QED BY <2>5 DEF Allocating, T, left, rest
<1>12. \A k \in DOMAIN lots : k # l => lots'[k] = lots[k]
  BY <1>4
<1>13. DOMAIN lots' = DOMAIN lots
  BY <1>4
<1>14. \A k \in DOMAIN lots : k # l => (CanPay(k, event)' <=> CanPay(k, event))
  BY <1>4, <1>12 DEF CanPay, event
<1>15. lots'[l] = Consumed(lots[l], amount)
  BY <1>4, <1>5
<1>16. job'.left > 0 => ~CanPay(l, event)'
  <2>1. lots[l] \in Lot
    BY <1>2, <1>5
  <2>2. lots'[l].remaining_amount = lots[l].remaining_amount - amount
    BY <1>15, <2>1 DEF Consumed, Lot
  <2>3. job'.left > 0 => lots'[l].remaining_amount = 0
    BY <1>6, <1>7, <1>11, <2>2
  <2> QED BY <2>3 DEF CanPay, Spendable
<1>17. \A k \in DOMAIN lots' : lots'[k].source_event < event'
  <2>1. lots[l] \in Lot
    BY <1>2, <1>5
  <2>2. lots'[l].source_event = lots[l].source_event
    BY <1>15, <2>1 DEF Consumed, Lot
  <2> QED BY <1>4, <1>5, <1>12, <1>13, <2>2 DEF event
<1>18. Drawn(db.lots, lots')
  <2>1. Drawn(db.lots, lots) /\ lots[l] \in Lot
    BY <1>2, <1>5 DEF IInv, JobSound
  <2>2. lots'[l].remaining_amount = lots[l].remaining_amount - amount
    BY <1>15, <2>1 DEF Consumed, Lot
  <2>3. db.lots \in Seq(Lot)
    BY DEF IInv, Sound, TablesTyped
  <2>4. \A k \in DOMAIN db.lots : db.lots[k].remaining_amount \in Nat
    <3>1. \A k \in DOMAIN db.lots : db.lots[k] \in Lot
      BY <2>3
    <3> QED BY <3>1 DEF Lot
  <2> QED BY <1>6, <1>7, <1>12, <1>13, <2>1, <2>2, <2>4 DEF Drawn
<1>19. JobSound'
  <2>1. (job' \in Allocating \cup Committing \cup {NoJob}) /\ job' # NoJob
    BY <1>11, NoJobAssumption
  <2>2. job'.candidates \subseteq {k \in DOMAIN lots' : CanPay(k, event)'}
    BY <1>5, <1>11, <1>13, <1>14
  <2>3. job'.left > 0 => {k \in DOMAIN lots' : CanPay(k, event)'} \subseteq job'.candidates
    BY <1>5, <1>11, <1>13, <1>14, <1>16
  <2> HIDE DEF CanPay
  <2>4. db \in Database
    BY DEF IInv, JobSound
  <2> QED BY <1>4, <1>5, <1>17, <1>18, <2>1, <2>2, <2>3, <2>4 DEF JobSound
<1> QED BY <1>4, <1>8, <1>11, <1>19 DEF IInv

(* The end of allocate() adds at most a gap and a swap's lot. *)
LEMMA FinishAllocationIInv ==
    ASSUME IInv, FinishAllocation
    PROVE  IInv'
<1>1. /\ IsAllocating /\ job' = [phase |-> "committing"]
      /\ consumptions' = consumptions /\ events' = events /\ db' = db
      /\ gaps' = gaps \cup (IF job.left > 0
                           THEN {[event |-> event, shortfall |-> job.left]} ELSE {})
  BY DEF FinishAllocation, LoopDone, ReportedGap, TargetBasis
<1>2. /\ job \in Allocating /\ event \in DOMAIN events /\ event \in Nat
      /\ events[event] \in Event
  BY <1>1, AllocatingJob
<1>3. job.left \in Nat /\ job.cost \in Nat /\ job.target \in Target \cup {NoTarget}
  BY <1>2 DEF Allocating
<1>4. gaps' \subseteq Gap
  <2>1. gaps \subseteq Gap
    BY DEF IInv, Sound, TablesTyped
  <2> QED BY <1>1, <1>2, <1>3, <2>1 DEF Gap
<1>5. Sound(lots, consumptions, gaps', events)
  BY <1>4 DEF IInv, Sound, TablesTyped
<1>6. Sound(lots', consumptions, gaps', events)
  <2>1. CASE job.target = NoTarget
    BY <1>5, <2>1 DEF FinishAllocation, LoopDone, ReportedGap, TargetBasis
  <2>2. CASE job.target # NoTarget
    <3> DEFINE basis == IF job.left = 0 THEN job.cost ELSE NoBasis
    <3>1. job.target.currency \in Currencies /\ job.target.amount \in Nat \ {0}
      BY <1>3, <2>2, FundingLotsAssumption DEF Target
    <3>2. basis \in Bases
      BY <1>3 DEF Bases
    <3>3. events[event].user \in Users /\ now \in Times
      BY <1>2 DEF Event, now
    <3>4. lots' = Append(lots, NewLot(events[event].user, job.target.currency, event,
                                     job.target.amount, basis, now))
      BY <2>2 DEF FinishAllocation, LoopDone, ReportedGap, TargetBasis
    <3> HIDE DEF basis
    <3> QED BY <1>2, <1>5, <3>1, <3>2, <3>3, <3>4, AppendLotSound
  <2> QED BY <2>1, <2>2
<1>7. JobSound'
  <2>1. job' \in Committing /\ job' # NoJob /\ ~IsAllocating'
    BY <1>1, NoJobAssumption DEF Committing, IsAllocating
  <2>2. events # <<>> /\ db.gaps \subseteq gaps /\ db \in Database /\ Drawn(db.lots, lots)
    BY <1>1 DEF IInv, JobSound, IsAllocating
  <2>3. Drawn(db.lots, lots')
    <3>1. lots \in Seq(Lot)
      BY <1>1, AllocatingJob
    <3>2. DOMAIN lots \subseteq DOMAIN lots' /\ \A l \in DOMAIN lots : lots'[l] = lots[l]
      BY <3>1, AppendKeeps DEF FinishAllocation, LoopDone, ReportedGap, TargetBasis
    <3> QED BY <2>2, <3>2 DEF Drawn
  <2> QED BY <1>1, <2>1, <2>2, <2>3 DEF JobSound
<1> QED BY <1>1, <1>6, <1>7 DEF IInv

(* A commit makes the sound session the sound database. *)
LEMMA CommitIInv ==
    ASSUME IInv, Commit
    PROVE  IInv'
<1>1. /\ lots' = lots /\ consumptions' = consumptions /\ gaps' = gaps /\ events' = events
      /\ job' = NoJob /\ db' = Books
  BY DEF Commit, tables
<1>2. /\ db'.lots = lots /\ db'.consumptions = consumptions
      /\ db'.gaps = gaps /\ db'.events = events
  BY <1>1 DEF Books
<1>3. Books' = db'
  BY <1>1 DEF Books
<1>4. db' \in Database
  BY <1>1 DEF IInv, Sound, TablesTyped, Books, Database
<1>5. Drawn(lots, lots)
  BY DrawnReflexive DEF IInv, Sound, TablesTyped
<1>6. JobSound'
  BY <1>1, <1>2, <1>3, <1>4, <1>5 DEF JobSound, IsAllocating
<1> QED BY <1>1, <1>2, <1>6 DEF IInv

(* Every exit without a commit gives back exactly the committed tables.    *)
LEMMA RollbackIInv ==
    ASSUME IInv, Rollback
    PROVE  IInv'
<1>1. /\ lots' = db.lots /\ consumptions' = db.consumptions
      /\ gaps' = db.gaps /\ events' = db.events
      /\ job' = NoJob /\ db' = db
  BY DEF Rollback
<1>2. db \in Database
  BY DEF IInv, JobSound
<1>3. Books' = db'
  BY <1>1, <1>2 DEF Books, Database
<1>4. Drawn(db.lots, db.lots)
  BY DrawnReflexive DEF IInv, Sound, TablesTyped
<1>5. JobSound'
  BY <1>1, <1>2, <1>3, <1>4 DEF JobSound, IsAllocating
<1> QED BY <1>1, <1>5 DEF IInv

(* Every step, and stuttering, preserves IInv. *)
LEMMA NextIInv == IInv /\ [Next]_vars => IInv'
<1> SUFFICES ASSUME IInv, [Next]_vars PROVE IInv'
  OBVIOUS
<1>1. ASSUME NEW u \in Users, NEW c \in Currencies, NEW t \in Times, NEW a \in Amounts,
             NEW b \in Costs, RecordInflow(u, c, t, a, b)
      PROVE  IInv'
  BY <1>1, RecordInflowIInv
<1>2. ASSUME NEW u \in Users, NEW c \in Currencies, NEW t \in Times, NEW a \in Amounts,
             NEW g \in Target \cup {NoTarget}, BeginAllocation(u, c, t, a, g)
      PROVE  IInv'
  BY <1>2, BeginAllocationIInv
<1>3. CASE ConsumeLot
  BY <1>3, ConsumeLotIInv
<1>4. CASE FinishAllocation
  BY <1>4, FinishAllocationIInv
<1>5. CASE Commit
  BY <1>5, CommitIInv
<1>6. CASE Rollback
  BY <1>6, RollbackIInv
<1>7. CASE UNCHANGED vars
  BY <1>7 DEF vars, IInv, JobSound, IsAllocating, CanPay, event, Books
<1> QED BY <1>1, <1>2, <1>3, <1>4, <1>5, <1>6, <1>7 DEF Next

-----------------------------------------------------------------------------
(* The properties.                                                         *)

(* The inductive invariant holds of every behaviour. *)
THEOREM Invariance == Spec => []IInv
BY InitIInv, NextIInv, PTL DEF Spec

(* Every table row and the running job have their types: amounts and bases *)
(* stay natural numbers through any series of rounded shares.              *)
THEOREM TypeCorrectness == Spec => []TypeOK
<1>1. IInv => TypeOK
  BY DEF IInv, JobSound, Sound, TablesTyped, TypeOK, Books, Database
<1> QED BY <1>1, Invariance, PTL

(* Conservation of native money along the audit trail. *)
THEOREM NativeMoneyConserved == Spec => []AuditTrail
<1>1. IInv => AuditTrail
  BY DEF IInv, Sound, AuditTrail
<1> QED BY <1>1, Invariance, PTL

(* A lot's status, amounts and bases agree. *)
THEOREM StatusCorrect == Spec => []StatusTellsContents
<1>1. IInv => StatusTellsContents
  BY DEF IInv, Sound, StatusTellsContents
<1> QED BY <1>1, Invariance, PTL

(* Only the spender's own, priced, earlier money pays. *)
THEOREM OnlyOwnEarlierFunds == Spec => []OwnEarlierFunds
<1>1. IInv => OwnEarlierFunds
  BY DEF IInv, Sound, OwnEarlierFunds
<1> QED BY <1>1, Invariance, PTL

(* Tracing a lot to its origin never meets a cycle. *)
THEOREM TraceTerminates == Spec => []LineageAcyclic
<1>1. IInv => LineageAcyclic
  BY DEF IInv, Sound, LineageAcyclic
<1> QED BY <1>1, Invariance, PTL

(* A step that takes nothing from any lot is first in, first out. *)
LEMMA UntouchedFifo ==
    ASSUME IInv, \A l \in DOMAIN lots \cap DOMAIN lots' :
                    /\ lots'[l].remaining_amount \in Nat
                    /\ lots[l].remaining_amount <= lots'[l].remaining_amount
    PROVE  FifoStep
<1>1. \A l \in DOMAIN lots : lots[l] \in Lot
  BY DEF IInv, Sound, TablesTyped
<1>2. \A l \in DOMAIN lots : lots[l].remaining_amount \in Nat
  BY <1>1 DEF Lot
<1>3. SUFFICES ASSUME NEW l \in DOMAIN lots \cap DOMAIN lots',
                      lots'[l].remaining_amount < lots[l].remaining_amount
               PROVE  FALSE
  BY DEF FifoStep
<1> QED BY <1>2, <1>3

(* So is a step that only adds lots. *)
LEMMA AppendedFifo ==
    ASSUME IInv, \A l \in DOMAIN lots : lots'[l] = lots[l]
    PROVE  FifoStep
<1>1. \A l \in DOMAIN lots : lots[l] \in Lot
  BY DEF IInv, Sound, TablesTyped
<1>2. \A l \in DOMAIN lots : /\ lots'[l].remaining_amount \in Nat
                             /\ lots[l].remaining_amount <= lots'[l].remaining_amount
  BY <1>1 DEF Lot
<1> QED BY <1>2, UntouchedFifo

(* The lot that pays is the first of the spendable ones. *)
LEMMA ConsumeLotFifo ==
    ASSUME IInv, ConsumeLot
    PROVE  FifoStep
<1>1. PICK l \in job.candidates :
        /\ \A k \in job.candidates : k # l => Precedes(lots, l, k)
        /\ \E amount : lots' = [lots EXCEPT ![l] = Consumed(@, amount)]
  BY DEF ConsumeLot, NextInLine
<1>2. \A k \in DOMAIN lots : CanPay(k, event) => k = l \/ Precedes(lots, l, k)
  BY <1>1 DEF ConsumeLot, NextInLine, IInv, JobSound
<1>3. \A k \in DOMAIN lots : k # l => lots'[k] = lots[k]
  BY <1>1
<1>4. \A k \in DOMAIN lots : lots[k].remaining_amount \in Nat
  <2>1. \A k \in DOMAIN lots : lots[k] \in Lot
    BY DEF IInv, Sound, TablesTyped
  <2> QED BY <2>1 DEF Lot
<1>5. \A k \in DOMAIN lots : lots'[k].remaining_amount < lots[k].remaining_amount => k = l
  BY <1>3, <1>4
<1> HIDE DEF CanPay, Precedes, event
<1> QED BY <1>2, <1>5 DEF FifoStep

(* Every step is first in, first out. *)
LEMMA FifoEveryStep == IInv /\ [Next]_vars => [FifoStep]_vars
<1> SUFFICES ASSUME IInv, Next PROVE FifoStep
  OBVIOUS
<1>0. lots \in Seq(Lot)
  BY DEF IInv, Sound, TablesTyped
<1>1. ASSUME NEW u \in Users, NEW c \in Currencies, NEW t \in Times, NEW a \in Amounts,
             NEW b \in Costs, RecordInflow(u, c, t, a, b)
      PROVE  FifoStep
  BY <1>0, <1>1, AppendKeeps, AppendedFifo DEF RecordInflow
<1>2. ASSUME NEW u \in Users, NEW c \in Currencies, NEW t \in Times, NEW a \in Amounts,
             NEW g \in Target \cup {NoTarget}, BeginAllocation(u, c, t, a, g)
      PROVE  FifoStep
  BY <1>2, AppendedFifo DEF BeginAllocation, AvailableLots
<1>3. CASE ConsumeLot
  BY <1>3, ConsumeLotFifo
<1>4. CASE FinishAllocation
  BY <1>0, <1>4, AppendKeeps, AppendedFifo DEF FinishAllocation, LoopDone, ReportedGap, TargetBasis
<1>5. CASE Commit
  BY <1>5, AppendedFifo DEF Commit, tables
<1>6. CASE Rollback
  <2>1. lots' = db.lots /\ Drawn(db.lots, lots) /\ db.lots \in Seq(Lot)
    BY <1>6 DEF Rollback, IInv, JobSound, Sound, TablesTyped
  <2>2. \A l \in DOMAIN db.lots : db.lots[l].remaining_amount \in Nat
    <3>1. \A l \in DOMAIN db.lots : db.lots[l] \in Lot
      BY <2>1
    <3> QED BY <3>1 DEF Lot
  <2> QED BY <2>1, <2>2, UntouchedFifo DEF Drawn
<1> QED BY <1>1, <1>2, <1>3, <1>4, <1>5, <1>6 DEF Next

(* Allocation is first in, first out, for every table of lots. *)
THEOREM FirstInFirstOut == Spec => OldestFirst
BY Invariance, FifoEveryStep, PTL DEF Spec, OldestFirst

(* Every step that reports a gap leaves nothing that could pay. *)
LEMMA GapEveryStep == IInv /\ [Next]_vars => [GapStep]_vars
<1> SUFFICES ASSUME IInv, Next, NEW g \in gaps' \ gaps, NEW k \in DOMAIN lots,
                    CanPay(k, g.event)
             PROVE  FALSE
  BY DEF GapStep
<1>1. FinishAllocation
  <2>1. db.gaps \subseteq gaps
    BY DEF IInv, JobSound
  <2> QED BY <2>1 DEF Next, RecordInflow, BeginAllocation, AvailableLots, ConsumeLot, NextInLine, Commit, Rollback, tables
<1>2. /\ IsAllocating /\ job.left > 0 /\ g = [event |-> event, shortfall |-> job.left]
      /\ job.left = 0 \/ job.candidates = {}
  BY <1>1 DEF FinishAllocation, LoopDone, ReportedGap, TargetBasis
<1>3. job.candidates = {}
  BY <1>2
<1>4. CanPay(k, event)
  BY <1>2
<1>5. {j \in DOMAIN lots : CanPay(j, event)} \subseteq {}
  BY <1>2, <1>3 DEF IInv, JobSound
<1> HIDE DEF CanPay, event
<1>6. k \in {j \in DOMAIN lots : CanPay(j, event)}
  BY <1>4
<1> QED BY <1>5, <1>6

(* A shortfall is reported only when nothing spendable is left. *)
THEOREM NoPrematureGap == Spec => GapMeansExhausted
BY Invariance, GapEveryStep, PTL DEF Spec, GapMeansExhausted

-----------------------------------------------------------------------------
(* Sums over the consumption rows.                                         *)

(* A sequence has finitely many rows.                                      *)
LEMMA RowsFinite ==
    ASSUME NEW C \in Seq(Consumption), NEW S \in SUBSET DOMAIN C
    PROVE  /\ IsFiniteSet(S)
           /\ \A i \in S : C[i].amount \in Nat /\ C[i].basis \in Nat
<1>1. IsFiniteSet(DOMAIN C)
  BY FS_Interval
<1>2. IsFiniteSet(S)
  BY <1>1, FS_Subset
<1>3. \A i \in DOMAIN C : C[i] \in Consumption
  OBVIOUS
<1> QED BY <1>2, <1>3 DEF Consumption

(* Sums of rows are natural numbers.                                       *)
LEMMA RowSumsNat ==
    ASSUME NEW C \in Seq(Consumption), NEW S \in SUBSET DOMAIN C
    PROVE  AmountSum(C, S) \in Nat /\ BasisSum(C, S) \in Nat
<1> DEFINE f == [i \in DOMAIN C |-> C[i].amount]
           g == [i \in DOMAIN C |-> C[i].basis]
<1>1. IsFiniteSet(S) /\ \A i \in S : f[i] \in Nat /\ g[i] \in Nat
  BY RowsFinite
<1> HIDE DEF f, g
<1>2. SumFunctionOnSet(f, S) \in Nat /\ SumFunctionOnSet(g, S) \in Nat
  BY <1>1, SumNat
<1> QED BY <1>2 DEF AmountSum, BasisSum, f, g

(* A new row changes no sum it is not in, and adds itself to the others.    *)
LEMMA AppendRowSums ==
    ASSUME NEW C \in Seq(Consumption), NEW row \in Consumption, NEW S \in SUBSET DOMAIN C
    PROVE  LET D == Append(C, row)
               n == Len(C) + 1
           IN  /\ AmountSum(D, S) = AmountSum(C, S)
               /\ BasisSum(D, S) = BasisSum(C, S)
               /\ AmountSum(D, S \cup {n}) = AmountSum(C, S) + row.amount
               /\ BasisSum(D, S \cup {n}) = BasisSum(C, S) + row.basis
<1> DEFINE D == Append(C, row)
           n == Len(C) + 1
           f == [i \in DOMAIN C |-> C[i].amount]
           g == [i \in DOMAIN C |-> C[i].basis]
           ff == [i \in DOMAIN D |-> D[i].amount]
           gg == [i \in DOMAIN D |-> D[i].basis]
<1>1. /\ D \in Seq(Consumption) /\ DOMAIN C = 1 .. Len(C) /\ Len(C) \in Nat
      /\ DOMAIN D = 1 .. n /\ D[n] = row
      /\ \A i \in DOMAIN C : D[i] = C[i]
  OBVIOUS
<1> HIDE DEF D
<1>2. IsFiniteSet(S) /\ n \notin S /\ S \cup {n} \in SUBSET DOMAIN D
  BY <1>1, RowsFinite
<1>3. \A i \in S : ff[i] = f[i] /\ gg[i] = g[i]
  BY <1>1
<1>4. \A i \in S \cup {n} : ff[i] \in Int /\ gg[i] \in Int
  <2>1. \A i \in DOMAIN D : D[i] \in Consumption
    BY <1>1
  <2> QED BY <1>2, <2>1 DEF Consumption
<1>5. ff[n] = row.amount /\ gg[n] = row.basis
  BY <1>1
<1> HIDE DEF f, g, ff, gg, n
<1>6. /\ SumFunctionOnSet(ff, S) = SumFunctionOnSet(f, S)
      /\ SumFunctionOnSet(gg, S) = SumFunctionOnSet(g, S)
  BY <1>2, <1>3, SumSame
<1>7. /\ SumFunctionOnSet(ff, S \cup {n}) = SumFunctionOnSet(ff, S) + ff[n]
      /\ SumFunctionOnSet(gg, S \cup {n}) = SumFunctionOnSet(gg, S) + gg[n]
  BY <1>2, <1>4, SumAdd
<1> QED BY <1>5, <1>6, <1>7 DEF AmountSum, BasisSum, f, g, ff, gg, D, n

(* The rows of one event, or of one lot, when a row is added.              *)
LEMMA AppendRowSelects ==
    ASSUME NEW C \in Seq(Consumption), NEW row \in Consumption, NEW k
    PROVE  LET D == Append(C, row)
               n == Len(C) + 1
           IN  /\ DrawnBy(C, k) \in SUBSET DOMAIN C /\ Withdrawals(C, k) \in SUBSET DOMAIN C
               /\ DrawnBy(D, k) = IF row.event = k THEN DrawnBy(C, k) \cup {n} ELSE DrawnBy(C, k)
               /\ Withdrawals(D, k) = IF row.lot = k THEN Withdrawals(C, k) \cup {n}
                                                     ELSE Withdrawals(C, k)
<1> DEFINE D == Append(C, row)
           n == Len(C) + 1
<1>1. /\ DOMAIN D = DOMAIN C \cup {n} /\ D[n] = row /\ n \notin DOMAIN C
      /\ \A i \in DOMAIN C : D[i] = C[i]
  OBVIOUS
<1> HIDE DEF D, n
<1>2. DrawnBy(D, k) = IF row.event = k THEN DrawnBy(C, k) \cup {n} ELSE DrawnBy(C, k)
  BY <1>1 DEF DrawnBy
<1>3. Withdrawals(D, k) = IF row.lot = k THEN Withdrawals(C, k) \cup {n} ELSE Withdrawals(C, k)
  BY <1>1 DEF Withdrawals
<1> QED BY <1>2, <1>3 DEF D, n, DrawnBy, Withdrawals

(* Sums of shortfalls.                                                     *)
LEMMA NoShortfall == ShortfallSum({}) = 0
BY SumEmpty DEF ShortfallSum

(* One gap reports its own shortfall. *)
LEMMA OneShortfall ==
    ASSUME NEW g, g.shortfall \in Nat
    PROVE  ShortfallSum({g}) = g.shortfall
<1> DEFINE f == [x \in {g} |-> x.shortfall]
<1>1. IsFiniteSet({}) /\ g \notin {} /\ \A x \in {} \cup {g} : f[x] \in Int
  BY FS_EmptySet
<1>2. f[g] = g.shortfall
  OBVIOUS
<1> HIDE DEF f
<1>3. SumFunctionOnSet(f, {} \cup {g}) = SumFunctionOnSet(f, {}) + f[g]
  BY <1>1, SumAdd
<1>4. {} \cup {g} = {g} /\ SumFunctionOnSet(f, {}) = 0
  BY SumEmpty
<1> QED BY <1>2, <1>3, <1>4 DEF ShortfallSum, f
-----------------------------------------------------------------------------
(* The events nobody has drawn for yet: no row and no gap refers to them.  *)
LEMMA FreshEvent ==
    ASSUME NEW L, NEW C, NEW G, NEW E, NEW settled, NEW e,
           Sound(L, C, G, E), SumsSound(L, C, G, E, settled), e \notin DOMAIN E
    PROVE  DrawnBy(C, e) = {} /\ GapsOf(G, e) = {}
<1>1. DrawnBy(C, e) = {}
  BY DEF Sound, OwnFundsOf, DrawnBy
<1>2. GapsOf(G, e) = {}
  BY DEF SumsSound, GapsOf
<1> QED BY <1>1, <1>2

(* Recording an event row settles nothing and unsettles nothing.           *)
LEMMA AppendEventSums ==
    ASSUME NEW L, NEW C, NEW G, NEW E, NEW e \in Event,
           Sound(L, C, G, E), SumsSound(L, C, G, E, DOMAIN E)
    PROVE  SumsSound(L, C, G, Append(E, e), DOMAIN E)
<1> DEFINE F == Append(E, e)
<1>1. E \in Seq(Event)
  BY DEF Sound, TablesTyped
<1>2. DOMAIN E \subseteq DOMAIN F /\ \A i \in DOMAIN E : F[i] = E[i]
  BY <1>1
<1> HIDE DEF F
<1>3. \A i \in DOMAIN E : DemandMet(C, G, F, i)
  BY <1>2 DEF SumsSound, DemandMet
<1>4. CostCarried(L, C, G, F)
  <2>1. \A l \in DOMAIN L : F[L[l].source_event] = E[L[l].source_event]
    BY <1>2 DEF Sound, SourcesOf
  <2> QED BY <2>1 DEF SumsSound, CostCarried
<1> QED BY <1>2, <1>3, <1>4 DEF SumsSound, F

(* What the new event has drawn so far.                                    *)
LEMMA FreshEventSums ==
    ASSUME NEW L, NEW C, NEW G, NEW E, NEW settled, NEW e,
           Sound(L, C, G, E), SumsSound(L, C, G, E, settled), e \notin DOMAIN E
    PROVE  /\ AmountSum(C, DrawnBy(C, e)) = 0 /\ BasisSum(C, DrawnBy(C, e)) = 0
           /\ GapsOf(G, e) = {} /\ ShortfallSum(GapsOf(G, e)) = 0
BY FreshEvent, SumEmpty, NoShortfall DEF AmountSum, BasisSum

(* No row refers to a lot that is not there.                               *)
LEMMA FreshLot ==
    ASSUME NEW L, NEW C, NEW G, NEW E, Sound(L, C, G, E), NEW l, l \notin DOMAIN L
    PROVE  BasisSum(C, Withdrawals(C, l)) = 0
<1>1. Withdrawals(C, l) = {}
  BY DEF Sound, OwnFundsOf, Withdrawals
<1> QED BY <1>1, SumEmpty DEF BasisSum

(* A fresh lot carries all of its cost; it is a swap's only if priced so.   *)
LEMMA AppendLotSums ==
    ASSUME NEW L, NEW C, NEW G, NEW E, NEW settled,
           Sound(L, C, G, E), SumsSound(L, C, G, E, settled),
           NEW lot \in Lot, lot.remaining_basis = lot.original_basis,
           E[lot.source_event].drawn > 0 =>
              lot.original_basis = IF GapsOf(G, lot.source_event) # {} THEN NoBasis
                                   ELSE BasisSum(C, DrawnBy(C, lot.source_event))
    PROVE  SumsSound(Append(L, lot), C, G, E, settled)
<1> DEFINE M == Append(L, lot)
           n == Len(L) + 1
<1>1. L \in Seq(Lot)
  BY DEF Sound, TablesTyped
<1>2. /\ DOMAIN M = DOMAIN L \cup {n} /\ M[n] = lot /\ n \notin DOMAIN L
      /\ \A l \in DOMAIN L : M[l] = L[l]
  BY <1>1
<1> HIDE DEF M, n
<1>3. BasisKept(M, C)
  <2>1. BasisSum(C, Withdrawals(C, n)) = 0
    BY <1>2, FreshLot
  <2>2. lot.original_basis # NoBasis => lot.remaining_basis \in Nat
    BY DEF Lot, Bases
  <2>3. \A l \in DOMAIN L : L[l].original_basis # NoBasis =>
           L[l].original_basis = L[l].remaining_basis + BasisSum(C, Withdrawals(C, l))
    BY DEF SumsSound, BasisKept
  <2> QED BY <1>2, <2>1, <2>2, <2>3 DEF BasisKept
<1>4. CostCarried(M, C, G, E)
  <2>1. CostCarried(L, C, G, E)
    BY DEF SumsSound
  <2> QED BY <1>2, <2>1 DEF CostCarried
<1> QED BY <1>3, <1>4 DEF SumsSound, M

(* A consumption moves basis from its lot to its row and amount to its event. *)
LEMMA ConsumeSums ==
    ASSUME NEW L, NEW C, NEW G, NEW E, NEW settled,
           Sound(L, C, G, E), SumsSound(L, C, G, E, settled),
           NEW e, e \notin settled, \A k \in DOMAIN L : L[k].source_event # e,
           NEW l \in DOMAIN L, NEW lot \in Lot, NEW row \in Consumption,
           row.lot = l, row.event = e,
           lot.source_event = L[l].source_event, lot.original_basis = L[l].original_basis,
           lot.remaining_basis \in Nat, L[l].remaining_basis = lot.remaining_basis + row.basis
    PROVE  SumsSound([L EXCEPT ![l] = lot], Append(C, row), G, E, settled)
<1> DEFINE M == [L EXCEPT ![l] = lot]
           D == Append(C, row)
           n == Len(C) + 1
<1>1. /\ C \in Seq(Consumption) /\ L \in Seq(Lot)
      /\ BasisKept(L, C) /\ CostCarried(L, C, G, E)
      /\ \A d \in settled : DemandMet(C, G, E, d)
  BY DEF Sound, TablesTyped, SumsSound
<1>2. /\ DOMAIN M = DOMAIN L /\ M[l] = lot
      /\ \A k \in DOMAIN L : k # l => M[k] = L[k]
  BY <1>1
<1>3. row.basis \in Nat
  BY DEF Consumption
<1> HIDE DEF M
<1>4. \A k : DrawnBy(C, k) \in SUBSET DOMAIN C /\ Withdrawals(C, k) \in SUBSET DOMAIN C
  BY DEF DrawnBy, Withdrawals
<1>5. ASSUME NEW d, d # e
      PROVE  /\ AmountSum(D, DrawnBy(D, d)) = AmountSum(C, DrawnBy(C, d))
             /\ BasisSum(D, DrawnBy(D, d)) = BasisSum(C, DrawnBy(C, d))
  <2>1. DrawnBy(D, d) = DrawnBy(C, d) /\ DrawnBy(C, d) \in SUBSET DOMAIN C
    BY <1>1, <1>5, AppendRowSelects
  <2>2. /\ AmountSum(D, DrawnBy(C, d)) = AmountSum(C, DrawnBy(C, d))
        /\ BasisSum(D, DrawnBy(C, d)) = BasisSum(C, DrawnBy(C, d))
    BY <1>1, <2>1, AppendRowSums
  <2> HIDE DEF D
  <2> QED BY <2>1, <2>2
<1>6. ASSUME NEW k, k # l
      PROVE  BasisSum(D, Withdrawals(D, k)) = BasisSum(C, Withdrawals(C, k))
  <2>1. Withdrawals(D, k) = Withdrawals(C, k) /\ Withdrawals(C, k) \in SUBSET DOMAIN C
    BY <1>1, <1>6, AppendRowSelects
  <2>2. BasisSum(D, Withdrawals(C, k)) = BasisSum(C, Withdrawals(C, k))
    BY <1>1, <2>1, AppendRowSums
  <2> HIDE DEF D
  <2> QED BY <2>1, <2>2
<1>7. BasisSum(D, Withdrawals(D, l)) = BasisSum(C, Withdrawals(C, l)) + row.basis
  <2>1. Withdrawals(D, l) = Withdrawals(C, l) \cup {n} /\ Withdrawals(C, l) \in SUBSET DOMAIN C
    BY <1>1, AppendRowSelects
  <2>2. BasisSum(D, Withdrawals(C, l) \cup {n}) = BasisSum(C, Withdrawals(C, l)) + row.basis
    BY <1>1, <2>1, AppendRowSums
  <2> HIDE DEF D
  <2> QED BY <2>1, <2>2
<1> HIDE DEF D, n
<1>8. BasisKept(M, D)
  <2>1. BasisSum(C, Withdrawals(C, l)) \in Nat
    BY <1>1, <1>4, RowSumsNat
  <2>2. lot.original_basis # NoBasis =>
          lot.original_basis = lot.remaining_basis + BasisSum(D, Withdrawals(D, l))
    BY <1>1, <1>3, <1>7, <2>1 DEF BasisKept
  <2> QED BY <1>1, <1>2, <1>6, <2>2 DEF BasisKept
<1>9. \A d \in settled : DemandMet(D, G, E, d)
  BY <1>1, <1>5 DEF DemandMet
<1>10. CostCarried(M, D, G, E)
  <2>1. \A k \in DOMAIN L : /\ M[k].source_event = L[k].source_event
                            /\ M[k].original_basis = L[k].original_basis
    BY <1>2
  <2>2. \A k \in DOMAIN L : BasisSum(D, DrawnBy(D, L[k].source_event))
                              = BasisSum(C, DrawnBy(C, L[k].source_event))
    BY <1>5
  <2> SUFFICES ASSUME NEW k \in DOMAIN L, E[L[k].source_event].drawn > 0
               PROVE  L[k].original_basis = IF GapsOf(G, L[k].source_event) # {} THEN NoBasis
                                            ELSE BasisSum(D, DrawnBy(D, L[k].source_event))
    BY <1>2, <2>1 DEF CostCarried
  <2> QED BY <1>1, <2>2 DEF CostCarried
<1> QED BY <1>8, <1>9, <1>10 DEF SumsSound, M, D

(* The gap rows of event e that lacks `left'. *)
Missing(e, left) == IF left > 0 THEN {[event |-> e, shortfall |-> left]} ELSE {}

(* A gap settles its event, and only that one.                             *)
LEMMA GapSums ==
    ASSUME NEW L, NEW C, NEW G, NEW E, NEW settled,
           Sound(L, C, G, E), SumsSound(L, C, G, E, settled),
           NEW e \in DOMAIN E, e \notin settled, \A k \in DOMAIN L : L[k].source_event # e,
           NEW left \in Nat, \A g \in G : g.event # e,
           E[e].drawn = AmountSum(C, DrawnBy(C, e)) + left
    PROVE  SumsSound(L, C, G \cup Missing(e, left), E, settled \cup {e})
<1> DEFINE gap == [event |-> e, shortfall |-> left]
           new == Missing(e, left)
           H == G \cup new
<1>0. new = IF left > 0 THEN {gap} ELSE {}
  BY DEF Missing
<1> HIDE DEF new
<1>1. /\ BasisKept(L, C) /\ CostCarried(L, C, G, E) /\ IsFiniteSet(G)
      /\ \A g \in G : g.event \in DOMAIN E
      /\ \A d \in settled : DemandMet(C, G, E, d)
  BY DEF SumsSound
<1>2. GapsOf(H, e) = new /\ \A d : d # e => GapsOf(H, d) = GapsOf(G, d)
  BY <1>0 DEF GapsOf
<1>3. IsFiniteSet(H)
  <2>1. G \cup {} = G
    OBVIOUS
  <2> HIDE DEF gap
  <2> QED BY <1>0, <1>1, <2>1, FS_AddElement
<1>4. \A h \in H : h.event \in DOMAIN E
  BY <1>0, <1>1
<1>5. DemandMet(C, H, E, e)
  <2>1. ShortfallSum(new) = left
    <3>1. CASE left > 0
      <4>1. gap.shortfall = left /\ new = {gap}
        BY <1>0, <3>1
      <4> HIDE DEF gap
      <4> QED BY <4>1, OneShortfall
    <3>2. CASE left = 0
      BY <1>0, <3>2, NoShortfall
    <3> QED BY <3>1, <3>2
  <2> HIDE DEF H
  <2> QED BY <1>2, <2>1 DEF DemandMet
<1> HIDE DEF H
<1>6. \A d \in settled : DemandMet(C, H, E, d)
  BY <1>1, <1>2 DEF DemandMet
<1>7. CostCarried(L, C, H, E)
  BY <1>1, <1>2 DEF CostCarried
<1>8. SumsSound(L, C, H, E, settled \cup {e})
  BY <1>1, <1>3, <1>4, <1>5, <1>6, <1>7 DEF SumsSound
<1> QED BY <1>8 DEF H, new
-----------------------------------------------------------------------------
(* SumInv is inductive relative to IInv: one lemma per action.             *)

(* Empty tables add up. *)
LEMMA InitSums == Init => SumInv
<1> SUFFICES ASSUME Init PROVE SumInv
  OBVIOUS
<1>1. SumsSound(<<>>, <<>>, {}, <<>>, {})
  BY FS_EmptySet DEF SumsSound, BasisKept, CostCarried
<1>2. db.lots = <<>> /\ db.consumptions = <<>> /\ db.gaps = {} /\ db.events = <<>>
  BY DEF Init, Books
<1>3. ~IsAllocating /\ DOMAIN events = {} /\ DOMAIN db.events = {}
  BY <1>2 DEF Init, IsAllocating
<1> QED BY <1>1, <1>2, <1>3 DEF Init, SumInv, JobSums, Settled

(* Between two jobs every recorded event is settled. *)
LEMMA IdleSums ==
    ASSUME IInv, SumInv, ~IsAllocating
    PROVE  SumsSound(lots, consumptions, gaps, events, DOMAIN events)
BY DEF SumInv, Settled

(* An inflow is settled at once: it draws nothing. *)
LEMMA RecordInflowSums ==
    ASSUME IInv, SumInv, NEW u \in Users, NEW c \in Currencies, NEW t \in Times,
           NEW a \in Amounts, NEW b \in Costs, RecordInflow(u, c, t, a, b)
    PROVE  SumInv'
<1> DEFINE e == [user |-> u, currency |-> c, drawn |-> 0, time |-> t]
           lot == NewLot(u, c, event + 1, a, b, t)
<1>1. /\ job = NoJob /\ events' = Append(events, e) /\ lots' = Append(lots, lot)
      /\ consumptions' = consumptions /\ gaps' = gaps /\ db' = db
      /\ job' = [phase |-> "committing"]
  BY DEF RecordInflow, RecordEvent
<1>2. ~IsAllocating /\ ~IsAllocating'
  BY <1>1 DEF IsAllocating
<1>3. e \in Event /\ Sound(lots, consumptions, gaps, events) /\ event \in Nat
  BY DEF IInv, Event, Sound, TablesTyped, event
<1>4. a \in Nat /\ b \in Bases
  BY FundingLotsAssumption
<1>5. /\ lot \in Lot /\ lot.remaining_basis = lot.original_basis
      /\ lot.source_event = event + 1
  BY <1>3, <1>4 DEF NewLot, Lot, Statuses
<1>6. /\ SumsSound(lots, consumptions, gaps, events', DOMAIN events')
      /\ events'[event + 1].drawn = 0
  <2>1. SumsSound(lots, consumptions, gaps, events, DOMAIN events)
    BY <1>2, IdleSums
  <2>2. SumsSound(lots, consumptions, gaps, events', DOMAIN events)
    BY <1>1, <1>3, <2>1, AppendEventSums
  <2>3. /\ DOMAIN events' = DOMAIN events \cup {event + 1} /\ events'[event + 1] = e
        /\ event + 1 \notin DOMAIN events
    BY <1>1, <1>3 DEF event, Sound, TablesTyped
  <2>4. /\ AmountSum(consumptions, DrawnBy(consumptions, event + 1)) = 0
        /\ ShortfallSum(GapsOf(gaps, event + 1)) = 0
    BY <1>3, <2>1, <2>3, FreshEventSums
  <2>5. DemandMet(consumptions, gaps, events', event + 1)
    BY <2>3, <2>4 DEF DemandMet
  <2> QED BY <2>2, <2>3, <2>5 DEF SumsSound
<1>7. Sound(lots, consumptions, gaps, events')
  BY <1>1, <1>3, AppendEventSound
<1> HIDE DEF lot, e
<1>8. SumsSound(lots', consumptions, gaps, events', DOMAIN events')
  <2>1. events'[lot.source_event].drawn = 0
    BY <1>5, <1>6
  <2>2. SumsSound(Append(lots, lot), consumptions, gaps, events', DOMAIN events')
    BY <1>5, <1>6, <1>7, <2>1, AppendLotSums
  <2> QED BY <1>1, <2>2
<1>9. SumsSound(db.lots, db.consumptions, db.gaps, db.events, DOMAIN db.events)
  BY DEF SumInv
<1> QED BY <1>1, <1>2, <1>8, <1>9 DEF SumInv, JobSums, Settled

(* An allocation starts with everything still to take. *)
LEMMA BeginAllocationSums ==
    ASSUME IInv, SumInv, NEW u \in Users, NEW c \in Currencies, NEW t \in Times,
           NEW a \in Amounts, NEW g \in Target \cup {NoTarget},
           BeginAllocation(u, c, t, a, g)
    PROVE  SumInv'
<1> DEFINE e == [user |-> u, currency |-> c, drawn |-> a, time |-> t]
           n == Len(events) + 1
<1>1. /\ job = NoJob /\ events' = Append(events, e) /\ lots' = lots
      /\ consumptions' = consumptions /\ gaps' = gaps /\ db' = db
      /\ job'.left = a /\ job'.cost = 0
  BY DEF BeginAllocation, RecordEvent
<1>2. ~IsAllocating /\ a \in Nat
  BY <1>1, FundingLotsAssumption DEF IsAllocating
<1>3. e \in Event /\ Sound(lots, consumptions, gaps, events) /\ event \in Nat
  BY <1>2 DEF IInv, Event, Sound, TablesTyped, event
<1>4. e.drawn = a
  OBVIOUS
<1> HIDE DEF e
<1>5. SumsSound(lots, consumptions, gaps, events, DOMAIN events)
  BY <1>2, IdleSums
<1>6. /\ n \notin DOMAIN events /\ DOMAIN events' = DOMAIN events \cup {n}
      /\ events'[n] = e /\ Len(events') = n
  BY <1>1, <1>3 DEF Sound, TablesTyped
<1> HIDE DEF n
<1>9. /\ SumsSound(lots, consumptions, gaps, events', DOMAIN events' \ {n})
      /\ AmountSum(consumptions, DrawnBy(consumptions, n)) = 0
      /\ BasisSum(consumptions, DrawnBy(consumptions, n)) = 0
      /\ GapsOf(gaps, n) = {}
  <2>1. SumsSound(lots, consumptions, gaps, events', DOMAIN events)
    BY <1>1, <1>3, <1>5, AppendEventSums
  <2>2. DOMAIN events' \ {n} = DOMAIN events
    BY <1>6
  <2> QED BY <1>3, <1>5, <1>6, <2>1, <2>2, FreshEventSums
<1>7. IsAllocating'
  <2>1. AvailableLots(u, c, t) \subseteq Nat
    BY <1>3 DEF AvailableLots, Sound, TablesTyped
  <2> HIDE DEF AvailableLots
  <2>2. job' \in Allocating /\ job'.phase = "allocating"
    BY <1>2, <2>1 DEF BeginAllocation, Allocating
  <2> QED BY <2>2, NoJobAssumption DEF IsAllocating
<1>8. SumsSound(db.lots, db.consumptions, db.gaps, db.events, DOMAIN db.events)
  BY DEF SumInv
<1> QED BY <1>1, <1>2, <1>4, <1>6, <1>7, <1>8, <1>9 DEF SumInv, JobSums, Settled, event

(* One turn of the loop moves `amount' from left to taken, and its share   *)
(* of the lot's basis from the lot to the cost.                            *)
LEMMA ConsumeLotSums ==
    ASSUME IInv, SumInv, ConsumeLot
    PROVE  SumInv'
<1>1. /\ IsAllocating /\ job \in Allocating /\ event \in DOMAIN events
      /\ lots \in Seq(Lot) /\ consumptions \in Seq(Consumption)
  BY AllocatingJob DEF ConsumeLot
<1>2. PICK l \in job.candidates :
        LET amount == Smaller(lots[l].remaining_amount, job.left)
            row == ConsumptionOf(l, lots[l], event, amount)
        IN  /\ lots' = [lots EXCEPT ![l] = Consumed(@, amount)]
            /\ consumptions' = Append(consumptions, row)
            /\ job' = [job EXCEPT !.candidates = @ \ {l},
                                  !.left = @ - amount,
                                  !.cost = @ + row.basis]
  BY DEF ConsumeLot, NextInLine
<1> DEFINE amount == Smaller(lots[l].remaining_amount, job.left)
           row == ConsumptionOf(l, lots[l], event, amount)
           lot == Consumed(lots[l], amount)
<1>3. /\ lots' = [lots EXCEPT ![l] = lot]
      /\ consumptions' = Append(consumptions, row)
      /\ job' = [job EXCEPT !.candidates = @ \ {l}, !.left = @ - amount,
                            !.cost = @ + row.basis]
      /\ gaps' = gaps /\ events' = events /\ db' = db
  BY <1>2 DEF ConsumeLot
<1>4. /\ l \in DOMAIN lots /\ CanPay(l, event)
      /\ \A k \in DOMAIN lots : lots[k].source_event < event
      /\ lots[l] \in Lot /\ StatusTells(lots[l])
  BY <1>1, <1>2 DEF IInv, JobSound, Sound, StatusesOf
<1>5. lots[l].remaining_basis \in Nat /\ job.left \in Nat /\ job.cost \in Nat
  BY <1>1, <1>4 DEF CanPay, Spendable, StatusTells, Lot, Bases, Allocating
<1>6. row.lot = l /\ row.event = event /\ row.amount = amount
  BY DEF ConsumptionOf
<1>7. /\ lot.source_event = lots[l].source_event /\ lot.original_basis = lots[l].original_basis
      /\ lot.remaining_basis = lots[l].remaining_basis - row.basis
  BY <1>4 DEF Consumed, ConsumptionOf, Lot
<1> HIDE DEF row, lot, amount
<1>8. row \in Consumption /\ lot \in Lot
  <2>1. lots' \in Seq(Lot) /\ consumptions' \in Seq(Consumption)
    BY ConsumeLotIInv DEF IInv, Sound, TablesTyped
  <2>2. consumptions'[Len(consumptions) + 1] = row /\ lots'[l] = lot
        /\ Len(consumptions) + 1 \in DOMAIN consumptions' /\ l \in DOMAIN lots'
    BY <1>1, <1>3, <1>4
  <2> QED BY <2>1, <2>2
<1>9. lot.remaining_basis \in Nat /\ row.basis \in Nat /\ row.amount \in Nat
      /\ lots[l].remaining_basis = lot.remaining_basis + row.basis
  <2>1. row.basis \in Nat /\ row.amount \in Nat
    BY <1>8 DEF Consumption
  <2>2. lot.remaining_basis \in Bases
    BY <1>8 DEF Lot
  <2>3. lots[l].remaining_basis - row.basis # NoBasis
    BY <1>5, <2>1, NoBasisAssumption
  <2> QED BY <1>5, <1>7, <2>1, <2>2, <2>3 DEF Bases
<1>10. SumsSound(lots', consumptions', gaps, events, DOMAIN events \ {event})
  <2>1. SumsSound(lots, consumptions, gaps, events, DOMAIN events \ {event})
    BY <1>1 DEF SumInv, Settled
  <2>2. \A k \in DOMAIN lots : lots[k].source_event # event
    <3>1. \A k \in DOMAIN lots : lots[k] \in Lot
      BY <1>1
    <3> QED BY <1>1, <1>4, <3>1 DEF Lot
  <2>3. Sound(lots, consumptions, gaps, events) /\ event \notin DOMAIN events \ {event}
    BY DEF IInv
  <2> HIDE DEF event
  <2> QED BY <1>3, <1>4, <1>6, <1>7, <1>8, <1>9, <2>1, <2>2, <2>3, ConsumeSums
<1>11. /\ job'.left = job.left - row.amount /\ job'.cost = job.cost + row.basis
       /\ job'.phase = "allocating" /\ job' # NoJob
  <2>1. /\ job'.left = job.left - row.amount /\ job'.cost = job.cost + row.basis
        /\ job'.phase = job.phase
    BY <1>1, <1>3, <1>6 DEF Allocating
  <2>2. job' # NoJob
    <3>1. job' \in Allocating
      BY ConsumeLotIInv
    <3> QED BY <3>1, NoJobAssumption
  <2> QED BY <1>1, <2>1, <2>2 DEF IsAllocating
<1>12. JobSums'
  <2> DEFINE S == DrawnBy(consumptions, event)
  <2>1. events[event].drawn = AmountSum(consumptions, S) + job.left
        /\ job.cost = BasisSum(consumptions, S) /\ GapsOf(gaps, event) = {}
    BY <1>1 DEF SumInv, JobSums
  <2>2. /\ S \in SUBSET DOMAIN consumptions
        /\ DrawnBy(consumptions', event) = S \cup {Len(consumptions) + 1}
    BY <1>1, <1>3, <1>6, <1>8, AppendRowSelects
  <2> HIDE DEF S
  <2>3. /\ AmountSum(consumptions', DrawnBy(consumptions', event))
             = AmountSum(consumptions, S) + row.amount
        /\ BasisSum(consumptions', DrawnBy(consumptions', event))
             = BasisSum(consumptions, S) + row.basis
    BY <1>1, <1>3, <1>8, <2>2, AppendRowSums
  <2>4. AmountSum(consumptions, S) \in Nat /\ BasisSum(consumptions, S) \in Nat
    BY <1>1, <2>2, RowSumsNat
  <2>5. events[event].drawn = AmountSum(consumptions', DrawnBy(consumptions', event)) + job'.left
    BY <1>5, <1>9, <1>11, <2>1, <2>3, <2>4
  <2>6. job'.cost = BasisSum(consumptions', DrawnBy(consumptions', event))
    BY <1>11, <2>1, <2>3
  <2> QED BY <1>3, <2>1, <2>5, <2>6 DEF JobSums, event
<1>13. Settled' = DOMAIN events \ {event}
  BY <1>3, <1>11 DEF Settled, IsAllocating, event
<1> QED BY <1>3, <1>10, <1>12, <1>13 DEF SumInv

(* The end of an allocation settles its event: what was not taken is the   *)
(* gap, and the swap's lot is priced at the cost only if there is none.    *)
LEMMA FinishAllocationSums ==
    ASSUME IInv, SumInv, FinishAllocation
    PROVE  SumInv'
<1>1. /\ IsAllocating /\ job' = [phase |-> "committing"]
      /\ consumptions' = consumptions /\ events' = events /\ db' = db
      /\ gaps' = gaps \cup Missing(event, job.left)
  BY DEF FinishAllocation, ReportedGap, Missing
<1>2. /\ job \in Allocating /\ event \in DOMAIN events /\ event \in Nat
      /\ events[event] \in Event /\ lots \in Seq(Lot)
  BY <1>1, AllocatingJob
<1>3. job.left \in Nat /\ job.cost \in Nat /\ job.target \in Target \cup {NoTarget}
  BY <1>2 DEF Allocating
<1>4. \A k \in DOMAIN lots : lots[k].source_event # event
  <2>1. \A k \in DOMAIN lots : lots[k].source_event < event /\ lots[k] \in Lot
    BY <1>1, <1>2 DEF IInv, JobSound
  <2> QED BY <1>2, <2>1 DEF Lot
<1> HIDE DEF event
<1>5. /\ SumsSound(lots, consumptions, gaps', events, DOMAIN events)
      /\ (GapsOf(gaps', event) # {} <=> job.left > 0)
  <2>1. SumsSound(lots, consumptions, gaps, events, DOMAIN events \ {event})
    BY <1>1 DEF SumInv, Settled
  <2>2. /\ events[event].drawn = AmountSum(consumptions, DrawnBy(consumptions, event)) + job.left
        /\ GapsOf(gaps, event) = {}
    BY <1>1 DEF SumInv, JobSums
  <2>3. event \notin DOMAIN events \ {event}
        /\ (DOMAIN events \ {event}) \cup {event} = DOMAIN events
    BY <1>2
  <2>4. Sound(lots, consumptions, gaps, events)
    BY DEF IInv
  <2> DEFINE settled == DOMAIN events \ {event}
  <2> HIDE DEF settled
  <2>5. SumsSound(lots, consumptions, gaps \cup Missing(event, job.left), events,
                  settled \cup {event})
    <3>1. SumsSound(lots, consumptions, gaps, events, settled) /\ event \notin settled
      BY <2>1, <2>3 DEF settled
    <3>2. \A g \in gaps : g.event # event
      BY <2>2 DEF GapsOf
    <3>3. events[event].drawn = AmountSum(consumptions, DrawnBy(consumptions, event)) + job.left
      BY <2>2
    <3> QED BY <1>2, <1>3, <1>4, <2>4, <3>1, <3>2, <3>3, GapSums
  <2>6. GapsOf(gaps', event) # {} <=> job.left > 0
    <3>1. \A g \in gaps : g.event # event
      BY <2>2 DEF GapsOf
    <3>2. CASE job.left > 0
      <4>1. [event |-> event, shortfall |-> job.left] \in GapsOf(gaps', event)
        BY <1>1, <3>2 DEF GapsOf, Missing
      <4> QED BY <3>2, <4>1
    <3>3. CASE ~(job.left > 0)
      BY <1>1, <3>1, <3>3 DEF GapsOf, Missing
    <3> QED BY <3>2, <3>3
  <2> QED BY <1>1, <2>3, <2>5, <2>6 DEF settled
<1>6. SumsSound(lots', consumptions, gaps', events, DOMAIN events)
  <2>1. CASE job.target = NoTarget
    BY <1>5, <2>1 DEF FinishAllocation
  <2>2. CASE job.target # NoTarget
    <3> DEFINE lot == NewLot(events[event].user, job.target.currency, event,
                             job.target.amount, TargetBasis, now)
    <3>1. lots' = Append(lots, lot)
      BY <2>2 DEF FinishAllocation
    <3>2. lot \in Lot
      <4>1. lots' \in Seq(Lot)
        BY FinishAllocationIInv DEF IInv, Sound, TablesTyped
      <4>2. lots'[Len(lots) + 1] = lot /\ Len(lots) + 1 \in DOMAIN lots'
        BY <1>2, <3>1
      <4> QED BY <4>1, <4>2
    <3>3. /\ lot.source_event = event /\ lot.original_basis = TargetBasis
          /\ lot.remaining_basis = lot.original_basis
      BY DEF NewLot
    <3> HIDE DEF lot
    <3>4. lot.original_basis = IF GapsOf(gaps', event) # {} THEN NoBasis
                               ELSE BasisSum(consumptions, DrawnBy(consumptions, event))
      <4>1. job.cost = BasisSum(consumptions, DrawnBy(consumptions, event))
        BY <1>1 DEF SumInv, JobSums
      <4> QED BY <1>3, <1>5, <3>3, <4>1 DEF TargetBasis
    <3>5. Sound(lots, consumptions, gaps', events)
      <4>1. gaps' \subseteq Gap
        BY <1>1, FinishAllocationIInv DEF IInv, Sound, TablesTyped
      <4> QED BY <4>1 DEF IInv, Sound, TablesTyped
    <3> QED BY <1>5, <3>1, <3>2, <3>3, <3>4, <3>5, AppendLotSums
  <2> QED BY <2>1, <2>2
<1>7. ~IsAllocating'
  BY <1>1 DEF IsAllocating
<1> QED BY <1>1, <1>6, <1>7 DEF SumInv, JobSums, Settled

(* A commit publishes tables in which every event is settled. *)
LEMMA CommitSums ==
    ASSUME SumInv, Commit
    PROVE  SumInv'
<1>1. /\ ~IsAllocating /\ ~IsAllocating' /\ UNCHANGED tables /\ db' = Books
  BY DEF Commit, IsAllocating
<1> QED BY <1>1 DEF SumInv, JobSums, Settled, tables, Books

(* A rollback returns to the settled tables that were committed last. *)
LEMMA RollbackSums ==
    ASSUME SumInv, Rollback
    PROVE  SumInv'
<1>1. ~IsAllocating'
  BY DEF Rollback, IsAllocating
<1> QED BY <1>1 DEF Rollback, SumInv, JobSums, Settled

(* Every step keeps the sums. *)
LEMMA NextSums == IInv /\ SumInv /\ [Next]_vars => SumInv'
<1> SUFFICES ASSUME IInv, SumInv, [Next]_vars PROVE SumInv'
  OBVIOUS
<1>1. ASSUME NEW u \in Users, NEW c \in Currencies, NEW t \in Times, NEW a \in Amounts,
             NEW b \in Costs, RecordInflow(u, c, t, a, b)
      PROVE  SumInv'
  BY <1>1, RecordInflowSums
<1>2. ASSUME NEW u \in Users, NEW c \in Currencies, NEW t \in Times, NEW a \in Amounts,
             NEW g \in Target \cup {NoTarget}, BeginAllocation(u, c, t, a, g)
      PROVE  SumInv'
  BY <1>2, BeginAllocationSums
<1>3. CASE ConsumeLot
  BY <1>3, ConsumeLotSums
<1>4. CASE FinishAllocation
  BY <1>4, FinishAllocationSums
<1>5. CASE Commit
  BY <1>5, CommitSums
<1>6. CASE Rollback
  BY <1>6, RollbackSums
<1>7. CASE UNCHANGED vars
  BY <1>7 DEF vars, SumInv, JobSums, Settled, IsAllocating, event
<1> QED BY <1>1, <1>2, <1>3, <1>4, <1>5, <1>6, <1>7 DEF Next

(* The sums hold of every behaviour. *)
THEOREM SumsInvariant == Spec => []SumInv
BY Invariance, InitSums, NextSums, PTL DEF Spec

(* Rows and sums keep each other sound in every behaviour. *)
THEOREM InductiveInvariant == Spec => []Inductive
<1>1. IInv /\ SumInv => Inductive  BY DEF Inductive
<1> QED BY <1>1, Invariance, SumsInvariant, PTL

(* Conservation of RMB, whatever the rounding of each share. *)
THEOREM RmbConserved == Spec => []BasisConserved
<1>1. SumInv => BasisConserved
  BY DEF SumInv, SumsSound, BasisConserved
<1> QED BY <1>1, SumsInvariant, PTL

(* Every committed event is paid for, or says what is missing. *)
THEOREM NothingHalfFunded == Spec => []DemandCovered
<1>1. SumInv => DemandCovered
  BY DEF SumInv, SumsSound, DemandCovered
<1> QED BY <1>1, SumsInvariant, PTL

(* A swap passes its cost on, all of it or none. *)
THEOREM SwapsPassCostOn == Spec => []SwapCarriesCost
<1>1. SumInv => SwapCarriesCost
  BY DEF SumInv, SumsSound, SwapCarriesCost
<1> QED BY <1>1, SumsInvariant, PTL
-----------------------------------------------------------------------------
(* The refinement of FundingPool.                                          *)

(* The pool's sum is the sum. *)
LEMMA PoolSum == \A f, S : Pool!SumFunctionOnSet(f, S) = SumFunctionOnSet(f, S)
BY DEF Pool!SumFunctionOnSet, Pool!FoldFunctionOnSet, Pool!MapThenFoldSet,
       SumFunctionOnSet, FoldFunctionOnSet, MapThenFoldSet

(* What n exceeds a by. *)
Excess(n, a) == IF n - a > 0 THEN n - a ELSE 0

(* The pool's Max({0, n - a}) is that excess. *)
LEMMA PoolMax ==
    ASSUME NEW n \in Int, NEW a \in Int
    PROVE  Pool!Max({0, n - a}) = Excess(n, a)
<1> DEFINE m == Excess(n, a)
           Largest(x) == x \in {0, n - a} /\ \A y \in {0, n - a} : x >= y
<1>1. Largest(m)
  BY DEF Excess
<1>2. \A x : Largest(x) => x = m
  BY DEF Excess
<1> QED BY <1>1, <1>2 DEF Pool!Max

(* What each lot of table L still holds. *)
Remaining(L) == [l \in DOMAIN L |-> L[l].remaining_amount]

(* A table has finitely many lots, each with a natural number in it. *)
LEMMA LotsFinite ==
    ASSUME NEW L \in Seq(Lot), NEW S \in SUBSET DOMAIN L
    PROVE  /\ IsFiniteSet(S) /\ HeldIn(L, S) \in Nat
           /\ \A l \in S : Remaining(L)[l] \in Nat
<1>1. IsFiniteSet(DOMAIN L)
  BY FS_Interval
<1>2. IsFiniteSet(S)
  BY <1>1, FS_Subset
<1>3. \A l \in S : Remaining(L)[l] \in Nat
  <2>1. \A l \in DOMAIN L : L[l] \in Lot
    OBVIOUS
  <2> QED BY <2>1 DEF Lot, Remaining
<1>4. SumFunctionOnSet(Remaining(L), S) \in Nat
  BY <1>2, <1>3, SumNat
<1> QED BY <1>2, <1>3, <1>4 DEF HeldIn, Remaining

(* The priced lots of a user in a currency, by date. *)
PricedIn(L, u, c, T) ==
    {l \in DOMAIN L : /\ L[l].user = u /\ L[l].currency = c
                      /\ L[l].created_at \in T /\ L[l].original_basis # NoBasis}

(* Empty lots add nothing: the money held is that of the priced lots. *)
LEMMA DatedHeld ==
    ASSUME NEW L \in Seq(Lot), StatusesOf(L), NEW u, NEW c, NEW t
    PROVE  HeldIn(L, Dated(L, u, c, t)) = HeldIn(L, PricedIn(L, u, c, {t}))
<1> DEFINE S == PricedIn(L, u, c, {t})
           T == Dated(L, u, c, t)
<1>0. \A l \in DOMAIN L : L[l] \in Lot /\ StatusTells(L[l])
  BY DEF StatusesOf
<1>1. T \in SUBSET S /\ S \in SUBSET DOMAIN L
  BY <1>0 DEF StatusTells, Dated, PricedIn
<1>2. \A l \in S : l \notin T => Remaining(L)[l] = 0
  BY <1>0 DEF StatusTells, Dated, PricedIn, Remaining, Lot, Statuses
<1> HIDE DEF S, T
<1>3. IsFiniteSet(S) /\ \A l \in S : Remaining(L)[l] \in Int
  <2>1. S \in SUBSET DOMAIN L
    BY <1>1
  <2>2. IsFiniteSet(S) /\ \A l \in S : Remaining(L)[l] \in Nat
    BY <2>1, LotsFinite
  <2> QED BY <2>2
<1>4. SumFunctionOnSet(Remaining(L), S) = SumFunctionOnSet(Remaining(L), T)
  BY <1>1, <1>2, <1>3, SumSupport
<1> QED BY <1>4 DEF HeldIn, Remaining, S, T

(* Adding up the pool over dates adds up the lots of those dates. *)
LEMMA PoolHeld ==
    ASSUME NEW L \in Seq(Lot), StatusesOf(L), NEW u \in Users, NEW c \in Currencies,
           NEW T \in SUBSET Times, IsFiniteSet(T)
    PROVE  SumFunctionOnSet([s \in Times |-> PoolOf(L)[<<u, c, s>>]], T)
             = HeldIn(L, PricedIn(L, u, c, T))
<1> DEFINE S == PricedIn(L, u, c, Times)
           key == [l \in DOMAIN L |-> L[l].created_at]
           g == [s \in Times |-> PoolOf(L)[<<u, c, s>>]]
<1>1. S \in SUBSET DOMAIN L
  BY DEF PricedIn
<1>2. ASSUME NEW k \in T
      PROVE  g[k] = SumFunctionOnSet(Remaining(L), Group(S, key, k))
  <2>1. g[k] = HeldIn(L, Dated(L, u, c, k))
    BY DEF PoolOf
  <2>2. Group(S, key, k) = PricedIn(L, u, c, {k})
    BY DEF PricedIn, Group, Groups
  <2>3. HeldIn(L, Dated(L, u, c, k)) = HeldIn(L, PricedIn(L, u, c, {k}))
    BY DatedHeld
  <2>4. g[k] = SumFunctionOnSet(Remaining(L), PricedIn(L, u, c, {k}))
    BY <2>1, <2>3 DEF HeldIn, Remaining
  <2> HIDE DEF g, S, key
  <2> QED BY <2>2, <2>4
<1>3. Groups(S, key, T) = PricedIn(L, u, c, T)
  BY DEF PricedIn, Group, Groups
<1> HIDE DEF S, g, key
<1>4. IsFiniteSet(S) /\ \A l \in S : Remaining(L)[l] \in Int
  <2>1. IsFiniteSet(S) /\ \A l \in S : Remaining(L)[l] \in Nat
    BY <1>1, LotsFinite
  <2> QED BY <2>1
<1>5. SumFunctionOnSet(g, T) = SumFunctionOnSet(Remaining(L), Groups(S, key, T))
  <2> DEFINE f == Remaining(L)
  <2>1. \A k \in T : g[k] = SumFunctionOnSet(f, Group(S, key, k))
    BY <1>2
  <2>2. \A x \in S : f[x] \in Int
    BY <1>4
  <2> HIDE DEF f
  <2>3. SumFunctionOnSet(g, T) = SumFunctionOnSet(f, Groups(S, key, T))
    BY <1>4, <2>1, <2>2, SumByGroup
  <2> QED BY <2>3 DEF f
<1> QED BY <1>3, <1>5 DEF HeldIn, Remaining, g

(* The pool that table L stands for, as seen from outside. *)
LEMMA AppendPool ==
    ASSUME NEW L \in Seq(Lot), NEW lot \in Lot
    PROVE  PoolOf(Append(L, lot)) =
             IF lot.status = "AVAILABLE"
             THEN [PoolOf(L) EXCEPT ![<<lot.user, lot.currency, lot.created_at>>]
                                      = @ + lot.remaining_amount]
             ELSE PoolOf(L)
<1> DEFINE M == Append(L, lot)
           n == Len(L) + 1
           place == <<lot.user, lot.currency, lot.created_at>>
           Keys == Users \X Currencies \X Times
<1>1. /\ M \in Seq(Lot) /\ DOMAIN M = DOMAIN L \cup {n} /\ M[n] = lot /\ n \notin DOMAIN L
      /\ \A l \in DOMAIN L : M[l] = L[l]
  OBVIOUS
<1>2. place \in Keys
  BY DEF Lot
<1> HIDE DEF M, n
<1>3. ASSUME NEW S \in SUBSET DOMAIN L
      PROVE  /\ HeldIn(M, S) = HeldIn(L, S)
             /\ HeldIn(M, S \cup {n}) = HeldIn(L, S) + lot.remaining_amount
  <2>1. /\ IsFiniteSet(S) /\ n \notin S /\ S \cup {n} \in SUBSET DOMAIN M
        /\ \A l \in S : Remaining(M)[l] = Remaining(L)[l]
    BY <1>1, LotsFinite DEF Remaining
  <2>2. \A l \in S \cup {n} : Remaining(M)[l] \in Int
    <3>1. \A l \in DOMAIN M : M[l] \in Lot
      BY <1>1
    <3> QED BY <2>1, <3>1 DEF Remaining, Lot
  <2>3. Remaining(M)[n] = lot.remaining_amount
    BY <1>1 DEF Remaining
  <2>4. SumFunctionOnSet(Remaining(M), S) = SumFunctionOnSet(Remaining(L), S)
    BY <2>1, SumSame
  <2>5. SumFunctionOnSet(Remaining(M), S \cup {n})
          = SumFunctionOnSet(Remaining(M), S) + Remaining(M)[n]
    BY <2>1, <2>2, SumAdd
  <2> QED BY <2>3, <2>4, <2>5 DEF HeldIn, Remaining
<1>4. ASSUME NEW k \in Keys
      PROVE  Dated(M, k[1], k[2], k[3]) =
               IF lot.status = "AVAILABLE" /\ k = place
               THEN Dated(L, k[1], k[2], k[3]) \cup {n} ELSE Dated(L, k[1], k[2], k[3])
  BY <1>1 DEF Dated
<1>5. ASSUME NEW k \in Keys
      PROVE  PoolOf(M)[k] = IF lot.status = "AVAILABLE" /\ k = place
                            THEN PoolOf(L)[k] + lot.remaining_amount ELSE PoolOf(L)[k]
  <2> DEFINE S == Dated(L, k[1], k[2], k[3])
  <2>1. S \in SUBSET DOMAIN L
    BY DEF Dated
  <2>2. PoolOf(L)[k] = HeldIn(L, S) /\ PoolOf(M)[k] = HeldIn(M, Dated(M, k[1], k[2], k[3]))
    BY DEF PoolOf
  <2>3. Dated(M, k[1], k[2], k[3]) = IF lot.status = "AVAILABLE" /\ k = place
                                     THEN S \cup {n} ELSE S
    BY <1>4
  <2> HIDE DEF S, place
  <2> QED BY <1>3, <2>1, <2>2, <2>3
<1>6. PoolOf(M) = [k \in Keys |-> PoolOf(M)[k]] /\ PoolOf(L) = [k \in Keys |-> PoolOf(L)[k]]
  BY DEF PoolOf
<1> HIDE DEF place, Keys
<1> DEFINE P == PoolOf(L)
           Q == PoolOf(M)
<1> HIDE DEF P, Q
<1>7. Q = IF lot.status = "AVAILABLE" THEN [P EXCEPT ![place] = @ + lot.remaining_amount] ELSE P
  BY <1>2, <1>5, <1>6 DEF P, Q
<1> QED BY <1>7 DEF P, Q, M, place
-----------------------------------------------------------------------------
(* Money spent oldest lot first is money spent oldest date first.          *)

(* Two groups of lots of a table hold what they hold together. *)
LEMMA HeldSplit ==
    ASSUME NEW L \in Seq(Lot), NEW S \in SUBSET DOMAIN L, NEW T \in SUBSET DOMAIN L,
           \A x \in S : x \notin T
    PROVE  HeldIn(L, S \cup T) = HeldIn(L, S) + HeldIn(L, T)
<1> DEFINE f == Remaining(L)
<1>1. IsFiniteSet(S) /\ \A x \in S : f[x] \in Nat
  BY LotsFinite
<1>2. IsFiniteSet(T) /\ \A x \in T : f[x] \in Nat
  BY LotsFinite
<1>3. S \cap T = {} /\ \A x \in S \cup T : f[x] \in Int
  BY <1>1, <1>2
<1> HIDE DEF f
<1>4. SumFunctionOnSet(f, S \cup T) = SumFunctionOnSet(f, S) + SumFunctionOnSet(f, T)
  BY <1>1, <1>2, <1>3, SumSplit
<1> QED BY <1>4 DEF f, HeldIn, Remaining

(* Spending takes; what a group holds shrinks only if one of its lots does. *)
LEMMA HeldShrinks ==
    ASSUME NEW L \in Seq(Lot), NEW M \in Seq(Lot), DOMAIN M = DOMAIN L, Drawn(L, M),
           NEW S \in SUBSET DOMAIN L
    PROVE  /\ HeldIn(M, S) <= HeldIn(L, S)
           /\ (\A l \in S : ~ (M[l].remaining_amount < L[l].remaining_amount))
                => HeldIn(M, S) = HeldIn(L, S)
<1>1. IsFiniteSet(S) /\ \A x \in S : Remaining(L)[x] \in Nat
  BY LotsFinite
<1>2. \A x \in S : Remaining(M)[x] \in Nat
  BY LotsFinite
<1>3. \A x \in S : Remaining(M)[x] <= Remaining(L)[x]
  BY DEF Drawn, Remaining
<1>4. \A x \in S : /\ Remaining(L)[x] = L[x].remaining_amount
                   /\ Remaining(M)[x] = M[x].remaining_amount
  BY DEF Remaining
<1> DEFINE f == Remaining(L)
           g == Remaining(M)
<1> HIDE DEF f, g
<1>5. \A x \in S : f[x] \in Int /\ g[x] \in Int /\ g[x] <= f[x]
  BY <1>1, <1>2, <1>3 DEF f, g
<1>6. SumFunctionOnSet(g, S) <= SumFunctionOnSet(f, S)
  BY <1>1, <1>5, SumMonotone
<1>7. ASSUME \A l \in S : ~ (M[l].remaining_amount < L[l].remaining_amount)
      PROVE  SumFunctionOnSet(g, S) = SumFunctionOnSet(f, S)
  <2>1. \A x \in S : g[x] = f[x]
    BY <1>4, <1>5, <1>7 DEF f, g
  <2> QED BY <1>1, <2>1, SumSame
<1> QED BY <1>6, <1>7 DEF f, g, HeldIn, Remaining

(* Nothing is taken from a group of lots before all those ahead are empty. *)
LEMMA AheadIsEmpty ==
    ASSUME NEW L \in Seq(Lot), NEW M \in Seq(Lot), NEW e, Drawn(L, M), SpentInOrder(L, M, e),
           NEW S \in SUBSET Purse(L, e), NEW T \in SUBSET Purse(L, e),
           \A k \in S : \A l \in T : Precedes(L, k, l),
           HeldIn(M, T) # HeldIn(L, T)
    PROVE  HeldIn(M, S) = 0
<1>1. /\ DOMAIN M = DOMAIN L /\ S \in SUBSET DOMAIN L /\ T \in SUBSET DOMAIN L
      /\ S \in SUBSET DOMAIN M
  BY DEF SpentInOrder, Purse
<1>2. PICK l \in T : M[l].remaining_amount < L[l].remaining_amount
  BY <1>1, HeldShrinks
<1>3. \A k \in S : Remaining(M)[k] = 0
  BY <1>1, <1>2 DEF SpentInOrder, Remaining
<1>4. IsFiniteSet(S)
  BY <1>1, LotsFinite
<1>5. SumFunctionOnSet(Remaining(M), S) = 0
  BY <1>3, <1>4, SumZero
<1> QED BY <1>5 DEF HeldIn, Remaining

(* The dates before s. *)
DatesBefore(s) == {r \in Times : r < s}

(* What is left of date s, when event e has taken all that was needed, or   *)
(* less because its purse is empty.                                        *)
LEMMA SpentByDate ==
    ASSUME NEW L \in Seq(Lot), NEW M \in Seq(Lot), NEW e \in Event,
           Drawn(L, M), SpentInOrder(L, M, e),
           NEW needed \in Nat,
           \/ HeldIn(L, Purse(L, e)) - HeldIn(M, Purse(L, e)) = needed
           \/ HeldIn(L, Purse(L, e)) <= needed /\ HeldIn(M, Purse(L, e)) = 0,
           NEW s \in Times, s <= e.time
    PROVE  HeldIn(M, PricedIn(L, e.user, e.currency, {s}))
             = Excess(HeldIn(L, PricedIn(L, e.user, e.currency, {s})),
                      Excess(needed, HeldIn(L, PricedIn(L, e.user, e.currency, DatesBefore(s)))))
<1> DEFINE A == PricedIn(L, e.user, e.currency, DatesBefore(s))
           B == PricedIn(L, e.user, e.currency, {s})
           C == PricedIn(L, e.user, e.currency, {r \in Times : s < r /\ r <= e.time})
           P == Purse(L, e)
<1>1. /\ DOMAIN M = DOMAIN L /\ Times \subseteq Nat /\ e.time \in Times
      /\ \A l \in DOMAIN L : L[l].created_at \in Times
  <2>1. \A l \in DOMAIN L : L[l] \in Lot
    OBVIOUS
  <2> QED BY <2>1, FundingLotsAssumption DEF SpentInOrder, Lot, Event
<1>2. /\ A \in SUBSET P /\ B \in SUBSET P /\ C \in SUBSET P /\ P \in SUBSET DOMAIN L
      /\ P = A \cup (B \cup C)
      /\ \A x \in A : x \notin B \cup C
      /\ \A x \in B : x \notin C
  <2>1. \A l \in P : /\ l \in A <=> L[l].created_at < s
                     /\ l \in B <=> L[l].created_at = s
                     /\ l \in C <=> s < L[l].created_at
    BY <1>1 DEF PricedIn, Purse, PaysFor, DatesBefore
  <2>2. \A l \in P : L[l].created_at \in Nat
    BY <1>1 DEF Purse
  <2>3. A \in SUBSET P /\ B \in SUBSET P /\ C \in SUBSET P
    <3>1. \A r \in Times : r < s => r <= e.time
      BY <1>1
    <3>2. A \in SUBSET P
      BY <3>1 DEF PricedIn, Purse, PaysFor, DatesBefore
    <3>3. B \in SUBSET P
      BY DEF PricedIn, Purse, PaysFor
    <3>4. C \in SUBSET P
      BY DEF PricedIn, Purse, PaysFor
    <3> QED BY <3>2, <3>3, <3>4
  <2>4. P \in SUBSET DOMAIN L
    BY DEF Purse
  <2> HIDE DEF A, B, C, P
  <2>5. s \in Nat
    BY <1>1
  <2> QED BY <2>1, <2>2, <2>3, <2>4, <2>5
<1>3. /\ \A k \in A : \A l \in B : Precedes(L, k, l)
      /\ \A k \in A : \A l \in C : Precedes(L, k, l)
      /\ \A k \in B : \A l \in C : Precedes(L, k, l)
  <2>1. s \in Nat /\ \A r \in Times : r \in Nat
    BY <1>1
  <2>2. \A k \in A : L[k].created_at \in Times /\ L[k].created_at < s
    BY DEF PricedIn, DatesBefore
  <2>3. \A k \in B : L[k].created_at = s
    BY DEF PricedIn
  <2>4. \A k \in C : L[k].created_at \in Times /\ s < L[k].created_at
    BY DEF PricedIn
  <2> HIDE DEF A, B, C
  <2>5. \A k \in A : \A l \in B : L[k].created_at < L[l].created_at
    BY <2>2, <2>3
  <2>6. \A k \in A : \A l \in C : L[k].created_at < L[l].created_at
    <3>1. \A q, r \in Times : q < s /\ s < r => q < r
      BY <2>1
    <3> QED BY <2>2, <2>4, <3>1
  <2>7. \A k \in B : \A l \in C : L[k].created_at < L[l].created_at
    BY <2>3, <2>4
  <2> QED BY <2>5, <2>6, <2>7 DEF Precedes
<1> HIDE DEF A, B, C, P
<1>4. /\ A \in SUBSET DOMAIN L /\ B \in SUBSET DOMAIN L /\ C \in SUBSET DOMAIN L
      /\ B \cup C \in SUBSET DOMAIN L
  BY <1>2
<1>5. HeldIn(L, P) = HeldIn(L, A) + (HeldIn(L, B) + HeldIn(L, C))
  <2>1. HeldIn(L, A \cup (B \cup C)) = HeldIn(L, A) + HeldIn(L, B \cup C)
    BY <1>2, <1>4, HeldSplit
  <2>2. HeldIn(L, B \cup C) = HeldIn(L, B) + HeldIn(L, C)
    BY <1>2, <1>4, HeldSplit
  <2> QED BY <1>2, <2>1, <2>2
<1>6. HeldIn(M, P) = HeldIn(M, A) + (HeldIn(M, B) + HeldIn(M, C))
  <2>0. /\ A \in SUBSET DOMAIN M /\ B \in SUBSET DOMAIN M /\ C \in SUBSET DOMAIN M
        /\ B \cup C \in SUBSET DOMAIN M
    BY <1>1, <1>4
  <2>1. HeldIn(M, A \cup (B \cup C)) = HeldIn(M, A) + HeldIn(M, B \cup C)
    BY <1>2, <2>0, HeldSplit
  <2>2. HeldIn(M, B \cup C) = HeldIn(M, B) + HeldIn(M, C)
    BY <1>2, <2>0, HeldSplit
  <2> QED BY <1>2, <2>1, <2>2
<1>7. /\ HeldIn(L, A) \in Nat /\ HeldIn(L, B) \in Nat /\ HeldIn(L, C) \in Nat
      /\ HeldIn(M, A) \in Nat /\ HeldIn(M, B) \in Nat /\ HeldIn(M, C) \in Nat
  BY <1>1, <1>4, LotsFinite
<1>8. /\ HeldIn(M, A) <= HeldIn(L, A) /\ HeldIn(M, B) <= HeldIn(L, B)
      /\ HeldIn(M, C) <= HeldIn(L, C)
  BY <1>1, <1>4, HeldShrinks
<1>9. /\ HeldIn(M, B) # HeldIn(L, B) => HeldIn(M, A) = 0
      /\ HeldIn(M, C) # HeldIn(L, C) => HeldIn(M, A) = 0 /\ HeldIn(M, B) = 0
  BY <1>2, <1>3, AheadIsEmpty DEF P
<1>10. \/ HeldIn(L, P) - HeldIn(M, P) = needed
       \/ HeldIn(L, P) <= needed /\ HeldIn(M, P) = 0
  BY DEF P
<1> DEFINE a == HeldIn(L, A)
           b == HeldIn(L, B)
           c == HeldIn(L, C)
           aa == HeldIn(M, A)
           bb == HeldIn(M, B)
           cc == HeldIn(M, C)
<1>11. bb = Excess(b, Excess(needed, a))
  <2>1. \/ a + b + c = aa + bb + cc + needed
        \/ a + b + c <= needed /\ aa = 0 /\ bb = 0 /\ cc = 0
    BY <1>5, <1>6, <1>7, <1>10
  <2> HIDE DEF a, b, c, aa, bb, cc
  <2>2. /\ a \in Nat /\ b \in Nat /\ c \in Nat /\ aa \in Nat /\ bb \in Nat /\ cc \in Nat
        /\ aa <= a /\ bb <= b /\ cc <= c
        /\ (bb # b => aa = 0) /\ (cc # c => aa = 0 /\ bb = 0)
    BY <1>7, <1>8, <1>9 DEF a, b, c, aa, bb, cc
  <2> QED BY <2>1, <2>2 DEF Excess
<1> QED BY <1>11 DEF A, B
-----------------------------------------------------------------------------
(* The pool of the committed lots, and what a finished job makes of it.    *)

(* What the pool holds over some dates is in the priced lots of those dates. *)
LEMMA PoolHolds ==
    ASSUME IInv, NEW u \in Users, NEW c \in Currencies, NEW T \in SUBSET Times, IsFiniteSet(T)
    PROVE  Pool!Held(PoolOf(db.lots), u, c, T) = HeldIn(db.lots, PricedIn(db.lots, u, c, T))
<1>1. db.lots \in Seq(Lot) /\ StatusesOf(db.lots)
  BY DEF IInv, Sound, TablesTyped
<1> DEFINE L == db.lots
<1> HIDE DEF L
<1>2. SumFunctionOnSet([s \in Times |-> PoolOf(L)[<<u, c, s>>]], T) = HeldIn(L, PricedIn(L, u, c, T))
  BY <1>1, PoolHeld DEF L
<1> QED BY <1>2, PoolSum DEF L, Pool!Held

(* There are finitely many dates before a date. *)
LEMMA DatesFinite ==
    ASSUME NEW t \in Times
    PROVE  IsFiniteSet(DatesBefore(t)) /\ IsFiniteSet({r \in Times : r <= t})
<1>0. Times \subseteq Nat /\ t \in Nat
  BY FundingLotsAssumption
<1>1. DatesBefore(t) \in SUBSET (0 .. t) /\ {r \in Times : r <= t} \in SUBSET (0 .. t)
  <2>1. \A r \in Times : r < t \/ r <= t => r \in 0 .. t
    BY <1>0
  <2> QED BY <2>1 DEF DatesBefore
<1>2. IsFiniteSet(0 .. t)
  BY <1>0, FS_Interval
<1> QED BY <1>1, <1>2, FS_Subset

(* Spending keeps a lot's owner, currency, date and pricing. *)
LEMMA SpentKeepsGroups ==
    ASSUME NEW L, NEW M, NEW e, SpentInOrder(L, M, e), NEW u, NEW c, NEW T
    PROVE  PricedIn(M, u, c, T) = PricedIn(L, u, c, T)
BY DEF SpentInOrder, SameOrigin, PricedIn

(* When the loop is over and money is missing, the purse is empty. *)
LEMMA PurseEmpty ==
    ASSUME IInv, IsAllocating, LoopDone, job.left > 0,
           SpentInOrder(db.lots, lots, events[event])
    PROVE  HeldIn(lots, Purse(db.lots, events[event])) = 0
<1> DEFINE P == Purse(db.lots, events[event])
<1>1. lots \in Seq(Lot) /\ StatusesOf(lots)
  BY DEF IInv, Sound, TablesTyped
<1>2. \A k \in DOMAIN lots : ~CanPay(k, event)
  <2>1. job.candidates = {}
    <3>1. job.left \in Nat
      BY AllocatingJob DEF Allocating
    <3> QED BY <3>1 DEF LoopDone
  <2> QED BY <2>1 DEF IInv, JobSound
<1>3. P \in SUBSET DOMAIN lots
  BY DEF Purse, SpentInOrder
<1>4. ASSUME NEW l \in P
      PROVE  Remaining(lots)[l] = 0
  <2>1. SameOrigin(db.lots[l], lots[l]) /\ PaysFor(db.lots[l], events[event])
    BY <1>4 DEF SpentInOrder, Purse
  <2>2. PaysFor(lots[l], events[event])
    BY <2>1 DEF SameOrigin, PaysFor
  <2>3. lots[l] \in Lot /\ StatusTells(lots[l])
    BY <1>1, <1>3 DEF StatusesOf
  <2>4. lots[l].status # "AVAILABLE" \/ ~ (lots[l].remaining_amount > 0)
    BY <1>2, <1>3, <2>2 DEF CanPay, Spendable, PaysFor
  <2>5. lots[l].remaining_amount = 0
    BY <2>2, <2>3, <2>4 DEF StatusTells, PaysFor, Lot, Statuses
  <2> QED BY <1>3, <2>5 DEF Remaining
<1> HIDE DEF P
<1>5. IsFiniteSet(P)
  BY <1>1, <1>3, LotsFinite
<1>6. SumFunctionOnSet(Remaining(lots), P) = 0
  BY <1>4, <1>5, SumZero
<1> QED BY <1>6 DEF HeldIn, Remaining, P

(* When its loop is over, an allocation has made the lots what the pool    *)
(* says spending makes of them.                                            *)
LEMMA SpentPool ==
    ASSUME IInv, PoolInv, IsAllocating, LoopDone
    PROVE  LET e == events[event]
           IN  /\ e.user \in Users /\ e.currency \in Currencies /\ e.time \in Times
               /\ e.drawn \in Amounts
               /\ PoolOf(lots) = Pool!Withdraw(PoolOf(db.lots), e.user, e.currency, e.time, e.drawn)
               /\ job.left = 0 => Pool!Held(PoolOf(db.lots), e.user, e.currency, Pool!UpTo(e.time)) >= e.drawn
<1> DEFINE e == events[event]
           L == db.lots
           u == e.user
           c == e.currency
           t == e.time
           n == e.drawn
<1>1. /\ e \in Event /\ job \in Allocating /\ job.left \in Nat
  BY AllocatingJob DEF Allocating
<1>2. /\ L \in Seq(Lot) /\ StatusesOf(L) /\ lots \in Seq(Lot) /\ StatusesOf(lots)
      /\ Drawn(L, lots)
  BY DEF IInv, Sound, TablesTyped, JobSound
<1>3. /\ SpentInOrder(L, lots, e) /\ n \in Amounts
      /\ HeldIn(L, Purse(L, e)) - HeldIn(lots, Purse(L, e)) = n - job.left
  BY DEF PoolInv, TakenBy
<1>4. u \in Users /\ c \in Currencies /\ t \in Times /\ n \in Nat /\ t \in Nat
  BY <1>1, <1>3, FundingLotsAssumption DEF Event
<1>5. \/ HeldIn(L, Purse(L, e)) - HeldIn(lots, Purse(L, e)) = n
      \/ HeldIn(L, Purse(L, e)) <= n /\ HeldIn(lots, Purse(L, e)) = 0
  <2>1. job.left > 0 => HeldIn(lots, Purse(L, e)) = 0
    BY <1>3, PurseEmpty
  <2>2. HeldIn(L, Purse(L, e)) \in Nat /\ HeldIn(lots, Purse(L, e)) \in Nat
    <3>1. Purse(L, e) \in SUBSET DOMAIN L /\ Purse(L, e) \in SUBSET DOMAIN lots
      BY <1>3 DEF Purse, SpentInOrder
    <3> QED BY <1>2, <3>1, LotsFinite
  <2> HIDE DEF e, L
  <2> QED BY <1>1, <1>3, <1>4, <2>1, <2>2
<1> HIDE DEF L, e
<1>6. ASSUME NEW k \in Users \X Currencies \X Times
      PROVE  PoolOf(lots)[k] = IF k[1] = u /\ k[2] = c
                               THEN Pool!Left(PoolOf(db.lots), u, c, k[3], t, n) ELSE PoolOf(L)[k]
  <2> DEFINE S == PricedIn(L, k[1], k[2], {k[3]})
  <2>0. k[1] \in Users /\ k[2] \in Currencies /\ k[3] \in Times /\ k = <<k[1], k[2], k[3]>>
    OBVIOUS
  <2>1. PoolOf(lots)[k] = HeldIn(lots, S)
    <3>1. PoolOf(lots)[k] = HeldIn(lots, Dated(lots, k[1], k[2], k[3]))
      BY DEF PoolOf
    <3>2. HeldIn(lots, Dated(lots, k[1], k[2], k[3]))
            = HeldIn(lots, PricedIn(lots, k[1], k[2], {k[3]}))
      BY <1>2, DatedHeld
    <3>3. PricedIn(lots, k[1], k[2], {k[3]}) = S
      BY <1>3, SpentKeepsGroups
    <3> QED BY <3>1, <3>2, <3>3
  <2>2. PoolOf(L)[k] = HeldIn(L, S)
    <3>1. PoolOf(L)[k] = HeldIn(L, Dated(L, k[1], k[2], k[3]))
      BY DEF PoolOf
    <3> QED BY <1>2, <3>1, DatedHeld
  <2>3. CASE k[1] = u /\ k[2] = c /\ k[3] <= t
    <3> DEFINE T == DatesBefore(k[3])
               a == HeldIn(L, PricedIn(L, u, c, T))
               b == HeldIn(L, PricedIn(L, u, c, {k[3]}))
    <3>1. HeldIn(lots, PricedIn(L, u, c, {k[3]})) = Excess(b, Excess(n, a))
      <4> DEFINE s == k[3]
      <4>1. s \in Times /\ s <= e.time /\ n \in Nat
        BY <1>4, <2>0, <2>3
      <4>2. \/ HeldIn(L, Purse(L, e)) - HeldIn(lots, Purse(L, e)) = n
            \/ HeldIn(L, Purse(L, e)) <= n /\ HeldIn(lots, Purse(L, e)) = 0
        BY <1>5
      <4> HIDE DEF s, n
      <4>3. HeldIn(lots, PricedIn(L, e.user, e.currency, {s}))
             = Excess(HeldIn(L, PricedIn(L, e.user, e.currency, {s})),
                      Excess(n, HeldIn(L, PricedIn(L, e.user, e.currency, DatesBefore(s)))))
        BY <1>1, <1>2, <1>3, <1>5, <4>1, <4>2, SpentByDate
      <4> QED BY <4>3 DEF s, n
    <3>2. Pool!Held(PoolOf(db.lots), u, c, Pool!Earlier(k[3])) = a
      <4>1. IsFiniteSet(T) /\ T \in SUBSET Times
        BY <2>0, DatesFinite DEF DatesBefore
      <4>2. T = Pool!Earlier(k[3])
        BY DEF DatesBefore, Pool!Earlier
      <4> HIDE DEF T
      <4>3. Pool!Held(PoolOf(db.lots), u, c, T) = HeldIn(db.lots, PricedIn(db.lots, u, c, T))
        BY <1>4, <4>1, PoolHolds
      <4> QED BY <4>2, <4>3 DEF L
    <3>3. PoolOf(L)[<<u, c, k[3]>>] = b
      BY <2>0, <2>2, <2>3
    <3>4. a \in Nat /\ b \in Nat
      <4>1. /\ PricedIn(L, u, c, T) \in SUBSET DOMAIN L
            /\ PricedIn(L, u, c, {k[3]}) \in SUBSET DOMAIN L
        BY DEF PricedIn
      <4> HIDE DEF T
      <4> QED BY <1>2, <4>1, LotsFinite
    <3> HIDE DEF a, b
    <3>5. Pool!Max({0, n - a}) = Excess(n, a) /\ Excess(n, a) \in Nat
      BY <1>4, <3>4, PoolMax DEF Excess
    <3>6. Pool!Max({0, b - Excess(n, a)}) = Excess(b, Excess(n, a))
      BY <3>4, <3>5, PoolMax
    <3>7. Pool!Left(PoolOf(db.lots), u, c, k[3], t, n) = Pool!Max({0, b - Excess(n, a)})
      BY <2>3, <3>2, <3>3, <3>5 DEF Pool!Left, L
    <3> QED BY <2>1, <2>3, <3>1, <3>6, <3>7
  <2>4. CASE ~ (k[1] = u /\ k[2] = c /\ k[3] <= t)
    <3>1. S \in SUBSET DOMAIN L /\ \A l \in S : l \notin Purse(L, e)
      BY <2>4 DEF PricedIn, Purse, PaysFor
    <3>2. \A l \in S : lots[l] = L[l]
      BY <1>3, <3>1 DEF SpentInOrder
    <3>3. \A l \in S : ~ (lots[l].remaining_amount < L[l].remaining_amount)
      <4>1. \A l \in DOMAIN L : L[l] \in Lot
        BY <1>2
      <4> HIDE DEF S
      <4> QED BY <3>1, <3>2, <4>1 DEF Lot
    <3>4. DOMAIN lots = DOMAIN L
      BY <1>3 DEF SpentInOrder
    <3> HIDE DEF S
    <3>5. HeldIn(lots, S) = HeldIn(L, S)
      BY <1>2, <3>1, <3>3, <3>4, HeldShrinks
    <3>6. k[1] = u /\ k[2] = c => Pool!Left(PoolOf(db.lots), u, c, k[3], t, n) = PoolOf(L)[k]
      BY <2>0, <2>4 DEF Pool!Left, L
    <3> QED BY <2>1, <2>2, <3>5, <3>6
  <2> QED BY <2>3, <2>4
<1>7. PoolOf(lots) = Pool!Withdraw(PoolOf(db.lots), u, c, t, n)
  <2>1. PoolOf(lots) = [k \in Users \X Currencies \X Times |-> PoolOf(lots)[k]]
    BY DEF PoolOf
  <2>2. Pool!Withdraw(PoolOf(db.lots), u, c, t, n) = [k \in Users \X Currencies \X Times |->
           IF k[1] = u /\ k[2] = c THEN Pool!Left(PoolOf(db.lots), u, c, k[3], t, n) ELSE PoolOf(L)[k]]
    BY DEF Pool!Withdraw, Pool!Keys, L
  <2> QED BY <1>6, <2>1, <2>2
<1>8. ASSUME job.left = 0 PROVE Pool!Held(PoolOf(db.lots), u, c, Pool!UpTo(t)) >= n
  <2> DEFINE T == {r \in Times : r <= t}
             P == Purse(L, e)
  <2>1. IsFiniteSet(T) /\ T \in SUBSET Times
    BY <1>4, DatesFinite
  <2>2. PricedIn(L, u, c, T) = P
    <3>1. \A l \in DOMAIN L : L[l] \in Lot
      BY <1>2
    <3> QED BY <3>1 DEF PricedIn, Purse, PaysFor, Lot
  <2>3. P \in SUBSET DOMAIN L /\ P \in SUBSET DOMAIN lots
    BY <1>3 DEF Purse, SpentInOrder
  <2> HIDE DEF T, P
  <2>4. Pool!Held(PoolOf(db.lots), u, c, T) = HeldIn(L, P)
    BY <1>4, <2>1, <2>2, PoolHolds DEF L
  <2>5. HeldIn(L, P) - HeldIn(lots, P) = n
    BY <1>3, <1>4, <1>8 DEF P
  <2>6. HeldIn(L, P) \in Nat /\ HeldIn(lots, P) \in Nat
    BY <1>2, <2>3, LotsFinite
  <2>7. HeldIn(L, P) >= n
    BY <1>4, <2>5, <2>6
  <2> QED BY <2>4, <2>7 DEF T, Pool!UpTo
<1> QED BY <1>3, <1>4, <1>7, <1>8 DEF e
-----------------------------------------------------------------------------
(* PoolInv is inductive relative to IInv: one lemma per action.            *)

(* A lot that can pay is in the event's purse, and the other way round     *)
(* unless it is empty.                                                     *)
LEMMA PurseCanPay ==
    ASSUME IInv, IsAllocating, SpentInOrder(db.lots, lots, events[event]), NEW l \in DOMAIN lots
    PROVE  /\ CanPay(l, event) => l \in Purse(db.lots, events[event])
           /\ l \in Purse(db.lots, events[event]) =>
                CanPay(l, event) \/ lots[l].remaining_amount = 0
<1> DEFINE e == events[event]
<1>1. /\ lots \in Seq(Lot) /\ StatusesOf(lots) /\ DOMAIN lots = DOMAIN db.lots
  BY DEF IInv, Sound, TablesTyped, SpentInOrder
<1>2. lots[l] \in Lot /\ StatusTells(lots[l])
  BY <1>1 DEF StatusesOf
<1>3. l \in Purse(db.lots, e) <=> PaysFor(lots[l], e)
  BY <1>1 DEF SpentInOrder, SameOrigin, Purse, PaysFor
<1>4. CanPay(l, event) => PaysFor(lots[l], e)
  BY <1>2 DEF CanPay, Spendable, PaysFor, StatusTells
<1>5. PaysFor(lots[l], e) => CanPay(l, event) \/ lots[l].remaining_amount = 0
  BY <1>2 DEF CanPay, Spendable, PaysFor, StatusTells, Lot, Statuses
<1> QED BY <1>3, <1>4, <1>5

(* A new lot is a deposit, or nothing if it is unpriced. *)
LEMMA RecordInflowPool ==
    ASSUME IInv, PoolInv, NEW u \in Users, NEW c \in Currencies, NEW t \in Times,
           NEW a \in Amounts, NEW b \in Costs, RecordInflow(u, c, t, a, b)
    PROVE  PoolInv'
<1> DEFINE lot == NewLot(u, c, event + 1, a, b, t)
           L == db.lots
<1>1. /\ job = NoJob /\ lots' = Append(lots, lot) /\ db' = db
      /\ job' = [phase |-> "committing"]
  BY DEF RecordInflow, RecordEvent
<1>2. lots = L /\ L \in Seq(Lot) /\ event \in Nat
  BY <1>1 DEF IInv, JobSound, Books, Sound, TablesTyped, event
<1>3. a \in Nat /\ b \in Bases
  BY FundingLotsAssumption
<1>4. /\ lot \in Lot /\ lot.user = u /\ lot.currency = c /\ lot.created_at = t
      /\ lot.remaining_amount = a
  BY <1>2, <1>3 DEF NewLot, Lot, Statuses
<1> HIDE DEF lot
<1>5. PoolOf(lots') = PoolOf(L) \/ PoolOf(lots') = Pool!Deposit(PoolOf(L), u, c, t, a)
  <2>1. PoolOf(Append(L, lot)) =
           IF lot.status = "AVAILABLE"
           THEN [PoolOf(L) EXCEPT ![<<lot.user, lot.currency, lot.created_at>>]
                                    = @ + lot.remaining_amount]
           ELSE PoolOf(L)
    BY <1>2, <1>4, AppendPool
  <2> HIDE DEF L
  <2>2. lots' = Append(L, lot)
    BY <1>1, <1>2
  <2> QED BY <1>4, <2>1, <2>2 DEF Pool!Deposit
<1>6. PoolOf(lots') = PoolOf(L) \/ Pool!Allowed(PoolOf(L), PoolOf(lots'))
  BY <1>5 DEF Pool!Allowed
<1>7. ~IsAllocating'
  BY <1>1 DEF IsAllocating
<1> QED BY <1>1, <1>6, <1>7 DEF PoolInv

(* An allocation starts from the committed lots. *)
LEMMA BeginAllocationPool ==
    ASSUME IInv, PoolInv, NEW u \in Users, NEW c \in Currencies, NEW t \in Times,
           NEW a \in Amounts, NEW g \in Target \cup {NoTarget},
           BeginAllocation(u, c, t, a, g)
    PROVE  PoolInv'
<1> DEFINE e == [user |-> u, currency |-> c, drawn |-> a, time |-> t]
<1>1. /\ job = NoJob /\ events' = Append(events, e) /\ lots' = lots /\ db' = db
      /\ job'.left = a /\ job'.phase = "allocating"
  BY DEF BeginAllocation, RecordEvent
<1>2. lots = db.lots /\ lots \in Seq(Lot) /\ events \in Seq(Event)
  BY <1>1 DEF IInv, JobSound, Books, Sound, TablesTyped
<1>3. e.drawn = a
  OBVIOUS
<1> HIDE DEF e
<1>4. events'[Len(events')] = e
  <2>1. e \in Event
    BY FundingLotsAssumption DEF Event, e
  <2> QED BY <1>1, <1>2, <2>1
<1>5. a \in Nat /\ a \in Amounts
  BY FundingLotsAssumption
<1>6. SpentInOrder(lots, lots, e)
  <2>1. \A l \in DOMAIN lots : lots[l] \in Lot
    BY <1>2
  <2> QED BY <2>1 DEF SpentInOrder, SameOrigin, Lot
<1>7. HeldIn(lots, Purse(lots, e)) \in Nat
  <2>1. Purse(lots, e) \in SUBSET DOMAIN lots
    BY DEF Purse
  <2> QED BY <1>2, <2>1, LotsFinite
<1>8. HeldIn(lots, Purse(lots, e)) - HeldIn(lots, Purse(lots, e)) = a - a
  BY <1>5, <1>7
<1> QED BY <1>1, <1>2, <1>3, <1>4, <1>5, <1>6, <1>8 DEF PoolInv, TakenBy, event, IsAllocating

(* One turn of the loop takes `amount' from the first lot of the purse     *)
(* that is not empty.                                                      *)
LEMMA ConsumeLotPool ==
    ASSUME IInv, PoolInv, ConsumeLot
    PROVE  PoolInv'
<1>1. /\ IsAllocating /\ job \in Allocating /\ event \in DOMAIN events
      /\ lots \in Seq(Lot) /\ StatusesOf(lots) /\ job.left > 0
  BY AllocatingJob DEF ConsumeLot, IInv, Sound
<1>2. PICK l \in job.candidates :
        /\ NextInLine(l)
        /\ LET amount == Smaller(lots[l].remaining_amount, job.left)
               row == ConsumptionOf(l, lots[l], event, amount)
           IN  /\ lots' = [lots EXCEPT ![l] = Consumed(@, amount)]
               /\ job' = [job EXCEPT !.candidates = @ \ {l},
                                     !.left = @ - amount,
                                     !.cost = @ + row.basis]
  BY DEF ConsumeLot
<1> DEFINE amount == Smaller(lots[l].remaining_amount, job.left)
           e == events[event]
           P == Purse(db.lots, e)
           lot == Consumed(lots[l], amount)
<1>3. /\ lots' = [lots EXCEPT ![l] = lot] /\ events' = events /\ db' = db
      /\ job'.left = job.left - amount
  BY <1>1, <1>2 DEF ConsumeLot, Allocating
<1>4. /\ l \in DOMAIN lots /\ CanPay(l, event) /\ job.left \in Nat
      /\ \A k \in DOMAIN lots : CanPay(k, event) => k \in job.candidates
  BY <1>1, <1>2 DEF IInv, JobSound, Allocating
<1>5. lots[l] \in Lot /\ lots[l].remaining_amount \in Nat /\ lots[l].remaining_amount > 0
  <2>1. lots[l] \in Lot
    BY <1>1, <1>4
  <2>2. lots[l].remaining_amount > 0
    BY <1>4 DEF CanPay, Spendable
  <2> QED BY <2>1, <2>2 DEF Lot
<1>6. amount \in Nat
  BY <1>4, <1>5 DEF Smaller
<1> HIDE DEF amount
<1>7. SameOrigin(lots[l], lot) /\ lot.remaining_amount = lots[l].remaining_amount - amount
  BY <1>5 DEF Consumed, SameOrigin, Lot
<1> HIDE DEF lot
<1>8. /\ DOMAIN lots' = DOMAIN lots /\ lots'[l] = lot
      /\ \A k \in DOMAIN lots : k # l => lots'[k] = lots[k]
  BY <1>3, <1>4
<1>9. /\ SpentInOrder(db.lots, lots, e) /\ e.drawn \in Amounts
      /\ HeldIn(db.lots, P) - HeldIn(lots, P) = e.drawn - job.left
  BY <1>1 DEF PoolInv, TakenBy
<1>10. l \in P /\ P \in SUBSET DOMAIN lots
  BY <1>1, <1>4, <1>9, PurseCanPay DEF Purse, SpentInOrder
<1> HIDE DEF e, P
<1>11. HeldIn(lots', P) = HeldIn(lots, P) - amount
  <2> DEFINE f == Remaining(lots)
             g == Remaining(lots')
  <2>1. IsFiniteSet(P) /\ \A x \in P : f[x] \in Nat
    BY <1>1, <1>10, LotsFinite
  <2>2. f[l] = lots[l].remaining_amount /\ g[l] = lot.remaining_amount
    BY <1>4, <1>8 DEF Remaining
  <2>3. \A x \in P : x # l => g[x] = f[x]
    BY <1>8, <1>10 DEF Remaining
  <2>4. SumFunctionOnSet(f, P) \in Nat
    <3> HIDE DEF f
    <3> QED BY <2>1, SumNat
  <2>5. (\A x \in P : f[x] \in Int) /\ g[l] \in Int
    BY <1>5, <1>6, <1>7, <2>1, <2>2
  <2> HIDE DEF f, g
  <2>6. SumFunctionOnSet(g, P) = SumFunctionOnSet(f, P) - f[l] + g[l]
    BY <1>10, <2>1, <2>3, <2>5, SumChange
  <2>7. SumFunctionOnSet(g, P) = SumFunctionOnSet(f, P) - amount
    BY <1>5, <1>6, <1>7, <2>2, <2>4, <2>6
  <2> QED BY <2>7 DEF f, g, HeldIn, Remaining
<1>12. HeldIn(db.lots, P) - HeldIn(lots', P) = e.drawn - job'.left
  <2>1. HeldIn(lots, P) \in Nat /\ HeldIn(db.lots, P) \in Nat
    <3>1. P \in SUBSET DOMAIN db.lots /\ db.lots \in Seq(Lot)
      BY DEF P, Purse, IInv, Sound, TablesTyped
    <3> QED BY <1>1, <1>10, <3>1, LotsFinite
  <2>2. e.drawn \in Nat
    BY <1>9, FundingLotsAssumption
  <2> QED BY <1>3, <1>4, <1>6, <1>9, <1>11, <2>1, <2>2
<1>13. SpentInOrder(db.lots, lots', e)
  <2>1. /\ DOMAIN lots = DOMAIN db.lots
        /\ \A k \in DOMAIN lots : IF k \in P THEN SameOrigin(db.lots[k], lots[k])
                                             ELSE lots[k] = db.lots[k]
    BY <1>9 DEF SpentInOrder, P
  <2>2. \A k \in DOMAIN lots : IF k \in P THEN SameOrigin(db.lots[k], lots'[k])
                                          ELSE lots'[k] = db.lots[k]
    BY <1>7, <1>8, <1>10, <2>1 DEF SameOrigin
  <2>3. ASSUME NEW m \in DOMAIN lots, lots'[m].remaining_amount < db.lots[m].remaining_amount,
               NEW k \in P, Precedes(db.lots, k, m)
        PROVE  lots'[k].remaining_amount = 0
    <3>1. k \in DOMAIN lots
      BY <1>10
    <3>2. CASE m # l
      <4>1. lots[k].remaining_amount = 0
        BY <1>8, <1>9, <2>1, <2>3, <3>2 DEF SpentInOrder, P
      <4>2. k # l
        BY <1>5, <4>1
      <4> QED BY <1>8, <3>1, <4>1, <4>2
    <3>3. CASE m = l
      <4>1. /\ db.lots[k].created_at = lots[k].created_at
            /\ db.lots[l].created_at = lots[l].created_at
        BY <1>4, <1>10, <2>1, <3>1 DEF SameOrigin
      <4>2. Precedes(lots, k, l)
        BY <2>3, <3>3, <4>1 DEF Precedes
      <4>3. lots[k].created_at \in Nat /\ lots[l].created_at \in Nat /\ k \in Nat /\ l \in Nat
        <5>1. lots[k] \in Lot
          BY <1>1, <3>1
        <5>2. k \in Nat /\ l \in Nat
          BY <1>1, <1>4, <3>1
        <5> QED BY <1>5, <5>1, <5>2, FundingLotsAssumption DEF Lot
      <4>4. k # l /\ ~ Precedes(lots, l, k)
        BY <4>2, <4>3 DEF Precedes
      <4>5. ~ CanPay(k, event)
        BY <1>2, <1>4, <3>1, <4>4 DEF NextInLine
      <4>6. lots[k].remaining_amount = 0
        BY <1>1, <1>9, <3>1, <4>5, PurseCanPay DEF P, e
      <4> QED BY <1>8, <3>1, <4>4, <4>6
    <3> QED BY <3>2, <3>3
  <2> QED BY <1>8, <2>1, <2>2, <2>3 DEF SpentInOrder, P
<1>14. job' # NoJob /\ job'.phase = "allocating"
  <2>1. job' \in Allocating
    BY ConsumeLotIInv
  <2> QED BY <2>1, NoJobAssumption DEF Allocating
<1> QED BY <1>3, <1>9, <1>12, <1>13, <1>14 DEF PoolInv, TakenBy, IsAllocating, event, e, P

(* A finished allocation is a withdrawal; a swap that was paid for in full  *)
(* is an exchange, one that was not adds nothing to the pool.              *)
LEMMA FinishAllocationPool ==
    ASSUME IInv, PoolInv, FinishAllocation
    PROVE  PoolInv'
<1> DEFINE e == events[event]
           L == db.lots
           W == Pool!Withdraw(PoolOf(L), e.user, e.currency, e.time, e.drawn)
<1>1. /\ IsAllocating /\ LoopDone /\ job' = [phase |-> "committing"] /\ db' = db
  BY DEF FinishAllocation
<1>2. /\ job \in Allocating /\ event \in DOMAIN events /\ event \in Nat
      /\ e \in Event /\ lots \in Seq(Lot)
  BY <1>1, AllocatingJob
<1>3. job.left \in Nat /\ job.cost \in Nat /\ job.target \in Target \cup {NoTarget}
  BY <1>2 DEF Allocating
<1>4. /\ e.user \in Users /\ e.currency \in Currencies /\ e.time \in Times
      /\ e.drawn \in Amounts /\ PoolOf(lots) = W
      /\ job.left = 0 => Pool!Held(PoolOf(L), e.user, e.currency, Pool!UpTo(e.time)) >= e.drawn
  BY <1>1, SpentPool
<1>5. Pool!Allowed(PoolOf(L), PoolOf(lots'))
  <2>1. CASE PoolOf(lots') = W
    BY <1>4, <2>1 DEF Pool!Allowed
  <2>2. CASE job.target # NoTarget
    <3> DEFINE d == job.target.currency
               b == job.target.amount
               lot == NewLot(e.user, d, event, b, TargetBasis, e.time)
    <3>1. lots' = Append(lots, lot)
      BY <2>2 DEF FinishAllocation, now
    <3>2. d \in Currencies /\ b \in Amounts /\ b \in Nat
      BY <1>3, <2>2, FundingLotsAssumption DEF Target
    <3>3. TargetBasis \in Bases /\ (TargetBasis = NoBasis <=> job.left # 0)
      BY <1>3, NoBasisAssumption DEF TargetBasis, Bases
    <3>4. /\ lot \in Lot /\ lot.user = e.user /\ lot.currency = d /\ lot.created_at = e.time
          /\ lot.remaining_amount = b /\ (lot.status = "AVAILABLE" <=> job.left = 0)
      BY <1>2, <1>4, <3>2, <3>3 DEF NewLot, Lot, Statuses
    <3> HIDE DEF lot, d, b, e, W, L
    <3>5. PoolOf(Append(lots, lot)) =
             IF lot.status = "AVAILABLE"
             THEN [PoolOf(lots) EXCEPT ![<<lot.user, lot.currency, lot.created_at>>]
                                         = @ + lot.remaining_amount]
             ELSE PoolOf(lots)
      BY <1>2, <3>4, AppendPool
    <3>6. CASE job.left = 0
      <4>1. PoolOf(lots') = Pool!Exchange(PoolOf(L), e.user, e.currency, e.time, e.drawn, d, b)
        BY <1>4, <3>1, <3>4, <3>5, <3>6 DEF Pool!Exchange, Pool!Deposit, W
      <4> QED BY <1>4, <3>2, <3>6, <4>1 DEF Pool!Allowed
    <3>7. CASE job.left # 0
      <4>1. PoolOf(lots') = W
        BY <1>4, <3>1, <3>4, <3>5, <3>7
      <4> QED BY <2>1, <4>1
    <3> QED BY <3>6, <3>7
  <2>3. CASE job.target = NoTarget
    BY <1>4, <2>1, <2>3 DEF FinishAllocation
  <2> QED BY <2>2, <2>3
<1>6. ~IsAllocating'
  BY <1>1 DEF IsAllocating
<1> QED BY <1>1, <1>5, <1>6 DEF PoolInv

(* Every step keeps PoolInv. *)
LEMMA NextPool == IInv /\ PoolInv /\ [Next]_vars => PoolInv'
<1> SUFFICES ASSUME IInv, PoolInv, [Next]_vars PROVE PoolInv'
  OBVIOUS
<1>1. ASSUME NEW u \in Users, NEW c \in Currencies, NEW t \in Times, NEW a \in Amounts,
             NEW b \in Costs, RecordInflow(u, c, t, a, b)
      PROVE  PoolInv'
  BY <1>1, RecordInflowPool
<1>2. ASSUME NEW u \in Users, NEW c \in Currencies, NEW t \in Times, NEW a \in Amounts,
             NEW g \in Target \cup {NoTarget}, BeginAllocation(u, c, t, a, g)
      PROVE  PoolInv'
  BY <1>2, BeginAllocationPool
<1>3. CASE ConsumeLot
  BY <1>3, ConsumeLotPool
<1>4. CASE FinishAllocation
  BY <1>4, FinishAllocationPool
<1>5. CASE Commit \/ Rollback
  BY <1>5 DEF Commit, Rollback, PoolInv, IsAllocating
<1>6. CASE UNCHANGED vars
  BY <1>6 DEF vars, PoolInv, TakenBy, IsAllocating, event
<1> QED BY <1>1, <1>2, <1>3, <1>4, <1>5, <1>6 DEF Next

(* In every behaviour an allocation empties its purse oldest lot first. *)
THEOREM PoolInvariant == Spec => []PoolInv
<1>1. Init => PoolInv
  BY DEF Init, PoolInv, IsAllocating
<1> QED BY <1>1, Invariance, NextPool, PTL DEF Spec

(* A commit is a step of the pool, and every other step leaves it alone.   *)
LEMMA PoolStep == PoolInv /\ [Next]_vars => [Pool!Next]_(PoolOf(db.lots))
<1> SUFFICES ASSUME PoolInv, [Next]_vars
             PROVE  PoolOf(db'.lots) = PoolOf(db.lots)
                    \/ Pool!Allowed(PoolOf(db.lots), PoolOf(db'.lots))
  BY DEF Pool!Next
<1>1. CASE Commit
  <2>1. db'.lots = lots /\ job # NoJob /\ ~IsAllocating
    BY <1>1 DEF Commit, Books, IsAllocating
  <2> QED BY <2>1 DEF PoolInv
<1>2. CASE db' = db
  BY <1>2
<1> QED BY <1>1, <1>2 DEF Next, vars, RecordInflow, BeginAllocation, ConsumeLot, NextInLine,
                          FinishAllocation, Rollback

(* The empty tables are the empty pool. *)
LEMMA PoolInit == Init => Pool!Init
<1> SUFFICES ASSUME Init PROVE PoolOf(db.lots) = [k \in Users \X Currencies \X Times |-> 0]
  BY DEF Pool!Init, Pool!Keys
<1>1. db.lots = <<>>
  BY DEF Init, Books
<1>2. \A u, c, t : HeldIn(<<>>, Dated(<<>>, u, c, t)) = 0
  <2>1. \A u, c, t : Dated(<<>>, u, c, t) = {}
    BY DEF Dated
  <2> QED BY <2>1, SumEmpty DEF HeldIn
<1> QED BY <1>1, <1>2 DEF PoolOf

(* The lot engine implements the pool: dated money, spent oldest first, one *)
(* atomic step per committed event, whatever happens inside a job.         *)
THEOREM LotsImplementPool == Spec => ImplementsPool
<1>1. Spec => Pool!Init /\ [][Pool!Next]_(PoolOf(db.lots))
  BY PoolInit, PoolInvariant, PoolStep, PTL DEF Spec
<1> QED BY <1>1 DEF ImplementsPool, Pool!Spec
==============================================================================
