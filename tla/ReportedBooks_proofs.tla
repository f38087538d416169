-------------------------- MODULE ReportedBooks_proofs --------------------------
(***************************************************************************)
(* The reports over all histories.  The tables stay typed, and so what     *)
(* Reports_proofs shows of typed tables holds in every history; and the    *)
(* reports and the funding books, two accounts of one history that no code *)
(* ever compares, agree: a cash balance is what the lots hold less what    *)
(* the gaps report, and an asset that the audit calls INCOMPLETE has its   *)
(* gap in the list beside it.                                              *)
(***************************************************************************)
EXTENDS Reports_proofs, FundingAttribution_proofs

-----------------------------------------------------------------------------
(* The tables the reports read.                                            *)

ReportsInv == IInv /\ IsTable(valuations, SnapshotRow) /\ IsTable(rates, RateRow)

LEMMA InitReports == ReportsInit => ReportsInv
BY InitGood, EmptyTable DEF ReportsInit, ReportsInv

LEMMA NextReports == ReportsInv /\ [ReportsNext]_reportVars => ReportsInv'
<1> SUFFICES ASSUME ReportsInv, [ReportsNext]_reportVars PROVE ReportsInv'
  OBVIOUS
<1>1. ASSUME UNCHANGED <<events, books>> PROVE IInv'
  BY <1>1 DEF ReportsInv, IInv, TypeOK, NoStrayRows, NeverSpentTwice, AttributedFromConsumed
<1>2. CASE RecordEvent
  <2>1. IInv'
    BY <1>2, RequestKeeps DEF RecordEvent, Next, Kept, ReportsInv
  <2> QED BY <1>2, <2>1 DEF RecordEvent, ReportsInv
<1>3. CASE RecordValuation
  <2>1. PICK u \in Users, body \in Snapshots : CreateValuation(u, body)
    BY <1>3 DEF RecordValuation
  <2> DEFINE row == [user |-> u, asset |-> body.asset, time |-> body.time,
                     quantity |-> body.quantity, value |-> body.value,
                     currency |-> body.currency, rate |-> body.rate,
                     estimated |-> body.estimated]
  <2>2. row \in SnapshotRow
    BY ReportsAssumption DEF SnapshotRequest, SnapshotRow
  <2>3. valuations' = Insert(valuations, row) /\ UNCHANGED <<events, books, rates>>
    BY <2>1 DEF CreateValuation
  <2> HIDE DEF row
  <2>4. IsTable(valuations', SnapshotRow)
    BY <2>2, <2>3, InsertTyped DEF ReportsInv
  <2> QED BY <1>1, <2>3, <2>4 DEF ReportsInv
<1>4. CASE RefreshRate
  <2>1. PICK row \in RateRows : RecordRate(row)
    BY <1>4 DEF RefreshRate
  <2>2. rates' = Insert(rates, row) /\ UNCHANGED <<events, books, valuations>> /\ row \in RateRow
    BY <2>1, ReportsAssumption DEF RecordRate
  <2>3. IsTable(rates', RateRow)
    BY <2>2, InsertTyped DEF ReportsInv
  <2> QED BY <1>1, <2>2, <2>3 DEF ReportsInv
<1>5. CASE UNCHANGED reportVars
  BY <1>1, <1>5 DEF reportVars, ReportsInv
<1> QED
  BY <1>2, <1>3, <1>4, <1>5 DEF ReportsNext

(* The tables of every history are typed. *)
THEOREM ReportsInvariant == ReportsSpec => []ReportsInv
BY InitReports, NextReports, PTL DEF ReportsSpec

LEMMA InvariantTyped == ReportsInv => ReportsTyped
BY DEF ReportsInv, ReportsTyped, IInv

(* For all histories, whatever their length: an asset in the realized list  *)
(* of a report has no value in that report and no line on the positions    *)
(* page of that date.                                                      *)
THEOREM RealizedIsGone == ReportsSpec => []RealizedNotHeld
<1>1. ReportsInv => RealizedNotHeld
  BY InvariantTyped, RealizedUnheld
<1> QED BY <1>1, ReportsInvariant, PTL

(* For all histories: the calculation trail of every audited currency       *)
(* arrives at the results of its row, and past every event the breakdowns  *)
(* of cash and assets add up to it.                                        *)
THEOREM AuditExplainsReport == ReportsSpec => []AuditReconciles
<1>1. ReportsInv => AuditReconciles
  BY InvariantTyped, AuditExplained
<1> QED BY <1>1, ReportsInvariant, PTL

(* For all histories: when every currency has a rate, nothing is held in    *)
(* CNY and every exchange was recorded with the RMB it moved, what remains *)
(* of the total gain is the sum of the currencies' own exchange-rate gains.*)
THEOREM OverviewIsTheSum == ReportsSpec => []OverviewAddsUp
<1>1. ReportsInv => OverviewAddsUp
  BY InvariantTyped, OverviewSummed
<1> QED BY <1>1, ReportsInvariant, PTL

(* For all histories: on books that can be compared the positions page and *)
(* the report arrive at the same total of assets, and the page and the     *)
(* product calculator at the same gain of a fully attributed asset.        *)
THEOREM SurfacesMatch == ReportsSpec => []SurfacesAgree
<1>1. ReportsInv => SurfacesAgree
  BY InvariantTyped, SurfacesAlike
<1> QED BY <1>1, ReportsInvariant, PTL
-----------------------------------------------------------------------------
(* The balances and the books.                                             *)

(* What a list moves in one currency is the sum of its entries in it. *)
LEMMA MovedInCurrency ==
    ASSUME NEW list \in Seq(CashEntry), NEW u, NEW c
    PROVE  Moved(list, <<u, c>>, u) = SumOf(OfCurrency(list, c), LAMBDA x : x.delta)
<1> DEFINE k == <<u, c>>
           S == {x \in ToSet(list) : x.currency = c}
           D == 1 .. Len(list)
           P == Places(list, Len(list), S)
           m == Moves(list, k, u)
           d == [i \in DOMAIN list |-> list[i].delta]
           s == [i \in DOMAIN list |-> SignedRmb(list[i])]
<1>1. D = DOMAIN list /\ IsFiniteSet(D) /\ \A i \in D : list[i] \in CashEntry /\ list[i] \in ToSet(list)
  <2>1. Len(list) \in Nat /\ DOMAIN list = D
    OBVIOUS
  <2>2. IsFiniteSet(D)
    BY <2>1, FS_Interval
  <2>3. \A i \in DOMAIN list : list[i] \in CashEntry /\ list[i] \in ToSet(list)
    BY DEF ToSet
  <2> QED BY <2>1, <2>2, <2>3
<1>2. \A i \in D : /\ m[i] = Share(k, u, list[i].currency, list[i].delta)
                   /\ d[i] = list[i].delta /\ d[i] \in Int
  BY <1>1 DEF Moves, CashEntry
<1>3. P \subseteq D /\ \A i \in D : i \in P <=> list[i].currency = c
  BY <1>1 DEF Places
<1>4. SumOf(OfCurrency(list, c), LAMBDA x : x.delta) = SumFunctionOnSet(d, P)
  <2>1. /\ \A i \in DOMAIN list : s[i] = SignedRmb(list[i])
        /\ \A i \in DOMAIN list : d[i] = list[i].delta
    OBVIOUS
  <2> HIDE DEF s, d, S
  <2>2. /\ SumOf(Chosen(list, S), SignedRmb) = SumFunctionOnSet(s, Places(list, Len(list), S))
        /\ SumOf(Chosen(list, S), LAMBDA x : x.delta) = SumFunctionOnSet(d, Places(list, Len(list), S))
    BY <2>1, SumsOfChosen
  <2> QED BY <2>2 DEF OfCurrency, S
<1>5. ASSUME NEW i \in D PROVE m[i] \in Int /\ m[i] = IF i \in P THEN d[i] ELSE 0
  <2>1. (<<u, list[i].currency>> = k) <=> (list[i].currency = c)
    OBVIOUS
  <2> HIDE DEF m, P, k, d, D
  <2> QED BY <1>2, <1>3, <2>1 DEF Share
<1>6. Moved(list, k, u) = SumFunctionOnSet(m, D)
  BY DEF Moved
<1> HIDE DEF D, P, S, m, d, s
<1>7. SumFunctionOnSet(m, D) = SumFunctionOnSet(m, P)
  BY <1>1, <1>3, <1>5, SumSupport
<1>8. SumFunctionOnSet(m, P) = SumFunctionOnSet(d, P)
  <2>1. IsFiniteSet(P) /\ \A i \in P : m[i] = d[i]
    BY <1>1, <1>3, <1>5, FS_Subset
  <2> QED BY <2>1, SumSame
<1> QED BY <1>4, <1>6, <1>7, <1>8

LEMMA AmountAdds ==
    ASSUME NEW E, NEW seq \in Seq(E), NEW v,
           \A n \in 1 .. Len(seq) : v[n] \in Int /\ v[n] = seq[n].amount
    PROVE  Adding!Folded(E, E, E, 0, seq) = SumFunctionOnSet(v, 1 .. Len(seq))
<1> DEFINE N == Len(seq)
<1>1. N \in Nat /\ \A n \in 1 .. N : v[n] \in Int
  OBVIOUS
<1>2. /\ 0 \in Sums(v, N)[0]
      /\ \A n \in 1 .. N : \A x \in Sums(v, N)[n - 1] : x + v[n] \in Sums(v, N)[n]
      /\ \A x \in Sums(v, N)[N] : x = SumFunctionOnSet(v, 1 .. N)
  <2> HIDE DEF N
  <2> QED BY <1>1, PrefixSums
<1>3. \A x : \A n \in 1 .. N : AddOn(E, E, E, x, seq[n]) = x + v[n]
  BY DEF AddOn
<1>4. \A n \in 1 .. N : \A x \in Sums(v, N)[n - 1] : AddOn(E, E, E, x, seq[n]) \in Sums(v, N)[n]
  BY <1>2, <1>3
<1>5. Adding!Folded(E, E, E, 0, seq) \in Sums(v, N)[N]
  BY <1>2, <1>4, Adding!Advances
<1> QED BY <1>2, <1>5

(* What a list of assets costs in one currency is the sum of their amounts. *)
LEMMA PaidInCurrency ==
    ASSUME NEW E, NEW list \in Seq(E), \A n \in 1 .. Len(list) : list[n].amount \in Int,
           NEW u, NEW c
    PROVE  /\ PaidFor(list, <<u, c>>, u) = SumOf(OfCurrency(list, c), LAMBDA x : x.amount)
           /\ PaidFor(list, <<u, c>>, u) \in Int
<1> DEFINE k == <<u, c>>
           S == {x \in ToSet(list) : x.currency = c}
           D == 1 .. Len(list)
           P == Places(list, Len(list), S)
           m == Prices(list, k, u)
           d == [i \in DOMAIN list |-> list[i].amount]
           taken == Chosen(list, S)
           v == [n \in DOMAIN taken |-> taken[n].amount]
           X == S \cap ToSet(list)
<1>1. D = DOMAIN list /\ IsFiniteSet(D) /\ \A i \in D : list[i].amount \in Int /\ list[i] \in ToSet(list)
  <2>1. Len(list) \in Nat /\ DOMAIN list = D
    OBVIOUS
  <2>2. IsFiniteSet(D)
    BY <2>1, FS_Interval
  <2>3. \A i \in DOMAIN list : list[i] \in ToSet(list)
    BY DEF ToSet
  <2> QED BY <2>1, <2>2, <2>3
<1>2. \A i \in D : /\ m[i] = Share(k, u, list[i].currency, list[i].amount)
                   /\ d[i] = list[i].amount /\ d[i] \in Int
  BY <1>1 DEF Prices
<1>3. P \subseteq D /\ \A i \in D : i \in P <=> list[i].currency = c
  BY <1>1 DEF Places
<1>4. ASSUME NEW i \in D PROVE m[i] \in Int /\ m[i] = IF i \in P THEN d[i] ELSE 0
  <2>1. (<<u, list[i].currency>> = k) <=> (list[i].currency = c)
    OBVIOUS
  <2> HIDE DEF m, P, k, d, D
  <2> QED BY <1>2, <1>3, <2>1 DEF Share
<1>5. PaidFor(list, k, u) = SumFunctionOnSet(m, D)
  BY DEF PaidFor
<1>6. taken \in Seq(X)
  <2>1. list \in Seq(ToSet(list))
    BY Members
  <2> HIDE DEF S
  <2> QED BY <2>1, ChosenList
<1>7. DOMAIN taken = 1 .. Len(taken)
  BY <1>6
<1>8. /\ \A n \in 1 .. Len(taken) : v[n] \in Int
      /\ SumFunctionOnSet(v, 1 .. Len(taken)) = SumFunctionOnSet(d, P)
  <2>1. \A n \in DOMAIN Chosen(list, S) : \A i \in DOMAIN list :
          Chosen(list, S)[n] = list[i] => v[n] = d[i]
    OBVIOUS
  <2>2. \A i \in DOMAIN list : d[i] \in Int
    BY <1>1, <1>2
  <2> HIDE DEF v, d, S
  <2>3. /\ \A n \in 1 .. Len(Chosen(list, S)) : v[n] \in Int
        /\ SumFunctionOnSet(v, 1 .. Len(Chosen(list, S))) = SumFunctionOnSet(d, Places(list, Len(list), S))
    BY <2>1, <2>2, ChosenSum
  <2> QED BY <2>3
<1>9. Adding!Folded(X, X, X, 0, taken) = SumFunctionOnSet(v, 1 .. Len(taken))
  <2>1. \A n \in 1 .. Len(taken) : v[n] \in Int /\ v[n] = taken[n].amount
    BY <1>7, <1>8
  <2> HIDE DEF taken, v, X
  <2> QED BY <1>6, <2>1, AmountAdds
<1>10. SumOf(taken, LAMBDA x : x.amount) = Adding!Folded(X, X, X, 0, taken)
  BY DEF SumOf, AddOn, Adding!Folded, Adding!FoldLeft, Adding!MapThenFoldSet,
         FoldLeft, MapThenFoldSet, Adding!Max, Max
<1>11. taken = OfCurrency(list, c)
  BY DEF OfCurrency
<1> HIDE DEF D, P, S, m, d, v, taken, X
<1>12. SumFunctionOnSet(m, D) = SumFunctionOnSet(m, P) /\ SumFunctionOnSet(m, D) \in Int
  BY <1>1, <1>3, <1>4, SumSupport, SumInt
<1>13. SumFunctionOnSet(m, P) = SumFunctionOnSet(d, P)
  <2>1. IsFiniteSet(P) /\ \A i \in P : m[i] = d[i]
    BY <1>1, <1>3, <1>4, FS_Subset
  <2> QED BY <2>1, SumSame
<1> QED BY <1>5, <1>8, <1>9, <1>10, <1>11, <1>12, <1>13

Other(type) == type \notin {"FX_BUY", "FX_SELL", "FX_SWAP", "MANUAL_ADJUSTMENT"} \cup Returns \cup Purchases

(* The handler of each type. *)
LEMMA ProcessIs ==
    ASSUME NEW b, NEW evs, NEW e
    PROVE  /\ evs[e].status # "CONFIRMED" \/ Other(evs[e].type) => Process(b, evs, e) = b
           /\ evs[e].status = "CONFIRMED" =>
                /\ evs[e].type = "FX_BUY" => Process(b, evs, e) = FxBuy(b, e, evs[e])
                /\ evs[e].type = "FX_SELL" => Process(b, evs, e) = FxSell(b, e, evs[e])
                /\ evs[e].type = "FX_SWAP" => Process(b, evs, e) = FxSwap(b, e, evs[e])
                /\ evs[e].type \in Returns =>
                     Process(b, evs, e) = IncomeOrRedemption(b, evs, e, evs[e])
                /\ evs[e].type = "MANUAL_ADJUSTMENT" =>
                     Process(b, evs, e) = ManualAdjustment(b, e, evs[e])
                /\ evs[e].type \in Purchases => Process(b, evs, e) = AssetPurchase(b, e, evs[e])
  BY DEF Process, Other, Returns, Purchases

LEMMA LegsKnown ==
    ASSUME NEW ev, LegsHandled(ev)
    PROVE  /\ ev.status = "CONFIRMED"
           /\ ev.type = "FX_SELL" => Inflows(ev.cash) = <<>>
           /\ ev.type = "FX_SWAP" => Len(Inflows(ev.cash)) = 1 /\ Len(Outflows(ev.cash)) = 1
           /\ ev.type \in Returns \cup {"FX_BUY", "MANUAL_ADJUSTMENT"} => Outflows(ev.cash) = <<>>
           /\ Other(ev.type) => Inflows(ev.cash) = <<>> /\ Outflows(ev.cash) = <<>>
           /\ ev.type \in Purchases =>
                /\ Inflows(ev.cash) = <<>>
                /\ \A c \in {x.currency : x \in ToSet(ev.cash) \cup ToSet(ev.assets)} \ {CNY} :
                     SumOf(OfCurrency(Outflows(ev.cash), c), LAMBDA x : x.delta)
                        = -SumOf(OfCurrency(Purchased(ev), c), LAMBDA x : x.amount)
  BY DEF LegsHandled, Other, Returns, Purchases

(* An empty list moves nothing. *)
LEMMA EmptyMoved == \A k, u : Moved(<<>>, k, u) = 0
<1> SUFFICES ASSUME NEW k, NEW u PROVE Moved(<<>>, k, u) = 0
  OBVIOUS
<1>1. <<>> \in Seq({}) /\ \A n \in 1 .. Len(<<>>) : FALSE
  OBVIOUS
<1> QED BY <1>1, NothingMoved

(* The handler of a confirmed purchase takes what goes out. *)
LEMMA PurchasePaid ==
    ASSUME NEW ev, ev.cash \in Seq(CashEntry), ev.assets \in Seq(AssetEntry),
           LegsHandled(ev), ev.type \in Purchases, NEW u, NEW c, c # CNY
    PROVE  /\ Moved(Outflows(ev.cash), <<u, c>>, u) = -PaidFor(Purchased(ev), <<u, c>>, u)
           /\ PaidFor(Purchased(ev), <<u, c>>, u) \in Int
<1> DEFINE out == Outflows(ev.cash)
           list == Purchased(ev)
           k == <<u, c>>
           listed == {x.currency : x \in ToSet(ev.cash) \cup ToSet(ev.assets)} \ {CNY}
<1>1. /\ out \in Seq(CashEntry) /\ ToSet(out) \subseteq ToSet(ev.cash)
      /\ list \in Seq(ToSet(list)) /\ ToSet(list) \subseteq ToSet(ev.assets)
      /\ \A x \in ToSet(list) : x.amount \in Int
  <2>2. out = Chosen(ev.cash, Leaving(ev.cash)) /\ Leaving(ev.cash) \subseteq ToSet(ev.cash)
    BY DEF Outflows, Leaving
  <2>1. /\ Chosen(ev.cash, Leaving(ev.cash)) \in Seq(ToSet(Chosen(ev.cash, Leaving(ev.cash))))
        /\ ToSet(Chosen(ev.cash, Leaving(ev.cash))) \subseteq Leaving(ev.cash)
        /\ Leaving(ev.cash) \subseteq CashEntry
        /\ Chosen(ev.cash, Leaving(ev.cash)) \in Seq(Leaving(ev.cash))
    BY <2>2, ChosenMembers
  <2>3. out \in Seq(CashEntry)
    BY <2>1, <2>2
  <2>5. list = Chosen(ev.assets, Bought(ev.assets)) /\ Bought(ev.assets) \subseteq ToSet(ev.assets)
    BY DEF Purchased, Bought
  <2>4. /\ Chosen(ev.assets, Bought(ev.assets)) \in Seq(ToSet(Chosen(ev.assets, Bought(ev.assets))))
        /\ ToSet(Chosen(ev.assets, Bought(ev.assets))) \subseteq Bought(ev.assets)
        /\ Bought(ev.assets) \subseteq AssetEntry
        /\ Chosen(ev.assets, Bought(ev.assets)) \in Seq(Bought(ev.assets))
    BY <2>5, ChosenMembers
  <2>6. \A x \in ToSet(list) : x.amount \in Int
    BY AssetLegs
  <2> HIDE DEF out, list
  <2> QED BY <2>1, <2>2, <2>3, <2>4, <2>5, <2>6
<1>2. /\ \A n \in 1 .. Len(out) : out[n] \in ToSet(out)
      /\ \A n \in 1 .. Len(list) : list[n] \in ToSet(list)
  <2>1. Len(out) \in Nat /\ DOMAIN out = 1 .. Len(out) /\ Len(list) \in Nat /\ DOMAIN list = 1 .. Len(list)
    <3> HIDE DEF out, list
    <3> QED BY <1>1
  <2> HIDE DEF out, list
  <2> QED BY <2>1 DEF ToSet
<1>3. \A d \in listed : SumOf(OfCurrency(out, d), LAMBDA x : x.delta)
                          = -SumOf(OfCurrency(list, d), LAMBDA x : x.amount)
  BY LegsKnown
<1> HIDE DEF out, list
<1>4. Moved(out, k, u) = SumOf(OfCurrency(out, c), LAMBDA x : x.delta)
  BY <1>1, MovedInCurrency
<1>5. /\ PaidFor(list, k, u) = SumOf(OfCurrency(list, c), LAMBDA x : x.amount)
      /\ PaidFor(list, k, u) \in Int
  <2>1. \A n \in 1 .. Len(list) : list[n].amount \in Int
    BY <1>1, <1>2
  <2> QED BY <1>1, <2>1, PaidInCurrency
<1>6. CASE c \in listed
  BY <1>3, <1>4, <1>5, <1>6 DEF out, list
<1>7. CASE c \notin listed
  <2>1. /\ \A n \in 1 .. Len(out) : <<u, out[n].currency>> # k
        /\ \A n \in 1 .. Len(list) : <<u, list[n].currency>> # k
    <3>1. /\ \A n \in 1 .. Len(out) : out[n].currency # c
          /\ \A n \in 1 .. Len(list) : list[n].currency # c
      BY <1>1, <1>2, <1>7
    <3> QED BY <3>1
  <2> HIDE DEF k
  <2>2. Moved(out, k, u) = 0
    BY <1>1, <2>1, NothingMoved
  <2>3. PaidFor(list, k, u) = 0
    BY <1>1, <2>1, NothingMoved
  <2> QED BY <2>2, <2>3 DEF out, list, k
<1> QED BY <1>6, <1>7

(* What the books hold after the handler of each type. *)
LEMMA HandlerNet ==
    ASSUME NEW before, NEW evs, NEW u, NEW exact, NEW served,
           NEW b \in SoundBooks(before, evs, u, exact, served),
           NEW e, Handles(evs, e, u, served), NEW k
    PROVE  /\ evs[e].status # "CONFIRMED" \/ Other(evs[e].type) => Net(Process(b, evs, e), k) = Net(b, k)
           /\ evs[e].status = "CONFIRMED" =>
                /\ evs[e].type \in Returns \cup {"FX_BUY", "MANUAL_ADJUSTMENT"} =>
                     Net(Process(b, evs, e), k) = Net(b, k) + Moved(Inflows(evs[e].cash), k, u)
                /\ evs[e].type = "FX_SELL" =>
                     Net(Process(b, evs, e), k) = Net(b, k) + Moved(Outflows(evs[e].cash), k, u)
                /\ evs[e].type = "FX_SWAP" =>
                     IF TwoLegged(evs[e])
                     THEN Net(Process(b, evs, e), k)
                            = (Net(b, k) + FirstShare(k, u, Outflows(evs[e].cash)))
                                + FirstShare(k, u, Inflows(evs[e].cash))
                     ELSE Net(Process(b, evs, e), k) = Net(b, k)
                /\ evs[e].type \in Purchases =>
                     Net(Process(b, evs, e), k) = Net(b, k) - PaidFor(Purchased(evs[e]), k, u)
<1> DEFINE ev == evs[e]
           in == Moved(Inflows(ev.cash), k, u)
           out == Moved(Outflows(ev.cash), k, u)
           X(amount) == Holders(before, evs, u, exact, served, k, amount)
<1>1. FxBuy(b, e, ev) \in X(Net(b, k) + in) /\ ManualAdjustment(b, e, ev) \in X(Net(b, k) + in)
  BY FxBuyNet
<1>2. IncomeOrRedemption(b, evs, e, ev) \in X(Net(b, k) + in)
  BY IncomeNet
<1>3. FxSell(b, e, ev) \in X(Net(b, k) + out)
  BY FxSellNet
<1>4. AssetPurchase(b, e, ev) \in X(Net(b, k) - PaidFor(Purchased(ev), k, u))
  BY AssetPurchaseNet
<1>5. /\ Net(FxBuy(b, e, ev), k) = Net(b, k) + in
      /\ Net(ManualAdjustment(b, e, ev), k) = Net(b, k) + in
      /\ Net(IncomeOrRedemption(b, evs, e, ev), k) = Net(b, k) + in
      /\ Net(FxSell(b, e, ev), k) = Net(b, k) + out
      /\ Net(AssetPurchase(b, e, ev), k) = Net(b, k) - PaidFor(Purchased(ev), k, u)
  <2> HIDE DEF ev, in, out
  <2> QED BY <1>1, <1>2, <1>3, <1>4 DEF Holders
<1>6. ASSUME TwoLegged(ev)
      PROVE  Net(FxSwap(b, e, ev), k)
               = (Net(b, k) + FirstShare(k, u, Outflows(ev.cash))) + FirstShare(k, u, Inflows(ev.cash))
  <2>1. FxSwap(b, e, evs[e])
          \in Holders(before, evs, u, exact, served, k,
                      (Net(b, k) + FirstShare(k, u, Outflows(evs[e].cash)))
                        + FirstShare(k, u, Inflows(evs[e].cash)))
    BY <1>6, FxSwapNet
  <2> QED BY <2>1 DEF Holders
<1>7. ~TwoLegged(ev) => FxSwap(b, e, ev) = b
  BY DEF FxSwap, TwoLegged
<1> HIDE DEF in, out
<1> QED BY <1>5, <1>6, <1>7, ProcessIs DEF in, out

(* An event changes nothing of what other users' books hold. *)
LEMMA OthersNet ==
    ASSUME NEW before, NEW evs, NEW u, NEW exact, NEW served,
           NEW b \in SoundBooks(before, evs, u, exact, served),
           NEW e, Handles(evs, e, u, served), NEW w, w # u, NEW c
    PROVE  Process(b, evs, e)
             \in Holders(before, evs, u, exact, served, <<w, c>>, Net(b, <<w, c>>))
<1> DEFINE ev == evs[e]
           k == <<w, c>>
           in == Inflows(ev.cash)
           out == Outflows(ev.cash)
           list == Purchased(ev)
<1>1. in \in Seq(ToSet(in)) /\ out \in Seq(ToSet(out)) /\ list \in Seq(ToSet(list))
  <2>1. ev.cash \in Seq(CashEntry) /\ ev.assets \in Seq(AssetEntry)
    BY Entries
  <2> QED BY <2>1, CashLegs, AssetLegs
<1>2. \A x : <<u, x>> # k
  OBVIOUS
<1>3. Net(b, k) \in Int
  BY NetInt DEF SoundBooks, Sound
<1> HIDE DEF k
<1>4. FirstShare(k, u, in) = 0 /\ FirstShare(k, u, out) = 0
  BY <1>2 DEF FirstShare, Share
<1>5. /\ \A n \in 1 .. Len(in) : <<u, in[n].currency>> # k
      /\ \A n \in 1 .. Len(out) : <<u, out[n].currency>> # k
      /\ \A n \in 1 .. Len(list) : <<u, list[n].currency>> # k
  BY <1>2
<1> HIDE DEF in, out, list
<1>6. Moved(in, k, u) = 0
  BY <1>1, <1>5, NothingMoved
<1>7. Moved(out, k, u) = 0
  BY <1>1, <1>5, NothingMoved
<1>8. PaidFor(list, k, u) = 0
  BY <1>1, <1>5, NothingMoved
<1> DEFINE N == Net(b, k)
           M == Net(Process(b, evs, e), k)
<1>9. /\ evs[e].status # "CONFIRMED" \/ Other(evs[e].type) => M = N
      /\ evs[e].status = "CONFIRMED" =>
           /\ evs[e].type \in Returns \cup {"FX_BUY", "MANUAL_ADJUSTMENT"} => M = N + Moved(in, k, u)
           /\ evs[e].type = "FX_SELL" => M = N + Moved(out, k, u)
           /\ evs[e].type = "FX_SWAP" => IF TwoLegged(evs[e])
                                         THEN M = (N + FirstShare(k, u, out)) + FirstShare(k, u, in)
                                         ELSE M = N
           /\ evs[e].type \in Purchases => M = N - PaidFor(list, k, u)
  BY HandlerNet DEF in, out, list
<1> HIDE DEF N, M
<1>10. N + 0 = N /\ (N + 0) + 0 = N /\ N - 0 = N
  BY <1>3 DEF N
<1>11. M = N
  BY <1>4, <1>6, <1>7, <1>8, <1>9, <1>10 DEF Other
<1> QED BY <1>11, ProcessSound DEF M, N, k, Holders

(* An event whose legs are handled changes what its user's books hold by    *)
(* what it moves.                                                          *)
LEMMA ProcessNet ==
    ASSUME NEW before, NEW evs, NEW u, NEW exact, NEW served,
           NEW b \in SoundBooks(before, evs, u, exact, served),
           NEW e, Handles(evs, e, u, served), LegsHandled(evs[e]), NEW c, c # CNY
    PROVE  Process(b, evs, e)
             \in Holders(before, evs, u, exact, served, <<u, c>>,
                         Net(b, <<u, c>>) + Moved(evs[e].cash, <<u, c>>, u))
<1> DEFINE ev == evs[e]
           k == <<u, c>>
           in == Inflows(ev.cash)
           out == Outflows(ev.cash)
           list == Purchased(ev)
           N == Net(b, k)
           M == Net(Process(b, evs, e), k)
           I == Moved(in, k, u)
           O == Moved(out, k, u)
           all == Moved(ev.cash, k, u)
           paid == PaidFor(list, k, u)
<1>1. ev.cash \in Seq(CashEntry) /\ ev.assets \in Seq(AssetEntry)
  BY Entries
<1>2. in \in Seq(ToSet(in)) /\ out \in Seq(ToSet(out))
  BY <1>1, CashLegs
<1>3. N \in Int
  BY NetInt DEF SoundBooks, Sound
<1>4. all = I + O /\ I \in Int /\ O \in Int
  BY <1>1, LegsAdd
<1>5. /\ in = <<>> => I = 0
      /\ out = <<>> => O = 0
  BY EmptyMoved
<1>6. Len(in) = 1 => Head(in).delta \in Int /\ Head(in) \in ToSet(in)
  <2>1. \A x \in ToSet(in) : x.delta \in Int
    BY <1>1, CashLegs
  <2> HIDE DEF in
  <2>2. Len(in) = 1 => Head(in) = in[1] /\ in[1] \in ToSet(in)
    BY <1>2 DEF ToSet
  <2> QED BY <2>1, <2>2
<1>7. Len(out) = 1 => Head(out).delta \in Int /\ Head(out) \in ToSet(out)
  <2>1. \A x \in ToSet(out) : x.delta \in Int
    BY <1>1, CashLegs
  <2> HIDE DEF out
  <2>2. Len(out) = 1 => Head(out) = out[1] /\ out[1] \in ToSet(out)
    BY <1>2 DEF ToSet
  <2> QED BY <2>1, <2>2
<1>8. /\ Len(in) = 1 => I = FirstShare(k, u, in)
      /\ Len(out) = 1 => O = FirstShare(k, u, out)
  <2> HIDE DEF in, out, k
  <2>1. ASSUME Len(in) = 1 PROVE I = FirstShare(k, u, in)
    BY <1>2, <1>6, <2>1, MovedOne DEF FirstShare
  <2>2. ASSUME Len(out) = 1 PROVE O = FirstShare(k, u, out)
    BY <1>2, <1>7, <2>2, MovedOne DEF FirstShare
  <2> QED BY <2>1, <2>2
<1>9. Len(in) = 1 /\ Len(out) = 1 => TwoLegged(evs[e])
  <2>1. TwoLegged(evs[e]) <=> in # <<>> /\ out # <<>>
    BY DEF TwoLegged
  <2> HIDE DEF in, out
  <2> QED BY <2>1
<1>10. ev.type \in Purchases => O = -paid /\ paid \in Int
  <2>1. ASSUME ev.type \in Purchases
        PROVE  /\ Moved(Outflows(ev.cash), <<u, c>>, u) = -PaidFor(Purchased(ev), <<u, c>>, u)
               /\ PaidFor(Purchased(ev), <<u, c>>, u) \in Int
    BY <1>1, <2>1, PurchasePaid
  <2> QED BY <2>1
<1>11. /\ ev.status = "CONFIRMED"
       /\ ev.type = "FX_SELL" => in = <<>>
       /\ ev.type = "FX_SWAP" => Len(in) = 1 /\ Len(out) = 1
       /\ ev.type \in Returns \cup {"FX_BUY", "MANUAL_ADJUSTMENT"} => out = <<>>
       /\ Other(ev.type) => in = <<>> /\ out = <<>>
       /\ ev.type \in Purchases => in = <<>>
  BY LegsKnown
<1>12. /\ Other(evs[e].type) => M = N
       /\ evs[e].status = "CONFIRMED" =>
            /\ evs[e].type \in Returns \cup {"FX_BUY", "MANUAL_ADJUSTMENT"} => M = N + I
            /\ evs[e].type = "FX_SELL" => M = N + O
            /\ evs[e].type = "FX_SWAP" => IF TwoLegged(evs[e])
                                          THEN M = (N + FirstShare(k, u, out)) + FirstShare(k, u, in)
                                          ELSE M = N
            /\ evs[e].type \in Purchases => M = N - paid
  <2> HIDE DEF k
  <2> QED BY HandlerNet
<1> HIDE DEF in, out, list, N, M, I, O, all, paid, k
<1>13. M = N + all
  <2>1. CASE ev.type \in Returns \cup {"FX_BUY", "MANUAL_ADJUSTMENT"}
    BY <1>3, <1>4, <1>5, <1>11, <1>12, <2>1
  <2>2. CASE ev.type = "FX_SELL"
    BY <1>3, <1>4, <1>5, <1>11, <1>12, <2>2
  <2>3. CASE ev.type = "FX_SWAP"
    <3>1. M = (N + O) + I
      BY <1>8, <1>9, <1>11, <1>12, <2>3
    <3> QED BY <1>3, <1>4, <3>1
  <2>4. CASE ev.type \in Purchases
    <3>1. I = 0 /\ M = N - paid /\ O = -paid /\ paid \in Int
      BY <1>5, <1>10, <1>11, <1>12, <2>4
    <3> QED BY <1>3, <1>4, <3>1
  <2>5. CASE Other(ev.type)
    BY <1>3, <1>4, <1>5, <1>11, <1>12, <2>5
  <2> QED BY <2>1, <2>2, <2>3, <2>4, <2>5 DEF Other
<1> QED BY <1>13, ProcessSound DEF M, N, all, k, Holders

(* What the events move in a user's currency, event by event. *)
EventMoved(evs, k) == [e \in DOMAIN evs |-> Moved(evs[e].cash, k, evs[e].user)]
LedgerSum(evs, k) == SumFunctionOnSet(EventMoved(evs, k), DOMAIN evs)

LEMMA EventMovedInt ==
    ASSUME NEW evs, IsTable(evs, Event), NEW w, NEW c, c # CNY
    PROVE  /\ \A e \in DOMAIN evs : EventMoved(evs, <<w, c>>)[e] \in Int
           /\ LedgerSum(evs, <<w, c>>) \in Int
<1> DEFINE D == DOMAIN evs
           m == EventMoved(evs, <<w, c>>)
<1>1. IsFiniteSet(D)
  BY DEF IsTable
<1>2. ASSUME NEW e \in D PROVE m[e] \in Int
  <2>1. evs[e].cash \in Seq(CashEntry)
    BY DEF IsTable, Event
  <2>2. Moved(evs[e].cash, <<w, c>>, evs[e].user) \in Int
    <3>1. \A a, b \in Int : a + b \in Int
      OBVIOUS
    <3>2. /\ Moved(evs[e].cash, <<w, c>>, evs[e].user)
               = Moved(Inflows(evs[e].cash), <<w, c>>, evs[e].user)
                   + Moved(Outflows(evs[e].cash), <<w, c>>, evs[e].user)
          /\ Moved(Inflows(evs[e].cash), <<w, c>>, evs[e].user) \in Int
          /\ Moved(Outflows(evs[e].cash), <<w, c>>, evs[e].user) \in Int
      BY <2>1, LegsAdd
    <3> QED BY <3>1, <3>2
  <2> QED BY <2>2 DEF EventMoved
<1> HIDE DEF m, D
<1>3. SumFunctionOnSet(m, D) \in Int
  BY <1>1, <1>2, SumInt
<1> QED BY <1>2, <1>3 DEF m, D, LedgerSum

(* A new event adds what it moves. *)
LEMMA LedgerGrows ==
    ASSUME NEW evs, IsTable(evs, Event), NEW more, IsTable(more, Event), NEW e, e \notin DOMAIN evs,
           DOMAIN more = DOMAIN evs \cup {e}, \A d \in DOMAIN evs : more[d] = evs[d],
           NEW w, NEW c, c # CNY
    PROVE  LedgerSum(more, <<w, c>>)
             = LedgerSum(evs, <<w, c>>) + Moved(more[e].cash, <<w, c>>, more[e].user)
<1> DEFINE k == <<w, c>>
           D == DOMAIN evs
           m == EventMoved(evs, k)
           n == EventMoved(more, k)
<1>1. IsFiniteSet(D)
  BY DEF IsTable
<1>2. \A d \in D \cup {e} : n[d] \in Int
  BY EventMovedInt
<1>3. \A d \in D : n[d] = m[d]
  BY DEF EventMoved
<1>4. n[e] = Moved(more[e].cash, k, more[e].user)
  BY DEF EventMoved
<1>5. LedgerSum(evs, k) = SumFunctionOnSet(m, D) /\ LedgerSum(more, k) = SumFunctionOnSet(n, D \cup {e})
  BY DEF LedgerSum
<1>6. e \notin D
  OBVIOUS
<1> HIDE DEF m, n, D, k
<1>7. SumFunctionOnSet(n, D \cup {e}) = SumFunctionOnSet(n, D) + n[e]
  BY <1>1, <1>2, <1>6, SumAdd
<1>8. SumFunctionOnSet(n, D) = SumFunctionOnSet(m, D)
  BY <1>1, <1>3, SumSame
<1> QED BY <1>4, <1>5, <1>7, <1>8 DEF k

(* What a user's lots and gaps say of a currency. *)
BooksHold(u, c) ==
    Total(Where(books.lots, LAMBDA l : l.user = u /\ l.currency = c),
          LAMBDA l : books.lots[l].remaining_amount)
  - Total(Where(books.gaps, LAMBDA g : g.user = u /\ g.currency = c),
          LAMBDA g : books.gaps[g].shortfall)

LEMMA NetOfRows ==
    ASSUME RowsTyped(books), NEW u, NEW c
    PROVE  Net(books, <<u, c>>) = BooksHold(u, c)
<1> DEFINE k == <<u, c>>
           L == books.lots
           G == books.gaps
           DL == DOMAIN L
           DG == DOMAIN G
           SL == Where(L, LAMBDA l : l.user = u /\ l.currency = c)
           SG == Where(G, LAMBDA g : g.user = u /\ g.currency = c)
           fl == [l \in SL |-> L[l].remaining_amount]
           fg == [g \in SG |-> G[g].shortfall]
           rl == Remainders(L)
           rg == Shortfalls(G)
<1>1. /\ IsFiniteSet(DL) /\ rl \in [DL -> Nat]
      /\ IsFiniteSet(DG) /\ rg \in [DG -> Nat]
  <2>1. \A lot \in Lot : lot.remaining_amount \in Nat
    BY DEF Lot, LotRow
  <2>2. /\ IsFiniteSet(DL) /\ rl \in [DL -> Nat]
    BY <2>1 DEF RowsTyped, IsTable, Remainders
  <2>3. IsFiniteSet(DG) /\ rg \in [DG -> Nat]
    BY DEF RowsTyped, IsTable, Shortfalls, Gap
  <2> QED BY <2>2, <2>3
<1>2. /\ SL = Group(DL, PurseOf(L), k) /\ SL \subseteq DL
      /\ \A l \in SL : fl[l] = rl[l]
  BY DEF Where, Group, PurseOf, Remainders
<1>3. /\ SG = Group(DG, PurseOf(G), k) /\ SG \subseteq DG
      /\ \A g \in SG : fg[g] = rg[g]
  BY DEF Where, Group, PurseOf, Shortfalls
<1>4. /\ Total(SL, LAMBDA l : L[l].remaining_amount) = SumFunctionOnSet(fl, SL)
      /\ Total(SG, LAMBDA g : G[g].shortfall) = SumFunctionOnSet(fg, SG)
  BY DEF Total
<1>5. Net(books, k) = GroupSum(rl, PurseOf(L), k) - GroupSum(rg, PurseOf(G), k)
  BY DEF Net, Holding, Short
<1> HIDE DEF k, DL, DG, SL, SG, fl, fg, rl, rg
<1>6. GroupSum(rl, PurseOf(L), k) = SumFunctionOnSet(fl, SL)
  <2>1. GroupSum(rl, PurseOf(L), k) = SumFunctionOnSet(rl, Group(DL, PurseOf(L), k))
    BY <1>1, GroupNat
  <2>2. IsFiniteSet(SL)
    BY <1>1, <1>2, FS_Subset
  <2>3. SumFunctionOnSet(fl, SL) = SumFunctionOnSet(rl, SL)
    BY <1>2, <2>2, SumSame
  <2> QED BY <1>2, <2>1, <2>3
<1>7. GroupSum(rg, PurseOf(G), k) = SumFunctionOnSet(fg, SG)
  <2>1. GroupSum(rg, PurseOf(G), k) = SumFunctionOnSet(rg, Group(DG, PurseOf(G), k))
    BY <1>1, GroupNat
  <2>2. IsFiniteSet(SG)
    BY <1>1, <1>3, FS_Subset
  <2>3. SumFunctionOnSet(fg, SG) = SumFunctionOnSet(rg, SG)
    BY <1>3, <2>2, SumSame
  <2> QED BY <1>3, <2>1, <2>3
<1>8. Net(books, k) = Total(SL, LAMBDA l : L[l].remaining_amount) - Total(SG, LAMBDA g : G[g].shortfall)
  BY <1>4, <1>5, <1>6, <1>7
<1> QED BY <1>8 DEF k, SL, SG, BooksHold

(* The reported balance is what the user's events moved. *)
LEMMA LedgerIsBalance ==
    ASSUME IsTable(events, Event), NEW u, NEW c, c # CNY
    PROVE  Balance(OwnCash(u, c)) = LedgerSum(events, <<u, c>>)
<1> DEFINE E == Own(u)
           k == <<u, c>>
           R == OwnCash(u, c)
           f == [r \in R |-> Delta(r)]
           all == DOMAIN events
           m == EventMoved(events, k)
<1>1. E \in SUBSET all /\ IsFiniteSet(E) /\ IsFiniteSet(all) /\ \A e \in all : e \in E <=> events[e].user = u
  BY FS_Subset DEF Own, IsTable
<1>2. R \in SUBSET CashRows(E) /\ \A r \in CashRows(E) : r \in R <=> CashAt(r).currency = c
  BY DEF OwnCash, InCurrency
<1>3. IsFiniteSet(R)
  <2> HIDE DEF R, E
  <2> QED BY <1>1, <1>2, CashRowsTyped, FS_Subset
<1>4. \A r \in R : r[1] \in E /\ f[r] \in Int
  <2>1. \A r \in CashRows(E) : r[1] \in E /\ CashAt(r) \in CashEntry
    <3> HIDE DEF E
    <3> QED BY <1>1, CashRowsTyped
  <2>2. \A x \in CashEntry : x.delta \in Int
    BY DEF CashEntry
  <2>3. \A r \in R : f[r] = CashAt(r).delta
    BY DEF Delta
  <2> HIDE DEF R, E, f
  <2> QED BY <1>2, <2>1, <2>2, <2>3
<1>5. Balance(R) = SumFunctionOnSet(f, R)
  <2>1. {r \in R : InBalance(CashAt(r))} = R
    BY <1>2 DEF InBalance
  <2> QED BY <2>1 DEF Balance, Total
<1>6. ASSUME NEW e \in E PROVE m[e] = SumFunctionOnSet(f, Group(R, EventOf(R), e))
  <2> DEFINE list == events[e].cash
             S == {x \in ToSet(list) : x.currency = c}
             g == [i \in DOMAIN list |-> list[i].delta]
             s == [i \in DOMAIN list |-> SignedRmb(list[i])]
  <2>1. list \in Seq(CashEntry) /\ \A i \in DOMAIN list : list[i] \in CashEntry /\ list[i] \in ToSet(list)
    <3>1. list \in Seq(CashEntry)
      BY <1>1 DEF IsTable, Event
    <3> HIDE DEF list
    <3> QED BY <3>1 DEF ToSet
  <2>2. \A i \in DOMAIN list : <<e, i>> \in CashRows(E) /\ CashAt(<<e, i>>) = list[i]
    BY <1>1, CashRowsTyped DEF CashAt
  <2>3. \A i \in DOMAIN list : g[i] = list[i].delta /\ g[i] \in Int
    <3>1. \A i \in DOMAIN list : g[i] = list[i].delta
      OBVIOUS
    <3>2. \A x \in CashEntry : x.delta \in Int
      BY DEF CashEntry
    <3> HIDE DEF list, g
    <3> QED BY <2>1, <3>1, <3>2
  <2>4. \A i \in DOMAIN events[e].cash : <<e, i>> \in R <=> events[e].cash[i] \in S
    <3> HIDE DEF R, E
    <3> QED BY <1>2, <2>1, <2>2
  <2>5. \A i \in DOMAIN events[e].cash : <<e, i>> \in R => f[<<e, i>>] = g[i]
    <3>1. \A r \in R : f[r] = CashAt(r).delta
      BY DEF Delta
    <3> HIDE DEF f, g, R, E
    <3> QED BY <2>2, <2>3, <3>1
  <2>6. Moved(list, k, u) = SumOf(OfCurrency(list, c), LAMBDA x : x.delta)
    <3> HIDE DEF list
    <3> QED BY <2>1, MovedInCurrency
  <2>7. SumOf(OfCurrency(list, c), LAMBDA x : x.delta) = SumFunctionOnSet(g, Places(list, Len(list), S))
    <3>1. /\ \A i \in DOMAIN list : s[i] = SignedRmb(list[i])
          /\ \A i \in DOMAIN list : g[i] = list[i].delta
      OBVIOUS
    <3> HIDE DEF s, g, S, list
    <3>2. /\ SumOf(Chosen(list, S), SignedRmb) = SumFunctionOnSet(s, Places(list, Len(list), S))
          /\ SumOf(Chosen(list, S), LAMBDA x : x.delta) = SumFunctionOnSet(g, Places(list, Len(list), S))
      BY <2>1, <3>1, SumsOfChosen
    <3> QED BY <3>2 DEF OfCurrency, S
  <2>8. m[e] = Moved(list, k, u)
    BY <1>1 DEF EventMoved
  <2>10. \A i \in DOMAIN events[e].cash : g[i] \in Int
    BY <2>3
  <2> HIDE DEF g, S, f, R, E, m, k
  <2>9. SumFunctionOnSet(g, Places(events[e].cash, Len(events[e].cash), S))
          = SumFunctionOnSet(f, Group(R, EventOf(R), e))
    BY <1>1, <1>2, <2>4, <2>5, <2>10, OfEvent
  <2> QED BY <2>6, <2>7, <2>8, <2>9
<1>7. \A e \in all : m[e] \in Int
  BY EventMovedInt
<1>8. \A e \in all : e \notin E => m[e] = 0
  <2> SUFFICES ASSUME NEW e \in all, events[e].user # u
               PROVE  Moved(events[e].cash, k, events[e].user) = 0
    BY <1>1 DEF EventMoved
  <2>1. events[e].cash \in Seq(CashEntry)
    BY DEF IsTable, Event
  <2> DEFINE list == events[e].cash
             v == events[e].user
  <2>2. \A n \in 1 .. Len(list) : <<v, list[n].currency>> # k
    OBVIOUS
  <2>3. list \in Seq(CashEntry)
    BY <2>1
  <2> HIDE DEF list, v, k
  <2>4. Moved(list, k, v) = 0
    BY <2>2, <2>3, NothingMoved
  <2> QED BY <2>4 DEF list, v
<1>9. LedgerSum(events, k) = SumFunctionOnSet(m, all)
  BY DEF LedgerSum
<1>10. Groups(R, EventOf(R), E) = R
  BY <1>4 DEF Groups, EventOf
<1> HIDE DEF m, f, R, E, all, k
<1>11. SumFunctionOnSet(m, all) = SumFunctionOnSet(m, E)
  BY <1>1, <1>7, <1>8, SumSupport
<1>12. SumFunctionOnSet(m, E) = SumFunctionOnSet(f, R)
  BY <1>1, <1>3, <1>4, <1>6, <1>10, SumByGroup
<1>13. Balance(R) = LedgerSum(events, k)
  BY <1>5, <1>9, <1>11, <1>12
<1> QED BY <1>13 DEF R, k

(* The events of a user are all handled as their legs demand. *)
AllHandled(evs, u) == \A e \in DOMAIN evs : evs[e].user = u => LegsHandled(evs[e])

(* What the events moved is what the books hold. *)
LedgerBacked(evs, book) ==
    \A u \in Users : \A c \in CurrencyCodes \ {CNY} :
       AllHandled(evs, u) => LedgerSum(evs, <<u, c>>) = Net(book, <<u, c>>)

(* Recording an event keeps the books in step with the ledger. *)
LEMMA CreateKeepsBacked ==
    ASSUME IInv, LedgerBacked(events, books),
           NEW u \in Users, NEW p \in Payloads, NEW t \in Times, CreateEvent(u, p, t)
    PROVE  LedgerBacked(events', books')
<1> DEFINE e == NextId(events)
<1>1. /\ IsTable(events', Event) /\ e \notin DOMAIN events
      /\ DOMAIN events' = DOMAIN events \cup {e}
      /\ \A d \in DOMAIN events : events'[d] = events[d]
      /\ Handles(events', e, u, {e})
      /\ books \in SoundBooks(books, events', u, FALSE, {e})
      /\ books' = Process(books, events', e)
  BY CreateEventStarts
<1> HIDE DEF e
<1>2. IsTable(events, Event) /\ events'[e].user = u
  BY <1>1 DEF IInv, TypeOK, Handles
<1> SUFFICES ASSUME NEW w \in Users, NEW c \in CurrencyCodes \ {CNY}, AllHandled(events', w)
             PROVE  LedgerSum(events', <<w, c>>) = Net(books', <<w, c>>)
  BY DEF LedgerBacked
<1>3. AllHandled(events, w)
  BY <1>1 DEF AllHandled
<1>4. LedgerSum(events, <<w, c>>) = Net(books, <<w, c>>)
  BY <1>3 DEF LedgerBacked
<1> DEFINE moved == Moved(events'[e].cash, <<w, c>>, u)
<1>5. LedgerSum(events', <<w, c>>) = LedgerSum(events, <<w, c>>) + moved
  <2>1. LedgerSum(events', <<w, c>>)
          = LedgerSum(events, <<w, c>>) + Moved(events'[e].cash, <<w, c>>, events'[e].user)
    BY <1>1, <1>2, LedgerGrows
  <2> QED BY <1>2, <2>1
<1>6. CASE w = u
  <2>1. LegsHandled(events'[e])
    BY <1>1, <1>2, <1>6 DEF AllHandled
  <2>2. Process(books, events', e)
          \in Holders(books, events', u, FALSE, {e}, <<u, c>>,
                      Net(books, <<u, c>>) + Moved(events'[e].cash, <<u, c>>, u))
    BY <1>1, <2>1, ProcessNet
  <2>3. Net(books', <<u, c>>) = Net(books, <<u, c>>) + Moved(events'[e].cash, <<u, c>>, u)
    BY <1>1, <2>2 DEF Holders
  <2> QED BY <1>4, <1>5, <1>6, <2>3
<1>7. CASE w # u
  <2>4. Process(books, events', e)
          \in Holders(books, events', u, FALSE, {e}, <<w, c>>, Net(books, <<w, c>>))
    BY <1>1, <1>7, OthersNet
  <2>1. Net(books', <<w, c>>) = Net(books, <<w, c>>)
    BY <1>1, <2>4 DEF Holders
  <2>2. moved = 0
    <3> DEFINE list == events'[e].cash
               k == <<w, c>>
    <3>1. list \in Seq(CashEntry) /\ \A n \in 1 .. Len(list) : <<u, list[n].currency>> # k
      BY <1>1, <1>7, Entries
    <3> HIDE DEF list, k
    <3>2. Moved(list, k, u) = 0
      BY <3>1, NothingMoved
    <3> QED BY <3>2 DEF list, k
  <2>3. Net(books, <<w, c>>) \in Int
    BY NetInt DEF IInv, TypeOK
  <2> HIDE DEF moved
  <2> QED BY <1>1, <1>4, <1>5, <2>1, <2>2, <2>3
<1> QED BY <1>6, <1>7

(* The ledger and the books are two accounts of one history, which no       *)
(* request keeps but recording an event: what the events of a user whose   *)
(* legs are handled moved is what the user's lots and gaps say.            *)
THEOREM LedgerFollowed == ReportsSpec => [](IInv /\ LedgerBacked(events, books))
<1>1. ReportsInit => LedgerBacked(events, books)
  <2> SUFFICES ASSUME ReportsInit, NEW u \in Users, NEW c \in CurrencyCodes
               PROVE  LedgerSum(events, <<u, c>>) = Net(books, <<u, c>>)
    BY DEF LedgerBacked
  <2> DEFINE k == <<u, c>>
  <2>1. events = <<>> /\ books.lots = <<>> /\ books.gaps = <<>>
    BY DEF ReportsInit, Init, EmptyBooks
  <2> HIDE DEF k
  <2>2. LedgerSum(events, k) = 0
    <3>1. DOMAIN events = {}
      BY <2>1
    <3> QED BY <3>1, SumEmpty DEF LedgerSum
  <2>3. Holding(books.lots, k) = 0 /\ Short(books.gaps, k) = 0
    <3>1. DOMAIN Remainders(books.lots) = {} /\ DOMAIN Shortfalls(books.gaps) = {}
      BY <2>1 DEF Remainders, Shortfalls
    <3>2. /\ \A x \in DOMAIN Remainders(books.lots) : PurseOf(books.lots)[x] # k
          /\ \A x \in DOMAIN Shortfalls(books.gaps) : PurseOf(books.gaps)[x] # k
      BY <3>1
    <3> QED BY <3>2, GroupEmpty DEF Holding, Short
  <2> QED BY <2>2, <2>3 DEF Net, k
<1>2. ReportsInv /\ LedgerBacked(events, books) /\ [ReportsNext]_reportVars
        => LedgerBacked(events, books)'
  <2> SUFFICES ASSUME ReportsInv, LedgerBacked(events, books), [ReportsNext]_reportVars
               PROVE  LedgerBacked(events', books')
    OBVIOUS
  <2>1. CASE RecordEvent
    <3>1. PICK u \in Users, p \in Payloads, t \in Times : CreateEvent(u, p, t)
      BY <2>1 DEF RecordEvent, Create
    <3> QED BY <3>1, CreateKeepsBacked DEF ReportsInv
  <2>2. CASE UNCHANGED <<events, books>>
    BY <2>2
  <2> QED BY <2>1, <2>2
      DEF ReportsNext, RecordValuation, CreateValuation, RefreshRate, RecordRate, reportVars
<1> QED BY <1>1, <1>2, ReportsInvariant, PTL DEF ReportsSpec, ReportsInv

(* The reported cash balance of a user is backed by the funding books, in   *)
(* whatever order the events were dated.                                   *)
THEOREM BalancesAreBacked == ReportsSpec => []BalancesBackedByLots
<1>1. IInv /\ LedgerBacked(events, books) => BalancesBackedByLots
  <2> SUFFICES ASSUME IInv, LedgerBacked(events, books), NEW u \in Users,
                      \A e \in Own(u) : LegsHandled(events[e]), NEW c \in Foreign(u)
               PROVE  Balance(OwnCash(u, c)) = BooksHold(u, c)
    BY DEF BalancesBackedByLots, BooksHold
  <2>1. IsTable(events, Event) /\ RowsTyped(books)
    BY DEF IInv, TypeOK
  <2>2. c \in CurrencyCodes \ {CNY}
    <3>1. Own(u) \in SUBSET DOMAIN events
      BY DEF Own
    <3>2. PICK r \in CashRows(Own(u)) : c = CashAt(r).currency
      BY DEF Foreign
    <3>3. CashAt(r) \in CashEntry
      BY <2>1, <3>1, <3>2, CashRowsTyped
    <3> QED BY <3>2, <3>3 DEF Foreign, CashEntry, CurrencyCodes
  <2>3. AllHandled(events, u)
    BY DEF AllHandled, Own
  <2>4. LedgerSum(events, <<u, c>>) = Net(books, <<u, c>>)
    BY <2>2, <2>3 DEF LedgerBacked
  <2>5. Balance(OwnCash(u, c)) = LedgerSum(events, <<u, c>>)
    BY <2>1, <2>2, LedgerIsBalance
  <2> QED BY <2>1, <2>4, <2>5, NetOfRows
<1> QED BY <1>1, LedgerFollowed, PTL
-----------------------------------------------------------------------------
(* What the books name: the assets that the attributions and the gaps of an *)
(* event are for.                                                          *)

Targets(A) == {<<A[a].target_event, A[a].target_asset>> : a \in DOMAIN A}
Lacking(G) == {<<G[g].event, G[g].asset>> : g \in DOMAIN G}
Named(b) == Targets(b.attributions) \cup Lacking(b.gaps)

(* The sound books in which nothing of `names' is lost. *)
Naming(before, evs, u, exact, served, names) ==
    {d \in SoundBooks(before, evs, u, exact, served) : names \subseteq Named(d)}

(* What a row of either table adds. *)
LEMMA InsertNames ==
    /\ \A A, row : IsTable(A, Attribution) =>
          Targets(Insert(A, row)) = Targets(A) \cup {<<row.target_event, row.target_asset>>}
    /\ \A G, row : IsTable(G, Gap) =>
          Lacking(Insert(G, row)) = Lacking(G) \cup {<<row.event, row.asset>>}
<1>1. ASSUME NEW A, NEW row, IsTable(A, Attribution)
      PROVE  Targets(Insert(A, row)) = Targets(A) \cup {<<row.target_event, row.target_asset>>}
  <2> DEFINE B == Insert(A, row)
             n == NextId(A)
  <2>1. DOMAIN B = DOMAIN A \cup {n} /\ B[n] = row /\ \A i \in DOMAIN A : B[i] = A[i]
    BY <1>1, InsertRow
  <2> HIDE DEF B, n
  <2> QED BY <2>1 DEF Targets, B
<1>2. ASSUME NEW G, NEW row, IsTable(G, Gap)
      PROVE  Lacking(Insert(G, row)) = Lacking(G) \cup {<<row.event, row.asset>>}
  <2> DEFINE H == Insert(G, row)
             n == NextId(G)
  <2>1. DOMAIN H = DOMAIN G \cup {n} /\ H[n] = row /\ \A i \in DOMAIN G : H[i] = G[i]
    BY <1>2, InsertRow
  <2> HIDE DEF H, n
  <2> QED BY <2>1 DEF Lacking, H
<1> QED BY <1>1, <1>2

(* Each write of a handler, and what it names. *)
LEMMA WritesName ==
    ASSUME NEW b \in BookSet, RowsTyped(b), NEW e, NEW ev, NEW currency
    PROVE  /\ \A amount, basis : Named(OpenLot(b, e, ev, currency, amount, basis)) = Named(b)
           /\ \A l, amount : Named(Spent(b, e, l, amount)) = Named(b)
           /\ \A asset, shortfall :
                Named(RecordGap(b, e, ev, currency, asset, shortfall)) = Named(b) \cup {<<e, asset>>}
           /\ \A x, row : Named(Attribute(b, e, x, row)) = Named(b) \cup {<<e, x.asset>>}
<1>1. b = [lots |-> b.lots, consumptions |-> b.consumptions, attributions |-> b.attributions,
           gaps |-> b.gaps]
  BY DEF BookSet
<1>2. IsTable(b.attributions, Attribution) /\ IsTable(b.gaps, Gap)
  BY DEF RowsTyped
<1>3. ASSUME NEW amount, NEW basis
      PROVE  Named(OpenLot(b, e, ev, currency, amount, basis)) = Named(b)
  <2>1. /\ OpenLot(b, e, ev, currency, amount, basis).attributions = b.attributions
        /\ OpenLot(b, e, ev, currency, amount, basis).gaps = b.gaps
    BY <1>1 DEF OpenLot
  <2> QED BY <2>1 DEF Named
<1>4. ASSUME NEW l, NEW amount PROVE Named(Spent(b, e, l, amount)) = Named(b)
  BY DEF Named, Spent
<1>5. ASSUME NEW asset, NEW shortfall
      PROVE  Named(RecordGap(b, e, ev, currency, asset, shortfall)) = Named(b) \cup {<<e, asset>>}
  <2> DEFINE row == [user |-> ev.user, event |-> e, asset |-> asset, currency |-> currency,
                     shortfall |-> shortfall]
             next == RecordGap(b, e, ev, currency, asset, shortfall)
  <2>1. next.attributions = b.attributions /\ next.gaps = Insert(b.gaps, row)
    BY <1>1 DEF RecordGap
  <2>2. row.event = e /\ row.asset = asset
    OBVIOUS
  <2> HIDE DEF row, next
  <2>3. Lacking(Insert(b.gaps, row)) = Lacking(b.gaps) \cup {<<row.event, row.asset>>}
    BY <1>2, InsertNames
  <2> QED BY <2>1, <2>2, <2>3 DEF Named, next
<1>6. ASSUME NEW x, NEW row
      PROVE  Named(Attribute(b, e, x, row)) = Named(b) \cup {<<e, x.asset>>}
  <2> DEFINE new == [target_event |-> e, target_asset |-> x.asset, source_lot |-> row.lot,
                     native_amount |-> row.amount, rmb_basis |-> row.basis]
             next == Attribute(b, e, x, row)
  <2>1. next.gaps = b.gaps /\ next.attributions = Insert(b.attributions, new)
    BY <1>1 DEF Attribute
  <2>2. new.target_event = e /\ new.target_asset = x.asset
    OBVIOUS
  <2> HIDE DEF new, next
  <2>3. Targets(Insert(b.attributions, new))
          = Targets(b.attributions) \cup {<<new.target_event, new.target_asset>>}
    BY <1>2, InsertNames
  <2> QED BY <2>1, <2>2, <2>3 DEF Named, next
<1> QED BY <1>3, <1>4, <1>5, <1>6

(* Something was drawn, or all is still to be paid. *)
Begun(run, needed) == run.left = needed \/ Len(run.drawn) > 0

(* The state of allocate()'s loop that names what `names' has. *)
Drawers(before, evs, u, exact, served, e, C, names, needed) ==
    {run \in Draws(before, evs, u, exact, served, e, C) :
        Named(run.book) = names /\ Begun(run, needed)}

(* One turn of the loop names nothing, and begins to pay. *)
LEMMA DrawNames ==
    ASSUME NEW before, NEW evs, NEW u, NEW exact, NEW served,
           NEW e, Handles(evs, e, u, served), NEW C, NEW names, NEW needed,
           NEW run \in Drawers(before, evs, u, exact, served, e, C, names, needed), NEW l \in C
    PROVE  Draw(run, e, l) \in Drawers(before, evs, u, exact, served, e, C, names, needed)
<1>1. run \in Draws(before, evs, u, exact, served, e, C) /\ Named(run.book) = names
  BY DEF Drawers
<1>2. CASE run.left = 0
  BY <1>2 DEF Draw
<1>3. CASE run.left # 0
  <2> DEFINE next == Draw(run, e, l)
             row == ConsumptionOf(l, run.book.lots[l], e,
                                  Smaller(run.book.lots[l].remaining_amount, run.left))
             b == run.book
             amount == DrawTakes(run, l)
  <2>1. next.book = Spent(b, e, l, amount)
    <3> HIDE DEF next, row, b, amount
    <3>1. Draw(run, e, l).book = Spent(run.book, e, l, DrawTakes(run, l))
      BY <1>1, <1>3, DrawTaken
    <3> QED BY <3>1 DEF next, b, amount
  <2>2. b \in BookSet /\ RowsTyped(b)
    BY <1>1, Allocated DEF SoundBooks, Sound
  <2>3. run \in [book : {b}, left : Nat, cost : Nat, drawn : Seq(DrawnRows(e, C))]
    BY <1>1 DEF Draws
  <2>4. next.drawn = Append(run.drawn, row)
    <3>1. next = [run EXCEPT !.book.lots[l] = Consumed(@, row.amount),
                             !.book.consumptions = Insert(@, row),
                             !.left = @ - row.amount, !.cost = @ + row.basis,
                             !.drawn = Append(@, row)]
      BY <1>3 DEF Draw
    <3> HIDE DEF next, row, b
    <3> QED BY <2>3, <3>1
  <2>5. Len(next.drawn) > 0
    <3>1. run.drawn \in Seq(DrawnRows(e, C))
      BY <2>3
    <3>2. Len(run.drawn) \in Nat /\ Len(Append(run.drawn, row)) = Len(run.drawn) + 1
      <4> HIDE DEF row
      <4> QED BY <3>1
    <3> HIDE DEF next, row
    <3> QED BY <2>4, <3>2
  <2> HIDE DEF b, amount
  <2>6. Named(Spent(b, e, l, amount)) = Named(b)
    BY <2>2, WritesName
  <2>7. next \in Draws(before, evs, u, exact, served, e, C)
    BY <1>1, DrawSound
  <2> HIDE DEF next
  <2>8. next \in Drawers(before, evs, u, exact, served, e, C, names, needed)
    BY <1>1, <2>1, <2>5, <2>6, <2>7 DEF Drawers, Begun, b
  <2> QED BY <2>8 DEF next
<1> QED BY <1>2, <1>3

(* allocate() loses no name; where money is needed it draws some, or names  *)
(* the asset in a gap.                                                     *)
LEMMA AllocateNames ==
    ASSUME NEW before, NEW evs, NEW u, NEW exact, NEW served,
           NEW b \in SoundBooks(before, evs, u, exact, served),
           NEW e, Handles(evs, e, u, served),
           NEW currency \in CurrencyCodes, NEW needed \in Nat, NEW asset \in Assets \cup {NoAsset}
    PROVE  /\ Allocate(b, e, evs[e], currency, needed, asset).book
                \in Naming(before, evs, u, exact, served, Named(b))
           /\ \/ needed = 0
              \/ Len(Allocate(b, e, evs[e], currency, needed, asset).drawn) > 0
              \/ <<e, asset>> \in Named(Allocate(b, e, evs[e], currency, needed, asset).book)
<1> DEFINE C == Payable(b, u, evs[e].time)
           K == Where(b.lots, LAMBDA i : Spendable(i, u, currency, evs[e].time))
           names == Named(b)
           X == Drawers(before, evs, u, exact, served, e, C, names, needed)
           order == InOrder(K, LAMBDA i, l : Precedes(b.lots, i, l))
           start == [book |-> b, left |-> needed, cost |-> 0, drawn |-> <<>>]
           run == FoldLeft(LAMBDA r, l : Draw(r, e, l), start, order)
           end == Allocate(b, e, evs[e], currency, needed, asset)
<1>1. evs[e].user = u
  BY DEF Handles
<1>2. /\ IsTable(b.lots, Lot)
      /\ \A l \in DOMAIN b.lots : b.lots[l] \in Lot /\ b.lots[l].created_at \in Nat
  <2>1. IsTable(b.lots, Lot)
    BY DEF SoundBooks, Sound, RowsTyped
  <2>2. \A l \in DOMAIN b.lots : b.lots[l] \in Lot
    BY <2>1 DEF IsTable
  <2> QED BY <2>1, <2>2, LotColumns, FundingAttributionAssumption
<1>3. K \subseteq DOMAIN b.lots /\ KeySet(K)
  <2>1. K \subseteq DOMAIN b.lots
    BY DEF Where
  <2> HIDE DEF K
  <2> QED BY <1>2, <2>1, FS_Subset DEF IsTable, KeySet
<1>4. K \in SUBSET C
  <2>1. \A l \in K : /\ l \in DOMAIN b.lots /\ b.lots[l].user = u
                     /\ b.lots[l].status = "AVAILABLE" /\ b.lots[l].created_at <= evs[e].time
    BY DEF Where, Spendable
  <2>2. \A l \in K : LotChecks(b.lots[l])
    BY <1>2, <2>1, LotColumns
  <2> HIDE DEF K
  <2> QED BY <2>1, <2>2 DEF Payable, LotChecks
<1>5. order \in Seq(K)
  <2> DEFINE lots == b.lots
  <2>1. KeySet(K) /\ \A x \in K : lots[x].created_at \in Nat
    <3> HIDE DEF K
    <3> QED BY <1>2, <1>3
  <2> HIDE DEF K, lots
  <2>2. Aged(lots, K) \in Seq(K)
    BY <2>1, LotsInOrder
  <2> QED BY <2>2 DEF lots, Aged
<1>6. start \in X
  <2>1. Covered(b.attributions, <<>>, b.consumptions)
    <3>1. /\ IsTable(b.attributions, Attribution) /\ IsTable(b.consumptions, Consumption)
          /\ Backed(b.attributions, b.consumptions)
      BY DEF SoundBooks, Sound, RowsTyped
    <3> QED BY <3>1, BackedCovered
  <2>2. start \in Draws(before, evs, u, exact, served, e, C)
    BY <2>1 DEF Draws
  <2>3. Named(start.book) = names /\ Begun(start, needed)
    BY DEF Begun
  <2> HIDE DEF start, names, C
  <2> QED BY <2>2, <2>3 DEF Drawers
<1>7. \A x \in X : \A l \in K : DrawOn(e, e, e, x, l) \in X
  <2> SUFFICES ASSUME NEW x \in X, NEW l \in K PROVE DrawOn(e, e, e, x, l) \in X
    OBVIOUS
  <2>1. l \in C
    BY <1>4
  <2> HIDE DEF C, K, names
  <2>2. Draw(x, e, l) \in Drawers(before, evs, u, exact, served, e, C, names, needed)
    BY <2>1, DrawNames
  <2> QED BY <2>2 DEF DrawOn
<1>8. Drawing!Folded(e, e, e, start, order) \in X
  <2> HIDE DEF X, K, start, order
  <2> QED BY <1>5, <1>6, <1>7, Drawing!Stays
<1>9. run = Drawing!Folded(e, e, e, start, order)
  <2> HIDE DEF start, order
  <2> QED BY DEF DrawOn, Drawing!Folded, Drawing!FoldLeft, Drawing!MapThenFoldSet,
                 FoldLeft, MapThenFoldSet, Drawing!Max, Max
<1>10. /\ run \in Draws(before, evs, u, exact, served, e, C)
       /\ Named(run.book) = names /\ Begun(run, needed)
  <2>1. run \in X
    <3> HIDE DEF run, start, order, X
    <3> QED BY <1>8, <1>9
  <2> HIDE DEF run, K, C, names
  <2> QED BY <2>1 DEF Drawers
<1>11. end = IF run.left = 0 THEN run
             ELSE [run EXCEPT !.book = RecordGap(@, e, evs[e], currency, asset, run.left)]
  BY <1>1 DEF Allocate
<1>16. end \in Draws(before, evs, u, exact, served, e, Payable(b, u, evs[e].time))
  BY AllocateSound DEF CurrencyCodes
<1> HIDE DEF run, end, K, order, start, X
<1>12. /\ run.book \in SoundBooks(before, evs, u, exact, served) /\ run.left \in Nat
       /\ run = [book |-> run.book, left |-> run.left, cost |-> run.cost, drawn |-> run.drawn]
  <2> HIDE DEF C, names
  <2> QED BY <1>10 DEF Draws
<1>13. end.book \in SoundBooks(before, evs, u, exact, served)
  BY <1>16, Allocated
<1>14. CASE run.left = 0
  <2>1. end = run
    BY <1>11, <1>14
  <2>2. needed = 0 \/ Len(end.drawn) > 0
    BY <1>10, <1>14, <2>1 DEF Begun
  <2> QED BY <1>10, <1>13, <2>1, <2>2 DEF end, Naming
<1>15. CASE run.left # 0
  <2> DEFINE left == run.left
             book == run.book
             gapped == RecordGap(book, e, evs[e], currency, asset, left)
  <2>1. end.book = gapped
    <3> HIDE DEF gapped
    <3>1. end = [run EXCEPT !.book = gapped]
      BY <1>11, <1>15 DEF gapped
    <3> QED BY <1>12, <3>1
  <2>2. book \in BookSet /\ RowsTyped(book)
    BY <1>12 DEF SoundBooks, Sound
  <2> HIDE DEF left, book, C
  <2>3. Named(RecordGap(book, e, evs[e], currency, asset, left)) = Named(book) \cup {<<e, asset>>}
    BY <2>2, WritesName
  <2>4. Named(b) \subseteq Named(end.book) /\ <<e, asset>> \in Named(end.book)
    BY <1>10, <2>1, <2>3 DEF book
  <2> QED BY <1>13, <2>4 DEF end, Naming
<1> QED BY <1>14, <1>15

(* Attributing what was drawn names the asset, once something was drawn. *)
LEMMA PurchaseNames ==
    ASSUME NEW before, NEW evs, NEW u, NEW exact, NEW served,
           NEW b \in SoundBooks(before, evs, u, exact, served),
           NEW e, Handles(evs, e, u, served), NEW x, x.asset \in Assets,
           NEW list \in Seq(DrawnRows(e, Payable(b, u, evs[e].time))),
           Covered(b.attributions, list, b.consumptions)
    PROVE  /\ Attributing!Folded(e, x, e, b, list)
                \in Naming(before, evs, u, exact, served, Named(b))
           /\ Len(list) > 0 => <<e, x.asset>> \in Named(Attributing!Folded(e, x, e, b, list))
<1> DEFINE C == Payable(b, u, evs[e].time)
           names == Named(b)
           one == <<e, x.asset>>
           After(i) == {d \in SoundBooks(before, evs, u, exact, served) :
                          /\ Payable(d, u, evs[e].time) = C
                          /\ names \subseteq Named(d) /\ (i > 0 => one \in Named(d))
                          /\ Covered(d.attributions, Rest(list, i), d.consumptions)}
           X == [i \in 0 .. Len(list) |-> After(i)]
<1>1. /\ Rest(list, 0) = list
      /\ \A i \in 0 .. Len(list) : IsTable(Rest(list, i), Consumption)
      /\ \A i \in 1 .. Len(list) : OneMore(Rest(list, i), Rest(list, i - 1), i, list[i])
  BY RestRows
<1>2. ASSUME NEW i \in 1 .. Len(list), NEW d \in After(i - 1)
      PROVE  AttributeOn(e, x, e, d, list[i]) \in After(i)
  <2> DEFINE row == list[i]
             R == Rest(list, i)
             Q == Rest(list, i - 1)
             next == Attribute(d, e, x, row)
  <2>1. /\ d \in SoundBooks(before, evs, u, exact, served) /\ Payable(d, u, evs[e].time) = C
        /\ Covered(d.attributions, Q, d.consumptions) /\ names \subseteq Named(d)
    OBVIOUS
  <2>2. row \in DrawnRows(e, Payable(d, u, evs[e].time))
    <3> HIDE DEF C
    <3>1. list \in Seq(DrawnRows(e, C))
      BY DEF C
    <3> QED BY <2>1, <3>1
  <2>3. IsTable(R, Consumption) /\ IsTable(Q, Consumption) /\ OneMore(R, Q, i, row)
    <3>1. i \in 0 .. Len(list) /\ i - 1 \in 0 .. Len(list)
      OBVIOUS
    <3> QED BY <1>1, <3>1
  <2> HIDE DEF row, R, Q, names, one
  <2>4. /\ Attribute(d, e, x, row) \in SoundBooks(before, evs, u, exact, served)
        /\ Payable(Attribute(d, e, x, row), u, evs[e].time) = Payable(d, u, evs[e].time)
        /\ Covered(Attribute(d, e, x, row).attributions, R,
                   Attribute(d, e, x, row).consumptions)
        /\ Accounted(Attribute(d, e, x, row), e) = Accounted(d, e)
        /\ Attribute(d, e, x, row).lots = d.lots /\ Attribute(d, e, x, row).gaps = d.gaps
    BY <2>1, <2>2, <2>3, AttributeSound
  <2>5. Named(Attribute(d, e, x, row)) = Named(d) \cup {<<e, x.asset>>}
    <3>1. d \in BookSet /\ RowsTyped(d)
      BY <2>1 DEF SoundBooks, Sound
    <3> QED BY <3>1, WritesName
  <2> HIDE DEF C
  <2> QED BY <2>1, <2>4, <2>5 DEF AttributeOn, row, R, one
<1>3. b \in After(0)
  BY <1>1
<1> HIDE DEF C, names, one, After
<1>4. Attributing!Folded(e, x, e, b, list) \in X[Len(list)]
  <2> DEFINE S == DrawnRows(e, C)
  <2>1. list \in Seq(S) /\ Len(list) \in Nat
    BY DEF C
  <2>2. b \in X[0]
    BY <1>3, <2>1
  <2>3. \A i \in 1 .. Len(list) : \A d \in X[i - 1] : AttributeOn(e, x, e, d, list[i]) \in X[i]
    <3>1. \A i \in 1 .. Len(list) : X[i - 1] = After(i - 1) /\ X[i] = After(i)
      BY <2>1
    <3> QED BY <1>2, <3>1
  <2> HIDE DEF X, S
  <2> QED BY <2>1, <2>2, <2>3, Attributing!Advances
<1>5. X[Len(list)] = After(Len(list))
  BY DEF X
<1>6. Attributing!Folded(e, x, e, b, list) \in After(Len(list))
  BY <1>4, <1>5
<1> QED BY <1>6 DEF After, Naming, names, one

(* A purchase names each asset that costs anything, and loses no name. *)
LEMMA AssetPurchaseNames ==
    ASSUME NEW before, NEW evs, NEW u, NEW exact, NEW served,
           NEW b \in SoundBooks(before, evs, u, exact, served),
           NEW e, Handles(evs, e, u, served)
    PROVE  /\ AssetPurchase(b, e, evs[e]) \in Naming(before, evs, u, exact, served, Named(b))
           /\ \A x \in ToSet(Purchased(evs[e])) :
                x.amount = 0 \/ <<e, x.asset>> \in Named(AssetPurchase(b, e, evs[e]))
<1> DEFINE ev == evs[e]
           list == Purchased(ev)
           N == Len(list)
           names == Named(b)
           Tells(d, n) == \A i \in 1 .. n : list[i].amount = 0 \/ <<e, list[i].asset>> \in Named(d)
           After(n) == {d \in SoundBooks(before, evs, u, exact, served) :
                          names \subseteq Named(d) /\ Tells(d, n)}
           X == [n \in 0 .. N |-> After(n)]
<1>1. /\ list \in Seq(ToSet(list))
      /\ \A x \in ToSet(list) : x.asset \in Assets /\ x.currency \in STRING /\ x.amount \in Nat
  BY Entries, AssetLegs
<1>2. N \in Nat /\ \A n \in 1 .. N : list[n] \in ToSet(list)
  <2> HIDE DEF list
  <2> QED BY <1>1
<1>3. ASSUME NEW n \in 1 .. N, NEW d \in After(n - 1)
      PROVE  BuyOn(e, ev, e, d, list[n]) \in After(n)
  <2> DEFINE x == list[n]
             currency == x.currency
             amount == x.amount
             asset == x.asset
             run == Allocate(d, e, evs[e], currency, amount, asset)
             drawn == run.drawn
             book == run.book
             next == Attributing!Folded(e, x, e, book, drawn)
  <2>1. /\ currency \in CurrencyCodes /\ amount \in Nat /\ asset \in Assets \cup {NoAsset}
        /\ x.asset \in Assets
    BY <1>1, <1>2 DEF CurrencyCodes
  <2>2. BuyOn(e, ev, e, d, x) = next
    BY DEF BuyOn, AttributeOn, Attributing!Folded, Attributing!FoldLeft,
           Attributing!MapThenFoldSet, FoldLeft, MapThenFoldSet, Attributing!Max, Max
  <2>3. /\ d \in SoundBooks(before, evs, u, exact, served) /\ names \subseteq Named(d)
        /\ Tells(d, n - 1)
    OBVIOUS
  <2>11. asset = x.asset
    OBVIOUS
  <2> HIDE DEF currency, amount, asset, list, N, x, Tells, After
  <2>4. /\ Allocate(d, e, evs[e], currency, amount, asset).book
             \in Naming(before, evs, u, exact, served, Named(d))
        /\ \/ amount = 0
           \/ Len(Allocate(d, e, evs[e], currency, amount, asset).drawn) > 0
           \/ <<e, asset>> \in Named(Allocate(d, e, evs[e], currency, amount, asset).book)
    BY <2>1, <2>3, AllocateNames
  <2>5. run \in Draws(before, evs, u, exact, served, e, Payable(d, u, evs[e].time))
    <3>1. Allocate(d, e, evs[e], currency, amount, asset)
            \in Draws(before, evs, u, exact, served, e, Payable(d, u, evs[e].time))
      BY <2>1, <2>3, AllocateSound DEF CurrencyCodes
    <3> QED BY <3>1
  <2>6. /\ Named(d) \subseteq Named(book)
        /\ amount = 0 \/ Len(drawn) > 0 \/ <<e, asset>> \in Named(book)
    BY <2>4 DEF Naming
  <2> HIDE DEF run
  <2>7. /\ book \in SoundBooks(before, evs, u, exact, served)
        /\ drawn \in Seq(DrawnRows(e, Payable(book, u, evs[e].time)))
        /\ Covered(book.attributions, drawn, book.consumptions)
    BY <2>5, Allocated
  <2> HIDE DEF book, drawn
  <2>8. /\ Attributing!Folded(e, x, e, book, drawn)
             \in Naming(before, evs, u, exact, served, Named(book))
        /\ Len(drawn) > 0 => <<e, x.asset>> \in Named(Attributing!Folded(e, x, e, book, drawn))
    BY <2>1, <2>7, PurchaseNames
  <2>9. /\ next \in SoundBooks(before, evs, u, exact, served) /\ Named(book) \subseteq Named(next)
        /\ Len(drawn) > 0 => <<e, asset>> \in Named(next)
    BY <2>8, <2>11 DEF Naming
  <2> HIDE DEF next
  <2>10. names \subseteq Named(next) /\ Tells(next, n)
    <3>1. Named(d) \subseteq Named(next) /\ (amount = 0 \/ <<e, asset>> \in Named(next))
      BY <2>6, <2>9
    <3>2. \A i \in 1 .. n : i \in 1 .. n - 1 \/ i = n
      BY <1>2
    <3>3. list[n].amount = amount /\ list[n].asset = asset
      BY DEF amount, asset, x
    <3> HIDE DEF names
    <3> QED BY <2>3, <3>1, <3>2, <3>3 DEF Tells
  <2> QED BY <2>2, <2>9, <2>10 DEF After, x
<1>4. b \in After(0)
  OBVIOUS
<1>5. Buying!Folded(e, ev, e, b, list) \in X[N]
  <2> DEFINE S == ToSet(list)
  <2>1. list \in Seq(S) /\ b \in X[0]
    <3> HIDE DEF After, list
    <3> QED BY <1>1, <1>2, <1>4
  <2>2. \A n \in 1 .. N : \A d \in X[n - 1] : BuyOn(e, ev, e, d, list[n]) \in X[n]
    <3>1. \A n \in 1 .. N : X[n - 1] = After(n - 1) /\ X[n] = After(n)
      <4> HIDE DEF After, N
      <4> QED BY <1>2
    <3> HIDE DEF X, After, ev, list
    <3> QED BY <1>3, <3>1
  <2> HIDE DEF X, S, ev, list
  <2> QED BY <2>1, <2>2, Buying!Advances
<1>6. AssetPurchase(b, e, ev) = Buying!Folded(e, ev, e, b, list)
  BY DEF AssetPurchase, BuyOn, Buying!Folded, Buying!FoldLeft, Buying!MapThenFoldSet,
         FoldLeft, MapThenFoldSet, Buying!Max, Max
<1>7. X[N] = After(N)
  <2> HIDE DEF After, list
  <2> QED BY <1>2
<1>8. AssetPurchase(b, e, ev) \in After(N)
  BY <1>5, <1>6, <1>7
<1>9. \A x \in ToSet(list) : \E i \in 1 .. N : x = list[i]
  <2> HIDE DEF list
  <2> QED BY <1>1 DEF ToSet
<1> DEFINE end == AssetPurchase(b, e, ev)
<1> HIDE DEF end, list, N
<1>10. /\ end \in SoundBooks(before, evs, u, exact, served) /\ names \subseteq Named(end)
       /\ Tells(end, N)
  BY <1>8 DEF end
<1>11. \A x \in ToSet(list) : x.amount = 0 \/ <<e, x.asset>> \in Named(end)
  BY <1>9, <1>10
<1> QED BY <1>10, <1>11 DEF Naming, end, list

(* Taking money back from an attribution leaves what it is for. *)
LEMMA ReleaseNames ==
    ASSUME NEW before, NEW evs, NEW u, NEW exact, NEW served, NEW b,
           NEW run \in Releases(before, evs, u, exact, served, b), NEW a \in DOMAIN b.attributions
    PROVE  Named(Release(run, a).book) = Named(run.book)
<1> DEFINE row == run.book.attributions[a]
           amount == Smaller(row.native_amount, run.left)
           basis == BasisShare(row.rmb_basis, amount, row.native_amount)
           smaller == [row EXCEPT !.native_amount = @ - amount, !.rmb_basis = @ - basis]
           old == run.book.attributions
           A == [old EXCEPT ![a] = smaller]
           next == Release(run, a)
<1>1. /\ run.book \in SoundBooks(before, evs, u, exact, served)
      /\ DOMAIN run.book.attributions = DOMAIN b.attributions
      /\ run = [book |-> run.book, left |-> run.left, carried |-> run.carried]
  BY DEF Releases
<1>2. /\ IsTable(old, Attribution) /\ a \in DOMAIN old
      /\ run.book = [lots |-> run.book.lots, consumptions |-> run.book.consumptions,
                     attributions |-> run.book.attributions, gaps |-> run.book.gaps]
  BY <1>1 DEF SoundBooks, Sound, RowsTyped, BookSet
<1>3. row \in Attribution
  BY <1>2 DEF IsTable
<1>4. smaller.target_event = row.target_event /\ smaller.target_asset = row.target_asset
  <2> HIDE DEF row, amount, basis
  <2> QED BY <1>3 DEF Attribution
<1>5. CASE run.left = 0 \/ row.native_amount = 0
  BY <1>5 DEF Release
<1>6. CASE ~ (run.left = 0 \/ row.native_amount = 0)
  <2>1. next = [run EXCEPT !.book.attributions[a] = smaller, !.left = @ - amount,
                           !.carried = @ + basis]
    BY <1>6 DEF Release
  <2>2. next.book.attributions = A /\ next.book.gaps = run.book.gaps
    <3> HIDE DEF next, smaller, amount, basis, row
    <3> QED BY <1>1, <1>2, <2>1
  <2>3. /\ DOMAIN A = DOMAIN old /\ A[a] = smaller /\ old[a] = row
        /\ \A k \in DOMAIN old : k # a => A[k] = old[k]
    <3> HIDE DEF smaller
    <3> QED BY <1>2
  <2> HIDE DEF A, old, smaller, row
  <2>4. \A k \in DOMAIN old : /\ A[k].target_event = old[k].target_event
                              /\ A[k].target_asset = old[k].target_asset
    BY <1>4, <2>3
  <2>5. Targets(A) = Targets(old)
    BY <2>3, <2>4 DEF Targets
  <2> HIDE DEF next
  <2>6. Named(next.book) = Named(run.book)
    BY <2>2, <2>5 DEF Named, old
  <2> QED BY <2>6 DEF next
<1> QED BY <1>5, <1>6

(* So does a whole redemption, *)
LEMMA ReleaseAllNames ==
    ASSUME NEW before, NEW evs, NEW u, NEW exact, NEW served,
           NEW b \in SoundBooks(before, evs, u, exact, served),
           NEW e, Handles(evs, e, u, served)
    PROVE  Named(ReleaseAll(b, evs, evs[e]).book) = Named(b)
<1> DEFINE ev == evs[e]
           K == Currencies(ev)
           names == Named(b)
           Books == {d \in SoundBooks(before, evs, u, exact, served) : Named(d) = names}
           X == [book : Books, carried : [K -> Nat]]
           list == Redeemed(ev)
           start == [book |-> b, carried |-> [c \in K |-> 0]]
<1>1. IsTable(evs, Event)
  BY DEF Handles
<1>2. /\ list \in Seq(ToSet(list))
      /\ \A x \in ToSet(list) : x.currency \in K /\ x.amount \in Nat
  BY Entries, AssetLegs DEF Currencies
<1>3. start \in X
  OBVIOUS
<1> HIDE DEF K, list, start
<1>4. ASSUME NEW acc \in X, NEW x \in ToSet(list)
      PROVE  ReleaseAssetOn(evs, e, e, acc, x) \in X
  <2> DEFINE book == acc.book
             amount == x.amount
             asset == x.asset
             rows == CarryingRows(book, evs, asset)
             first == [book |-> book, left |-> amount, carried |-> 0]
             run == FoldLeft(Release, first, rows)
             D == DOMAIN book.attributions
             Y == {r \in Releases(before, evs, u, exact, served, book) : Named(r.book) = names}
  <2>1. book \in SoundBooks(before, evs, u, exact, served) /\ amount \in Nat /\ Named(book) = names
    BY <1>2, <1>4
  <2>2. ReleaseAssetOn(evs, e, e, acc, x)
          = [book |-> run.book, carried |-> [acc.carried EXCEPT ![x.currency] = @ + run.carried]]
    BY DEF ReleaseAssetOn
  <2> HIDE DEF book, amount, asset, names
  <2>3. rows \in Seq(D)
    BY <1>1, <2>1, CarryingList
  <2>4. first \in Y
    BY <2>1 DEF Releases
  <2>5. \A r \in Y : \A a \in D : ReleaseOn(u, u, u, r, a) \in Y
    <3>1. ASSUME NEW r \in Releases(before, evs, u, exact, served, book),
                 NEW a \in DOMAIN book.attributions, Named(r.book) = names
          PROVE  /\ Release(r, a) \in Releases(before, evs, u, exact, served, book)
                 /\ Named(Release(r, a).book) = names
      <4>1. Release(r, a) \in Releases(before, evs, u, exact, served, book)
        BY ReleaseSound
      <4>2. Named(Release(r, a).book) = Named(r.book)
        BY ReleaseNames
      <4> QED BY <3>1, <4>1, <4>2
    <3> QED BY <3>1 DEF ReleaseOn
  <2>6. Releasing!Folded(u, u, u, first, rows) \in Y
    <3> HIDE DEF Y, D, rows, first
    <3> QED BY <2>3, <2>4, <2>5, Releasing!Stays
  <2>7. run = Releasing!Folded(u, u, u, first, rows)
    <3> HIDE DEF first, rows
    <3> QED BY DEF ReleaseOn, Releasing!Folded, Releasing!FoldLeft, Releasing!MapThenFoldSet,
                   FoldLeft, MapThenFoldSet, Releasing!Max, Max
  <2>8. run \in Releases(before, evs, u, exact, served, book) /\ Named(run.book) = names
    <3> HIDE DEF run, first, rows
    <3> QED BY <2>6, <2>7
  <2> HIDE DEF run
  <2>9. run.book \in Books /\ run.carried \in Nat
    BY <2>8 DEF Releases, names
  <2>10. [acc.carried EXCEPT ![x.currency] = @ + run.carried] \in [K -> Nat]
    BY <1>2, <1>4, <2>9
  <2> QED BY <2>2, <2>9, <2>10
<1>5. ReleasingAll!Folded(evs, e, e, start, list) \in X
  <2>1. \A acc \in X : \A x \in ToSet(list) : ReleaseAssetOn(evs, e, e, acc, x) \in X
    BY <1>4
  <2> HIDE DEF X
  <2> QED BY <1>2, <1>3, <2>1, ReleasingAll!Stays
<1>6. ReleaseAll(b, evs, ev) = ReleasingAll!Folded(evs, e, e, start, list)
  BY DEF ReleaseAll, ReleaseAssetOn, start, list, K, Currencies,
         ReleasingAll!Folded, ReleasingAll!FoldLeft, ReleasingAll!MapThenFoldSet,
         FoldLeft, MapThenFoldSet, ReleasingAll!Max, Max
<1>7. ReleaseAll(b, evs, ev) \in X
  BY <1>5, <1>6
<1> QED BY <1>7

(* and opening lots. *)
LEMMA OpenEachNames ==
    ASSUME NEW before, NEW evs, NEW u, NEW exact, NEW served,
           NEW b \in SoundBooks(before, evs, u, exact, served),
           NEW e, Handles(evs, e, u, served),
           NEW basis, \A c \in ToSet(Inflows(evs[e].cash)) : basis[c] \in Bases
    PROVE  OpenEach(b, e, evs[e], basis) \in Naming(before, evs, u, exact, served, Named(b))
<1> DEFINE ev == evs[e]
           list == Inflows(ev.cash)
           names == Named(b)
           X == Naming(before, evs, u, exact, served, names)
<1>1. /\ list \in Seq(ToSet(list))
      /\ \A c \in ToSet(list) : c.currency \in STRING /\ c.delta \in Nat /\ basis[c] \in Bases
  BY Entries, CashLegs
<1>2. \A x \in X : \A c \in ToSet(list) : OpenOn(e, ev, basis, x, c) \in X
  <2> SUFFICES ASSUME NEW x \in X, NEW c \in ToSet(list) PROVE OpenOn(e, ev, basis, x, c) \in X
    OBVIOUS
  <2> DEFINE currency == c.currency
             amount == c.delta
             value == basis[c]
             next == OpenLot(x, e, evs[e], currency, amount, value)
  <2>1. currency \in STRING /\ amount \in Nat /\ value \in Bases
    BY <1>1
  <2>2. OpenOn(e, ev, basis, x, c) = next
    BY DEF OpenOn
  <2> HIDE DEF names
  <2>3. x \in SoundBooks(before, evs, u, exact, served) /\ names \subseteq Named(x)
    BY DEF Naming
  <2> HIDE DEF currency, amount, value, list, X
  <2>4. OpenLot(x, e, evs[e], currency, amount, value) \in SoundBooks(before, evs, u, exact, served)
    BY <2>1, <2>3, OpenLotSound
  <2>5. Named(OpenLot(x, e, evs[e], currency, amount, value)) = Named(x)
    <3>1. x \in BookSet /\ RowsTyped(x)
      BY <2>3 DEF SoundBooks, Sound
    <3> QED BY <3>1, WritesName
  <2> QED BY <2>2, <2>3, <2>4, <2>5 DEF X, Naming
<1>3. b \in X
  BY DEF Naming
<1>4. Opening!Folded(e, ev, basis, b, list) \in X
  <2> HIDE DEF X, list, ev
  <2> QED BY <1>1, <1>2, <1>3, Opening!Stays
<1>5. OpenEach(b, e, ev, basis) = Opening!Folded(e, ev, basis, b, list)
  BY DEF OpenEach, OpenOn, Opening!Folded, Opening!FoldLeft, Opening!MapThenFoldSet,
         FoldLeft, MapThenFoldSet, Opening!Max, Max
<1> QED BY <1>4, <1>5

(* Selling currency loses no name, *)
LEMMA FxSellNames ==
    ASSUME NEW before, NEW evs, NEW u, NEW exact, NEW served,
           NEW b \in SoundBooks(before, evs, u, exact, served),
           NEW e, Handles(evs, e, u, served)
    PROVE  FxSell(b, e, evs[e]) \in Naming(before, evs, u, exact, served, Named(b))
<1> DEFINE ev == evs[e]
           list == Outflows(ev.cash)
           names == Named(b)
           X == Naming(before, evs, u, exact, served, names)
<1>1. /\ list \in Seq(ToSet(list))
      /\ \A c \in ToSet(list) : c.currency \in CurrencyCodes /\ -c.delta \in Nat
  BY Entries, CashLegs DEF CurrencyCodes
<1>2. \A x \in X : \A c \in ToSet(list) : SellOn(e, ev, e, x, c) \in X
  <2> SUFFICES ASSUME NEW x \in X, NEW c \in ToSet(list) PROVE SellOn(e, ev, e, x, c) \in X
    OBVIOUS
  <2> DEFINE currency == c.currency
             amount == -c.delta
             run == Allocate(x, e, evs[e], currency, amount, NoAsset)
  <2>1. currency \in CurrencyCodes /\ amount \in Nat /\ NoAsset \in Assets \cup {NoAsset}
    BY <1>1
  <2>2. SellOn(e, ev, e, x, c) = run.book
    BY DEF SellOn
  <2> HIDE DEF names
  <2>3. x \in SoundBooks(before, evs, u, exact, served) /\ names \subseteq Named(x)
    BY DEF Naming
  <2> HIDE DEF currency, amount, list, X
  <2>4. Allocate(x, e, evs[e], currency, amount, NoAsset).book
          \in Naming(before, evs, u, exact, served, Named(x))
    BY <2>1, <2>3, AllocateNames
  <2> QED BY <2>2, <2>3, <2>4 DEF X, Naming
<1>3. Selling!Folded(e, ev, e, b, list) \in X
  <2>1. b \in X
    BY DEF X, Naming
  <2> HIDE DEF X, list, ev
  <2> QED BY <1>1, <1>2, <2>1, Selling!Stays
<1>4. FxSell(b, e, ev) = Selling!Folded(e, ev, e, b, list)
  BY DEF FxSell, SellOn, Selling!Folded, Selling!FoldLeft, Selling!MapThenFoldSet,
         FoldLeft, MapThenFoldSet, Selling!Max, Max
<1> QED BY <1>3, <1>4

(* nor does swapping, *)
LEMMA FxSwapNames ==
    ASSUME NEW before, NEW evs, NEW u, NEW exact, NEW served,
           NEW b \in SoundBooks(before, evs, u, exact, served),
           NEW e, Handles(evs, e, u, served)
    PROVE  FxSwap(b, e, evs[e]) \in Naming(before, evs, u, exact, served, Named(b))
<1> DEFINE out == Outflows(evs[e].cash)
           in == Inflows(evs[e].cash)
           source == Head(out)
           target == Head(in)
           from == source.currency
           amount == -source.delta
           to == target.currency
           bought == target.delta
           run == Allocate(b, e, evs[e], from, amount, NoAsset)
           basis == IF run.left = 0 THEN run.cost ELSE NoBasis
           next == OpenLot(run.book, e, evs[e], to, bought, basis)
<1>1. CASE ~TwoLegged(evs[e])
  BY <1>1 DEF TwoLegged, FxSwap, Naming
<1>2. CASE TwoLegged(evs[e])
  <2>1. /\ out \in Seq(ToSet(out)) /\ in \in Seq(ToSet(in))
        /\ \A c \in ToSet(out) : c.currency \in STRING /\ -c.delta \in Nat
        /\ \A c \in ToSet(in) : c.currency \in STRING /\ c.delta \in Nat
    BY Entries, CashLegs
  <2>2. in # <<>> /\ out # <<>>
    BY <1>2 DEF TwoLegged
  <2>3. /\ from \in CurrencyCodes /\ amount \in Nat /\ NoAsset \in Assets \cup {NoAsset}
    <3> HIDE DEF out
    <3>1. source \in ToSet(out)
      BY <2>1, <2>2
    <3> QED BY <2>1, <3>1 DEF CurrencyCodes
  <2>4. FxSwap(b, e, evs[e]) = next
    BY <2>2 DEF FxSwap
  <2> HIDE DEF from, amount, out, in, source, target
  <2>5. Allocate(b, e, evs[e], from, amount, NoAsset).book
          \in Naming(before, evs, u, exact, served, Named(b))
    BY <2>3, AllocateNames
  <2> DEFINE book == run.book
  <2>6. book \in SoundBooks(before, evs, u, exact, served) /\ Named(b) \subseteq Named(book)
    BY <2>5 DEF Naming
  <2>7. Named(next) = Named(book)
    <3>1. book \in BookSet /\ RowsTyped(book)
      BY <2>6 DEF SoundBooks, Sound
    <3> HIDE DEF book, basis, to, bought
    <3>2. Named(OpenLot(book, e, evs[e], to, bought, basis)) = Named(book)
      BY <3>1, WritesName
    <3> QED BY <3>2 DEF book
  <2>8. next \in SoundBooks(before, evs, u, exact, served)
    BY <2>4, FxSwapSound
  <2> HIDE DEF next, book
  <2> QED BY <2>4, <2>6, <2>7, <2>8 DEF Naming
<1> QED BY <1>1, <1>2

(* Buying currency and adjusting a balance, *)
LEMMA FxBuyNames ==
    ASSUME NEW before, NEW evs, NEW u, NEW exact, NEW served,
           NEW b \in SoundBooks(before, evs, u, exact, served),
           NEW e, Handles(evs, e, u, served)
    PROVE  /\ FxBuy(b, e, evs[e]) \in Naming(before, evs, u, exact, served, Named(b))
           /\ ManualAdjustment(b, e, evs[e]) \in Naming(before, evs, u, exact, served, Named(b))
<1> DEFINE S == ToSet(Inflows(evs[e].cash))
           cost == [c \in S |-> CashBasis(c)]
           given == [c \in S |-> ManualBasis(c)]
<1>1. \A c \in S : CashBasis(c) \in Bases /\ ManualBasis(c) \in Bases
  BY Entries, CashLegs, CashValues
<1>2. /\ \A c \in ToSet(Inflows(evs[e].cash)) : cost[c] \in Bases
      /\ \A c \in ToSet(Inflows(evs[e].cash)) : given[c] \in Bases
  BY <1>1
<1> HIDE DEF cost, given
<1>3. OpenEach(b, e, evs[e], cost) \in Naming(before, evs, u, exact, served, Named(b))
  BY <1>2, OpenEachNames
<1>4. OpenEach(b, e, evs[e], given) \in Naming(before, evs, u, exact, served, Named(b))
  BY <1>2, OpenEachNames
<1> QED BY <1>3, <1>4 DEF FxBuy, ManualAdjustment, cost, given

(* and income and redemptions lose no name. *)
LEMMA IncomeNames ==
    ASSUME NEW before, NEW evs, NEW u, NEW exact, NEW served,
           NEW b \in SoundBooks(before, evs, u, exact, served),
           NEW e, Handles(evs, e, u, served)
    PROVE  IncomeOrRedemption(b, evs, e, evs[e]) \in Naming(before, evs, u, exact, served, Named(b))
<1> DEFINE ev == evs[e]
           S == ToSet(Inflows(ev.cash))
           book == ReleaseAll(b, evs, ev).book
           carried == ReleaseAll(b, evs, ev).carried
           basis == [c \in S |-> RedemptionBasis(carried, ev, c)]
<1>0. /\ ReleaseAll(b, evs, evs[e]).book \in SoundBooks(before, evs, u, exact, served)
      /\ ReleaseAll(b, evs, evs[e]).carried \in [Currencies(evs[e]) -> Nat]
  BY ReleaseAllSound
<1>7. Named(ReleaseAll(b, evs, evs[e]).book) = Named(b)
  BY ReleaseAllNames
<1>1. /\ book \in SoundBooks(before, evs, u, exact, served) /\ carried \in [Currencies(ev) -> Nat]
      /\ Named(book) = Named(b)
  BY <1>0, <1>7
<1>2. IncomeOrRedemption(b, evs, e, ev) = OpenEach(book, e, evs[e], basis)
  BY DEF IncomeOrRedemption
<1> HIDE DEF book, carried
<1>3. ASSUME NEW c \in S PROVE RedemptionBasis(carried, ev, c) \in Bases
  <2>1. CashBasis(c) \in Bases
    BY Entries, CashLegs, CashValues
  <2>2. SpotBasis(ev, c.currency) \in Nat
    BY Entries, SpotBasisNat
  <2> HIDE DEF S
  <2>3. c.currency \in DOMAIN carried => carried[c.currency] \in Nat
    BY <1>1
  <2> HIDE DEF ev
  <2> QED BY <2>1, <2>2, <2>3 DEF RedemptionBasis, Bases
<1>4. \A c \in ToSet(Inflows(evs[e].cash)) : basis[c] \in Bases
  BY <1>3
<1> HIDE DEF basis
<1>5. OpenEach(book, e, evs[e], basis) \in Naming(before, evs, u, exact, served, Named(book))
  BY <1>1, <1>4, OpenEachNames
<1> QED BY <1>1, <1>2, <1>5

(* No event loses a name; a confirmed purchase names what it paid for. *)
LEMMA ProcessNames ==
    ASSUME NEW before, NEW evs, NEW u, NEW exact, NEW served,
           NEW b \in SoundBooks(before, evs, u, exact, served),
           NEW e, Handles(evs, e, u, served)
    PROVE  /\ Process(b, evs, e) \in Naming(before, evs, u, exact, served, Named(b))
           /\ ConfirmedPurchase(evs[e]) =>
                \A x \in ToSet(Purchased(evs[e])) :
                   x.amount = 0 \/ <<e, x.asset>> \in Named(Process(b, evs, e))
<1> DEFINE X == Naming(before, evs, u, exact, served, Named(b))
<1>1. FxBuy(b, e, evs[e]) \in X /\ ManualAdjustment(b, e, evs[e]) \in X
  BY FxBuyNames
<1>2. FxSell(b, e, evs[e]) \in X
  BY FxSellNames
<1>3. FxSwap(b, e, evs[e]) \in X
  BY FxSwapNames
<1>4. IncomeOrRedemption(b, evs, e, evs[e]) \in X
  BY IncomeNames
<1>5. /\ AssetPurchase(b, e, evs[e]) \in X
      /\ \A x \in ToSet(Purchased(evs[e])) :
           x.amount = 0 \/ <<e, x.asset>> \in Named(AssetPurchase(b, e, evs[e]))
  BY AssetPurchaseNames
<1>6. b \in X
  BY DEF Naming
<1> HIDE DEF X
<1>7. Process(b, evs, e) \in X
  BY <1>1, <1>2, <1>3, <1>4, <1>5, <1>6 DEF Process
<1>8. ConfirmedPurchase(evs[e]) => Process(b, evs, e) = AssetPurchase(b, e, evs[e])
  BY DEF Process, ConfirmedPurchase, Purchases
<1> QED BY <1>5, <1>7, <1>8 DEF X

(* Each asset that a confirmed purchase bought is named for it. *)
PurchasesNamedIn(evs, b) ==
    \A e \in DOMAIN evs : ConfirmedPurchase(evs[e]) =>
       \A x \in ToSet(Purchased(evs[e])) : <<e, x.asset>> \in Named(b)

PurchasesNamed == PurchasesNamedIn(events, books)

(* Recording an event keeps it so: a purchase that costs nothing is refused. *)
LEMMA CreateKeepsNamed ==
    ASSUME IInv, PurchasesNamed,
           NEW u \in Users, NEW p \in Payloads, NEW t \in Times, CreateEvent(u, p, t)
    PROVE  PurchasesNamed'
<1> DEFINE e == NextId(events)
           ev == [user |-> u, time |-> t, type |-> p.type, status |-> p.status,
                  cash |-> p.cash, assets |-> p.assets]
<1>1. /\ IsTable(events', Event) /\ e \notin DOMAIN events
      /\ DOMAIN events' = DOMAIN events \cup {e}
      /\ \A d \in DOMAIN events : events'[d] = events[d]
      /\ Handles(events', e, u, {e})
      /\ books \in SoundBooks(books, events', u, FALSE, {e})
      /\ books' = Process(books, events', e)
  BY CreateEventStarts
<1>2. events'[e] = ev /\ ~Refused(ev)
  <2>1. IsTable(events, Event) /\ events' = Insert(events, ev) /\ ~Refused(ev)
    BY DEF CreateEvent, IInv, TypeOK
  <2> HIDE DEF ev
  <2> QED BY <2>1, InsertRow
<1> HIDE DEF e, ev
<1>3. ~Refused(events'[e])
  BY <1>2
<1>4. /\ Process(books, events', e) \in Naming(books, events', u, FALSE, {e}, Named(books))
      /\ ConfirmedPurchase(events'[e]) =>
           \A x \in ToSet(Purchased(events'[e])) :
              x.amount = 0 \/ <<e, x.asset>> \in Named(Process(books, events', e))
  BY <1>1, ProcessNames
<1>5. Named(books) \subseteq Named(books')
  BY <1>1, <1>4 DEF Naming
<1>6. ConfirmedPurchase(events'[e]) =>
         \A x \in ToSet(Purchased(events'[e])) : <<e, x.asset>> \in Named(books')
  BY <1>1, <1>3, <1>4 DEF Refused, ConfirmedPurchase
<1>7. \A d \in DOMAIN events : ConfirmedPurchase(events'[d]) =>
         \A x \in ToSet(Purchased(events'[d])) : <<d, x.asset>> \in Named(books')
  BY <1>1, <1>5 DEF PurchasesNamed, PurchasesNamedIn
<1>8. PurchasesNamedIn(events', books')
  BY <1>1, <1>6, <1>7 DEF PurchasesNamedIn
<1> QED BY <1>8 DEF PurchasesNamed
-----------------------------------------------------------------------------
(* What the reader of the audit is shown.                                  *)

(* A snapshot that values an asset is one of the records suggested. *)
LEMMA SnapshotSuggested ==
    ASSUME ReportsInv, NEW u \in Users, NEW a \in Assets, NEW cutoff, RowsFor(u, a, cutoff) # {}
    PROVE  <<"valuation", Newest(RowsFor(u, a, cutoff))>> \in AssetRecords(u, CurrencyOf[a])
<1> DEFINE rows == RowsFor(u, a, cutoff)
           v == Newest(rows)
           traded == {x.asset : x \in UNION {ToSet(events[e].assets) : e \in Own(u)}}
<1>1. IsTable(events, Event) /\ Own(u) \in SUBSET DOMAIN events
  BY DEF ReportsInv, IInv, TypeOK, Own
<1>2. rows \subseteq DOMAIN valuations
  BY DEF RowsFor, Qualifying, SnapshotsOf
<1>3. v \in rows
  <2> HIDE DEF rows
  <2> QED BY <1>2, NewestIsMember DEF ReportsInv, rows
<1>4. valuations[v].user = u /\ valuations[v].asset = a
  BY <1>3 DEF RowsFor, Qualifying, SnapshotsOf
<1>5. Quantity(Own(u), a) # 0 \/ RawQuantity(Own(u), a) # 0
  BY <1>3 DEF RowsFor, Qualifying
<1>6. PICK x \in EntriesOf(Own(u), a) : TRUE
  BY <1>1, <1>5, QuantityTyped
<1>7. a \in traded
  BY <1>6 DEF EntriesOf
<1>8. v \in DOMAIN valuations
  BY <1>2, <1>3
<1> HIDE DEF v, rows
<1> QED BY <1>4, <1>7, <1>8 DEF AssetRecords, v, rows

(* A bought asset that is diagnosed as INCOMPLETE has a gap in the list. *)
LEMMA GapListed ==
    ASSUME IInv, PurchasesNamed, NEW u \in Users, NEW a \in Assets,
           NEW e \in Own(u), ConfirmedPurchase(events[e]),
           NEW x \in ToSet(Purchased(events[e])), x.asset = a,
           Where(books.gaps, LAMBDA g : g.asset = a) \subseteq Diagnostics(u).gaps,
           Diagnostics(u).products[a] = "INCOMPLETE"
    PROVE  \E g \in Diagnostics(u).gaps : books.gaps[g].asset = a
<1> DEFINE rows == Where(books.attributions, LAMBDA r : r.target_asset = a)
           lacking == Where(books.gaps, LAMBDA g : g.asset = a)
           traded == {y.asset : y \in UNION {ToSet(events[d].assets) : d \in Own(u)}}
<1>1. e \in DOMAIN events /\ events[e].user = u /\ events[e] \in Event
  BY DEF Own, IInv, TypeOK, IsTable
<1>2. a \in traded
  <2>1. events[e].assets \in Seq(AssetEntry)
    BY <1>1 DEF Event
  <2>2. Purchased(events[e]) = Chosen(events[e].assets, Bought(events[e].assets))
    BY DEF Purchased, Bought
  <2>3. Bought(events[e].assets) \subseteq ToSet(events[e].assets)
    BY DEF Bought
  <2>4. ToSet(Chosen(events[e].assets, Bought(events[e].assets))) \subseteq Bought(events[e].assets)
    BY <2>1, <2>3, ChosenMembers
  <2>5. x \in ToSet(events[e].assets)
    BY <2>2, <2>3, <2>4
  <2> QED BY <2>5
<1>3. StatusOf(a, u) = "INCOMPLETE"
  <2>1. Diagnostics(u).products[a] = StatusOf(a, u)
    BY <1>2 DEF Diagnostics
  <2> QED BY <2>1
<1>4. ComputeStatus(a, u) = "INCOMPLETE"
  BY <1>3 DEF StatusOf
<1>5. lacking # {} \/ ~\E r \in rows : events[books.attributions[r].target_event].user = u
  <2> HIDE DEF lacking, rows
  <2> QED BY <1>4 DEF ComputeStatus, lacking, rows
<1>6. <<e, a>> \in Named(books)
  BY <1>1 DEF PurchasesNamed, PurchasesNamedIn
<1>7. lacking # {}
  <2>1. CASE <<e, a>> \in Targets(books.attributions)
    <3>1. PICK r \in DOMAIN books.attributions :
             books.attributions[r].target_event = e /\ books.attributions[r].target_asset = a
      BY <2>1 DEF Targets
    <3>2. r \in rows
      BY <3>1 DEF Where
    <3> HIDE DEF rows, lacking
    <3> QED BY <1>1, <1>5, <3>1, <3>2
  <2>2. CASE <<e, a>> \in Lacking(books.gaps)
    <3>1. PICK g \in DOMAIN books.gaps : books.gaps[g].event = e /\ books.gaps[g].asset = a
      BY <2>2 DEF Lacking
    <3> QED BY <3>1 DEF Where
  <2> QED BY <1>6, <2>1, <2>2 DEF Named
<1>8. PICK g \in lacking : TRUE
  BY <1>7
<1>9. books.gaps[g].asset = a /\ g \in Diagnostics(u).gaps
  BY <1>8 DEF Where
<1> QED BY <1>9

(* For all histories: every snapshot behind an asset value is among the     *)
(* records suggested for its currency, and every bought asset diagnosed as *)
(* INCOMPLETE has a gap in the list beside it, unless another user's gap   *)
(* names it too.                                                           *)
THEOREM HintsNameTheCause == ReportsSpec => []SuggestionsNameTheCause
<1>1. ReportsInit => PurchasesNamed
  BY DEF ReportsInit, Init, PurchasesNamed, PurchasesNamedIn
<1>2. ReportsInv /\ PurchasesNamed /\ [ReportsNext]_reportVars => PurchasesNamed'
  <2> SUFFICES ASSUME ReportsInv, PurchasesNamed, [ReportsNext]_reportVars
               PROVE  PurchasesNamed'
    OBVIOUS
  <2>1. CASE RecordEvent
    <3>1. PICK u \in Users, p \in Payloads, t \in Times : CreateEvent(u, p, t)
      BY <2>1 DEF RecordEvent, Create
    <3> QED BY <3>1, CreateKeepsNamed DEF ReportsInv
  <2>2. CASE UNCHANGED <<events, books>>
    BY <2>2 DEF PurchasesNamed
  <2> QED BY <2>1, <2>2
      DEF ReportsNext, RecordValuation, CreateValuation, RefreshRate, RecordRate, reportVars
<1>3. ReportsInv /\ PurchasesNamed => SuggestionsNameTheCause
  <2> SUFFICES ASSUME ReportsInv, PurchasesNamed, NEW u \in Users, NEW a \in Assets
               PROVE  /\ \A cutoff \in Times : RowsFor(u, a, cutoff) # {} =>
                            <<"valuation", Newest(RowsFor(u, a, cutoff))>>
                               \in AssetRecords(u, CurrencyOf[a])
                      /\ \A e \in Own(u) :
                            (/\ events[e].status = "CONFIRMED" /\ events[e].type \in Purchases
                             /\ \E x \in ToSet(Purchased(events[e])) : x.asset = a
                             /\ Where(books.gaps, LAMBDA g : g.asset = a) \subseteq Diagnostics(u).gaps
                             /\ Diagnostics(u).products[a] = "INCOMPLETE")
                            => \E g \in Diagnostics(u).gaps : books.gaps[g].asset = a
    BY DEF SuggestionsNameTheCause, RowsFor
  <2>1. \A cutoff \in Times : RowsFor(u, a, cutoff) # {} =>
           <<"valuation", Newest(RowsFor(u, a, cutoff))>> \in AssetRecords(u, CurrencyOf[a])
    BY SnapshotSuggested
  <2>2. ASSUME NEW e \in Own(u), events[e].status = "CONFIRMED", events[e].type \in Purchases,
               NEW x \in ToSet(Purchased(events[e])), x.asset = a,
               Where(books.gaps, LAMBDA g : g.asset = a) \subseteq Diagnostics(u).gaps,
               Diagnostics(u).products[a] = "INCOMPLETE"
        PROVE  \E g \in Diagnostics(u).gaps : books.gaps[g].asset = a
    BY <2>2, GapListed DEF ReportsInv, ConfirmedPurchase
  <2> QED BY <2>1, <2>2
<1> QED BY <1>1, <1>2, <1>3, ReportsInvariant, PTL DEF ReportsSpec
=============================================================================
