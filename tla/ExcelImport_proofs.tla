--------------------------- MODULE ExcelImport_proofs ---------------------------
(***************************************************************************)
(* Proofs about the transaction ledger, for any trades, workbooks, edits,  *)
(* rates and backups: the average cost of what is left of an asset lies    *)
(* between the prices it was bought at, neither a trade nor an import      *)
(* sells what is not held, and both change the ledger of events by what    *)
(* they change the transactions.                                           *)
(***************************************************************************)
EXTENDS ExcelImport, SumTheorems

-----------------------------------------------------------------------------
(* What is stored.                                                         *)

(* The columns of transactions: only a positive quantity is ever stored.   *)
(* CNY is named because the provers do not know that a literal is a string. *)
TradeRow == [type : AssetTypes, code : STRING, direction : {"BUY", "SELL"},
             quantity : Nat \ {0}, price : Int, currency : {CNY} \cup STRING,
             rate : Int \cup {None}, cost : Int \cup {None}, time : Nat]

(* A request that passes _validate_transaction is a row. *)
LEMMA RequestRow == \A t \in TradeRequest : t.quantity > 0 => t \in TradeRow
<1> SUFFICES ASSUME NEW t \in TradeRequest, t.quantity > 0 PROVE t \in TradeRow
  OBVIOUS
<1>1. t.quantity \in Nat \ {0}
  BY DEF TradeRequest
<1> QED BY <1>1 DEF TradeRequest, TradeRow

(* A unit price in CNY is a number. *)
LEMMA UnitCostInt == \A t \in TradeRow : UnitCost(t) \in Int
<1> SUFFICES ASSUME NEW t \in TradeRow PROVE UnitCost(t) \in Int
  OBVIOUS
<1>1. RateOf(t) \in Int
  BY DEF TradeRow, RateOf
<1>2. t.price \in Int
  BY DEF TradeRow
<1> QED BY <1>1, <1>2 DEF UnitCost
-----------------------------------------------------------------------------
(* What is held.                                                           *)

Deltas(table) == [i \in DOMAIN table |-> Signed(table[i])]

(* The case of a code is settled once. *)
LEMMA UpperTwice == \A c : Upper(Upper(c)) = Upper(c)
  BY UpperCaseAssumption DEF Upper

OfCode(table, c) == {i \in DOMAIN table : table[i].code = Upper(c)}

(* Held is a sum over the rows of a product. *)
LEMMA HeldNames ==
    ASSUME NEW T, NEW c
    PROVE  Held(T, c) = SumFunctionOnSet(Deltas(T), OfCode(T, c))
  BY DEF Held, Deltas, OfCode, Where

(* What is held is a number. *)
LEMMA HeldInt ==
    ASSUME NEW T, IsTable(T, TradeRow), NEW c
    PROVE  /\ IsFiniteSet(OfCode(T, c))
           /\ \A i \in OfCode(T, c) : Deltas(T)[i] \in Int
           /\ Held(T, c) \in Int
<1>1. IsFiniteSet(OfCode(T, c))
  <2>1. OfCode(T, c) \subseteq DOMAIN T /\ IsFiniteSet(DOMAIN T)
    BY DEF OfCode, IsTable
  <2> QED BY <2>1, FS_Subset
<1>2. ASSUME NEW i \in OfCode(T, c) PROVE Deltas(T)[i] \in Int
  <2>1. i \in DOMAIN T /\ T[i] \in TradeRow
    BY DEF OfCode, IsTable
  <2>2. T[i].quantity \in Int
    BY <2>1 DEF TradeRow
  <2> QED BY <2>1, <2>2 DEF Deltas, Signed
<1>3. SumFunctionOnSet(Deltas(T), OfCode(T, c)) \in Int
  <2> HIDE DEF OfCode
  <2> QED BY <1>1, <1>2, SumInt
<1> QED BY <1>1, <1>2, <1>3, HeldNames

(* A new row adds what it bought or takes what it sold. *)
LEMMA HeldInserted ==
    ASSUME NEW T, IsTable(T, TradeRow), NEW t \in TradeRow, NEW c
    PROVE  Held(Insert(T, t), c) = Held(T, c) + (IF t.code = Upper(c) THEN Signed(t) ELSE 0)
<1> DEFINE U == Insert(T, t)
           n == NextId(T)
           S == OfCode(T, c)
<1>1. /\ DOMAIN U = DOMAIN T \cup {n} /\ n \notin DOMAIN T
      /\ U[n] = t /\ \A i \in DOMAIN T : U[i] = T[i]
  <2>1. n \notin DOMAIN T
    BY FreshKey
  <2>2. /\ DOMAIN Insert(T, t) = DOMAIN T \cup {NextId(T)}
        /\ Insert(T, t)[NextId(T)] = t
        /\ \A i \in DOMAIN T : Insert(T, t)[i] = T[i]
    <3> HIDE DEF U, n
    <3> QED BY InsertRow
  <2> QED BY <2>1, <2>2
<1>2. IsTable(U, TradeRow)
  BY InsertTyped
<1> HIDE DEF U, n
<1>3. /\ IsFiniteSet(S) /\ Held(T, c) \in Int
      /\ \A i \in S : Deltas(T)[i] \in Int
      /\ \A i \in OfCode(U, c) : Deltas(U)[i] \in Int
  BY <1>2, HeldInt
<1>4. \A i \in S : Deltas(U)[i] = Deltas(T)[i]
  BY <1>1 DEF Deltas, OfCode
<1>5. SumFunctionOnSet(Deltas(U), S) = Held(T, c)
  <2> HIDE DEF S
  <2>1. SumFunctionOnSet(Deltas(U), S) = SumFunctionOnSet(Deltas(T), S)
    BY <1>3, <1>4, SumSame
  <2> QED BY <2>1, HeldNames DEF S
<1>6. CASE t.code = Upper(c)
  <2>1. OfCode(U, c) = S \cup {n} /\ n \notin S /\ Deltas(U)[n] = Signed(t)
    BY <1>1, <1>6 DEF OfCode, Deltas
  <2>2. SumFunctionOnSet(Deltas(U), S \cup {n})
          = SumFunctionOnSet(Deltas(U), S) + Deltas(U)[n]
    <3>1. \A x \in S \cup {n} : Deltas(U)[x] \in Int
      BY <1>3, <2>1
    <3> HIDE DEF S
    <3> QED BY <1>3, <2>1, <3>1, SumAdd
  <2>3. Held(U, c) = SumFunctionOnSet(Deltas(U), S \cup {n})
    BY <2>1, HeldNames
  <2> HIDE DEF S
  <2> QED BY <1>5, <1>6, <2>1, <2>2, <2>3 DEF U
<1>7. CASE t.code # Upper(c)
  <2>1. OfCode(U, c) = S
    BY <1>1, <1>7 DEF OfCode
  <2>2. Held(U, c) = SumFunctionOnSet(Deltas(U), OfCode(U, c))
    BY HeldNames
  <2> HIDE DEF S
  <2>3. Held(U, c) = Held(T, c)
    BY <1>5, <2>1, <2>2
  <2>4. Held(T, c) \in Int
    BY <1>3
  <2> QED BY <1>7, <2>3, <2>4 DEF U
<1> QED BY <1>6, <1>7

(* What the ledger holds of every product it held enough of. *)
Covers(table, later) == \A c : Held(table, c) >= 0 => Held(later, c) >= 0

(* A valid trade leaves no holding below zero. *)
LEMMA ValidCovers ==
    ASSUME NEW T, IsTable(T, TradeRow), NEW t \in TradeRow, ValidTrade(T, t)
    PROVE  Covers(T, Insert(T, t))
<1> SUFFICES ASSUME NEW c, Held(T, c) >= 0 PROVE Held(Insert(T, t), c) >= 0
  BY DEF Covers
<1>1. Held(Insert(T, t), c) = Held(T, c) + (IF t.code = Upper(c) THEN Signed(t) ELSE 0)
  BY HeldInserted
<1>2. Held(T, c) \in Int
  BY HeldInt
<1>3. t.quantity \in Nat /\ t.direction \in {"BUY", "SELL"}
  BY DEF TradeRow
<1>4. t.direction = "SELL" => t.quantity <= Held(T, t.code)
  BY DEF ValidTrade
<1>5. t.code = Upper(c) => Held(T, t.code) = Held(T, c)
  <2>1. ASSUME t.code = Upper(c) PROVE OfCode(T, t.code) = OfCode(T, c)
    BY <2>1, UpperTwice DEF OfCode
  <2> HIDE DEF OfCode
  <2> QED BY <2>1, HeldNames
<1> QED BY <1>5, <1>1, <1>2, <1>3, <1>4 DEF Signed

(* Along a batch. *)
LEMMA CoversAgain ==
    ASSUME NEW T, NEW U, NEW V, Covers(T, U), Covers(U, V)
    PROVE  Covers(T, V)
  BY DEF Covers
-----------------------------------------------------------------------------
(* What the events of trades brought in.                                   *)

(* A product of positive numbers is positive. *)
LEMMA ProductNat == \A a, b \in Nat \ {0} : a * b \in Nat \ {0}
  BY Z3

(* A product of whole numbers is one. *)
LEMMA ProductInt == \A a, b \in Int : a * b \in Int
  BY Z3

Legs == [currency : {CNY} \cup STRING, delta : Int, rmb : {None} \cup Int, external : BOOLEAN]

(* An event with typed cash entries; of its assets only that they are a list. *)
Booked(event) ==
    /\ event \in [type : {event.type}, time : {event.time}, id : {event.id},
                  cash : Seq(Legs), assets : {event.assets}]
    /\ event.assets \in Seq(ToSet(event.assets))

CashBooks(L) ==
    /\ IsTable(L, {L[e] : e \in DOMAIN L})
    /\ \A e \in DOMAIN L : Booked(L[e])

OfTrade(event) == event.type \in {"FX_BUY", "FX_SELL"}

OfForex(t) == t.type = "FOREX" /\ Upper(t.currency) = CNY

GainOn(code, q, r, sum, leg) == sum + (IF leg.currency = code THEN leg.delta ELSE 0)

Gaining == INSTANCE FoldTheorems WITH Op <- GainOn

(* What an event brings in of a currency is a number. *)
LEMMA GainedInt ==
    ASSUME NEW event, Booked(event), NEW code
    PROVE  Gained(event, code) \in Int
<1>1. event.cash \in Seq(Legs)
  BY DEF Booked
<1>2. Gained(event, code) = Gaining!Folded(code, code, code, 0, event.cash)
  BY DEF Gained, GainOn, Gaining!Folded, Gaining!FoldLeft, Gaining!MapThenFoldSet,
         FoldLeft, MapThenFoldSet, Gaining!Max, Max
<1>3. \A sum \in Int : \A leg \in Legs : GainOn(code, code, code, sum, leg) \in Int
  BY DEF GainOn, Legs
<1>4. Gaining!Folded(code, code, code, 0, event.cash) \in Int
  BY <1>1, <1>3, Gaining!Stays
<1> QED BY <1>2, <1>4

(* Of two entries it is what each brings in. *)
LEMMA GainedOfTwo ==
    ASSUME NEW event, NEW a \in Legs, NEW b \in Legs, event.cash = <<a, b>>, NEW code
    PROVE  Gained(event, code) = (IF a.currency = code THEN a.delta ELSE 0)
                                   + (IF b.currency = code THEN b.delta ELSE 0)
<1> DEFINE seq == <<a, b>>
           base == 0
<1>1. seq \in Seq(Legs) /\ Len(seq) = 2 /\ seq[1] = a /\ seq[2] = b
  OBVIOUS
<1>2. Gained(event, code) = Gaining!Folded(code, code, code, base, seq)
  BY DEF Gained, GainOn, Gaining!Folded, Gaining!FoldLeft, Gaining!MapThenFoldSet,
         FoldLeft, MapThenFoldSet, Gaining!Max, Max
<1> HIDE DEF seq, base
<1>3. PICK V : /\ V[0] = base /\ V[Len(seq)] = Gaining!Folded(code, code, code, base, seq)
               /\ \A n \in 1 .. Len(seq) : V[n] = GainOn(code, code, code, V[n - 1], seq[n])
  <2>1. seq \in Seq(Legs)
    BY <1>1
  <2> QED BY <2>1, Gaining!Turns
<1>4. V[1] = GainOn(code, code, code, V[0], a) /\ V[2] = GainOn(code, code, code, V[1], b)
  <2>1. 1 \in 1 .. Len(seq) /\ 2 \in 1 .. Len(seq) /\ 1 - 1 = 0 /\ 2 - 1 = 1
    BY <1>1
  <2> QED BY <1>1, <1>3, <2>1
<1>5. Gained(event, code) = V[2]
  BY <1>1, <1>2, <1>3
<1>6. a.delta \in Int /\ b.delta \in Int
  BY DEF Legs
<1> QED BY <1>3, <1>4, <1>5, <1>6 DEF GainOn, base

(* A trade against CNY moves a number of units. *)
LEMMA MovesInt ==
    ASSUME NEW t \in TradeRow, NEW code
    PROVE  Signed(t) \in Int /\ CostInCny(t) \in Int /\ Moves(t, code) \in Int
<1>1. t.quantity \in Int /\ t.price \in Int /\ t.rate \in Int \cup {None} /\ t.cost \in Int \cup {None}
  BY DEF TradeRow
<1>2. t.quantity * t.price \in Int
  BY <1>1, ProductInt
<1>3. CostInCny(t) \in Int
  <2> DEFINE rate == IF t.rate \in {None, 0} THEN 1 ELSE t.rate
             worth == t.quantity * t.price
  <2>1. rate \in Int /\ worth \in Int
    BY <1>1, <1>2
  <2>2. CostInCny(t) = IF t.cost # None THEN t.cost ELSE worth * rate
    BY DEF CostInCny
  <2> HIDE DEF rate, worth
  <2>3. worth * rate \in Int
    BY <2>1, ProductInt
  <2> QED BY <1>1, <2>2, <2>3
<1>4. Signed(t) \in Int
  BY <1>1 DEF Signed
<1>5. StatedCost(t) \in Int
  BY <1>1, <1>2 DEF StatedCost
<1> QED BY <1>3, <1>4, <1>5 DEF Moves

(* The event of a trade: its entries, and that it moves what the trade says *)
(* if that is what it cost.                                                *)
LEMMA CompatBooked ==
    ASSUME NEW t \in TradeRow
    PROVE  /\ Booked(CompatEvent(t))
           /\ OfTrade(CompatEvent(t)) <=> Upper(t.currency) = CNY
           /\ AtParity(t) /\ Upper(t.currency) = CNY =>
                \A code : Gained(CompatEvent(t), code) = Moves(t, code)
<1> DEFINE sign == IF t.direction = "BUY" THEN 1 ELSE -1
           cost == CostInCny(t)
           worth == t.quantity * t.price
           own == CashLeg(Upper(t.code), sign * t.quantity, cost, FALSE)
           other == IF Upper(t.currency) = CNY THEN CashLeg(CNY, -sign * cost, cost, TRUE)
                    ELSE CashLeg(Upper(t.currency), -sign * t.quantity * t.price, cost, FALSE)
           cash == IF sign = 1 THEN <<other, own>> ELSE <<own, other>>
           type == IF Upper(t.currency) # CNY THEN "FX_SWAP"
                   ELSE IF t.direction = "BUY" THEN "FX_BUY" ELSE "FX_SELL"
           event == CompatEvent(t)
<1>1. /\ t.quantity \in Int /\ t.price \in Int /\ cost \in Int /\ worth \in Int
      /\ sign \in {1, -1} /\ t.direction \in {"BUY", "SELL"} /\ t.rate \in Int \cup {None}
      /\ Signed(t) = sign * t.quantity /\ Signed(t) \in Int
  <2>1. t.quantity \in Int /\ t.price \in Int /\ t.direction \in {"BUY", "SELL"} /\ t.rate \in Int \cup {None}
    BY DEF TradeRow
  <2>2. t.quantity * t.price \in Int
    BY <2>1, ProductInt
  <2>3. Signed(t) \in Int /\ CostInCny(t) \in Int
    BY MovesInt
  <2>4. Signed(t) = sign * t.quantity
    <3>1. CASE t.direction = "BUY"
      BY <2>1, <3>1 DEF Signed
    <3>2. CASE t.direction # "BUY"
      BY <2>1, <3>2 DEF Signed
    <3> QED BY <3>1, <3>2
  <2> QED BY <2>1, <2>2, <2>3, <2>4
<1>2. Upper(t.code) \in STRING /\ Upper(t.currency) \in {CNY} \cup STRING
  BY UpperCaseAssumption DEF TradeRow, Upper
<1>3. own \in Legs /\ own = [currency |-> Upper(t.code), delta |-> Signed(t), rmb |-> cost, external |-> FALSE]
  <2>1. own = [currency |-> Upper(t.code), delta |-> Signed(t), rmb |-> cost, external |-> FALSE]
    BY <1>1 DEF CashLeg
  <2> HIDE DEF own, cost
  <2> QED BY <1>1, <1>2, <2>1 DEF Legs
<1>4. -sign * cost \in Int /\ -sign * t.quantity * t.price \in Int
  <2> HIDE DEF sign, cost
  <2>1. sign * t.quantity \in Int /\ sign * cost \in Int
    BY <1>1, ProductInt
  <2> DEFINE n == sign * t.quantity
  <2>2. n * t.price \in Int
    <3> HIDE DEF n
    <3> QED BY <1>1, <2>1, ProductInt DEF n
  <2> QED BY <2>1, <2>2
<1>5. other \in Legs
  <2> HIDE DEF sign, cost
  <2>1. CashLeg(CNY, -sign * cost, cost, TRUE) \in Legs
    BY <1>1, <1>4 DEF CashLeg, Legs
  <2>2. CashLeg(Upper(t.currency), -sign * t.quantity * t.price, cost, FALSE) \in Legs
    BY <1>1, <1>2, <1>4 DEF CashLeg, Legs
  <2> QED BY <2>1, <2>2
<1>6. event = [type |-> type, time |-> t.time, id |-> None, assets |-> <<>>, cash |-> cash]
  BY DEF CompatEvent
<1>7. cash \in Seq(Legs)
  <2> HIDE DEF own, other, sign
  <2> QED BY <1>3, <1>5
<1>8. Booked(event)
  <2> HIDE DEF cash, type, event
  <2>1. event.assets = <<>> /\ event.assets \in Seq(ToSet(event.assets))
    BY <1>6
  <2> QED BY <1>6, <1>7, <2>1 DEF Booked
<1>9. OfTrade(event) <=> Upper(t.currency) = CNY
  <2> HIDE DEF cash, event
  <2> QED BY <1>6 DEF OfTrade
<1>10. ASSUME AtParity(t), Upper(t.currency) = CNY, NEW code
       PROVE  Gained(event, code) = Moves(t, code)
  <2>1. cost = StatedCost(t)
    <3>1. CASE t.cost # None
      BY <3>1 DEF CostInCny, StatedCost
    <3>2. CASE t.cost = None
      <4> DEFINE rate == IF t.rate \in {None, 0} THEN 1 ELSE t.rate
      <4>1. rate = 1
        BY <1>10, <3>2 DEF AtParity
      <4>2. cost = worth * rate
        BY <3>2 DEF CostInCny
      <4>3. StatedCost(t) = worth
        BY <3>2 DEF StatedCost
      <4> HIDE DEF rate, worth, cost
      <4> QED BY <1>1, <4>1, <4>2, <4>3
    <3> QED BY <3>1, <3>2
  <2>2. other.currency = CNY /\ other.delta = -sign * cost
    BY <1>10 DEF CashLeg
  <2>3. own.currency = Upper(t.code) /\ own.delta = Signed(t)
    <3> HIDE DEF own, cost
    <3> QED BY <1>3
  <2>4. event.cash = <<other, own>> \/ event.cash = <<own, other>>
    <3> HIDE DEF own, other
    <3> QED BY <1>6
  <2> HIDE DEF own, other, event, cost, cash
  <2>5. Gained(event, code) = (IF own.currency = code THEN own.delta ELSE 0)
                                + (IF other.currency = code THEN other.delta ELSE 0)
    <3>1. own.delta \in Int /\ other.delta \in Int
      BY <1>3, <1>5 DEF Legs
    <3>2. CASE event.cash = <<other, own>>
      BY <1>3, <1>5, <3>1, <3>2, GainedOfTwo
    <3>3. CASE event.cash = <<own, other>>
      BY <1>3, <1>5, <3>1, <3>3, GainedOfTwo
    <3> QED BY <2>4, <3>2, <3>3
  <2>6. Moves(t, code) = (IF Upper(t.code) = code THEN Signed(t) ELSE 0)
                           + (IF code # CNY THEN 0 ELSE IF t.direction = "BUY" THEN -cost ELSE cost)
    BY <2>1 DEF Moves
  <2>7. other.delta = IF t.direction = "BUY" THEN -cost ELSE cost
    BY <1>1, <2>2
  <2> QED BY <1>1, <2>2, <2>3, <2>5, <2>6, <2>7
<1> HIDE DEF event
<1> QED BY <1>8, <1>9, <1>10 DEF event
-----------------------------------------------------------------------------
(* What the rows of trades add up to.                                      *)

Brings(L, code) == [e \in DOMAIN L |-> IF OfTrade(L[e]) THEN Gained(L[e], code) ELSE 0]

Takes(T, code) == [i \in DOMAIN T |-> IF OfForex(T[i]) THEN Moves(T[i], code) ELSE 0]

Brought(L, code) == SumFunctionOnSet(Brings(L, code), DOMAIN L)

Taken(T, code) == SumFunctionOnSet(Takes(T, code), DOMAIN T)

(* The sum over the rows of a kind, with zero for the others. *)
LEMMA PartSum ==
    ASSUME NEW f, NEW g, NEW S, IsFiniteSet(S), NEW P \in SUBSET S, \A x \in S : f[x] \in Int,
           \A x \in P : g[x] = f[x], \A x \in S : x \notin P => f[x] = 0
    PROVE  SumFunctionOnSet(g, P) = SumFunctionOnSet(f, S)
<1>1. IsFiniteSet(P)
  BY FS_Subset
<1>2. SumFunctionOnSet(g, P) = SumFunctionOnSet(f, P)
  BY <1>1, SumSame
<1>3. SumFunctionOnSet(f, S) = SumFunctionOnSet(f, P)
  BY SumSupport
<1> QED BY <1>2, <1>3

(* One more row. *)
LEMMA SumInserted ==
    ASSUME NEW f, NEW g, NEW S, IsFiniteSet(S), NEW y, y \notin S, g[y] \in Int,
           \A x \in S : f[x] \in Int /\ g[x] = f[x]
    PROVE  SumFunctionOnSet(g, S \cup {y}) = SumFunctionOnSet(f, S) + g[y]
<1>1. SumFunctionOnSet(f, S) = SumFunctionOnSet(g, S)
  BY SumSame
<1>2. \A x \in S \cup {y} : g[x] \in Int
  OBVIOUS
<1>3. SumFunctionOnSet(g, S \cup {y}) = SumFunctionOnSet(g, S) + g[y]
  BY <1>2, SumAdd
<1> QED BY <1>1, <1>3

(* The events' sums are numbers. *)
LEMMA BroughtInt ==
    ASSUME NEW L, CashBooks(L), NEW code
    PROVE  /\ IsFiniteSet(DOMAIN L) /\ \A e \in DOMAIN L : Brings(L, code)[e] \in Int
           /\ Brought(L, code) \in Int
<1>1. IsFiniteSet(DOMAIN L) /\ \A e \in DOMAIN L : Booked(L[e])
  BY DEF CashBooks, IsTable
<1>2. \A e \in DOMAIN L : Brings(L, code)[e] \in Int
  BY <1>1, GainedInt DEF Brings
<1>3. SumFunctionOnSet(Brings(L, code), DOMAIN L) \in Int
  BY <1>1, <1>2, SumInt
<1> QED BY <1>1, <1>2, <1>3 DEF Brought

(* The transactions' sums are numbers. *)
LEMMA TakenInt ==
    ASSUME NEW T, IsTable(T, TradeRow), NEW code
    PROVE  /\ IsFiniteSet(DOMAIN T) /\ \A i \in DOMAIN T : Takes(T, code)[i] \in Int
           /\ Taken(T, code) \in Int
<1>1. IsFiniteSet(DOMAIN T) /\ \A i \in DOMAIN T : T[i] \in TradeRow
  BY DEF IsTable
<1>2. \A i \in DOMAIN T : Takes(T, code)[i] \in Int
  BY <1>1, MovesInt DEF Takes
<1>3. SumFunctionOnSet(Takes(T, code), DOMAIN T) \in Int
  BY <1>1, <1>2, SumInt
<1> QED BY <1>1, <1>2, <1>3 DEF Taken

(* Drift is the difference of the two. *)
LEMMA DriftNames ==
    ASSUME NEW T, IsTable(T, TradeRow), NEW L, CashBooks(L), NEW code
    PROVE  Drift(T, L, code) = Brought(L, code) - Taken(T, code)
<1> DEFINE E == {e \in DOMAIN L : OfTrade(L[e])}
           I == {i \in DOMAIN T : OfForex(T[i])}
           f == [e \in E |-> Gained(L[e], code)]
           g == [i \in I |-> Moves(T[i], code)]
<1>1. Drift(T, L, code) = SumFunctionOnSet(f, E) - SumFunctionOnSet(g, I)
  BY DEF Drift, Total, Where, OfTrade, OfForex
<1>2. SumFunctionOnSet(f, E) = Brought(L, code)
  <2>1. /\ \A e \in E : f[e] = Brings(L, code)[e]
        /\ \A e \in DOMAIN L : e \notin E => Brings(L, code)[e] = 0
        /\ E \in SUBSET DOMAIN L
    BY DEF Brings
  <2>2. IsFiniteSet(DOMAIN L) /\ \A e \in DOMAIN L : Brings(L, code)[e] \in Int
    BY BroughtInt
  <2> HIDE DEF E, f
  <2>3. SumFunctionOnSet(f, E) = SumFunctionOnSet(Brings(L, code), DOMAIN L)
    BY <2>1, <2>2, PartSum
  <2> QED BY <2>3 DEF Brought
<1>3. SumFunctionOnSet(g, I) = Taken(T, code)
  <2>1. /\ \A i \in I : g[i] = Takes(T, code)[i]
        /\ \A i \in DOMAIN T : i \notin I => Takes(T, code)[i] = 0
        /\ I \in SUBSET DOMAIN T
    BY DEF Takes
  <2>2. IsFiniteSet(DOMAIN T) /\ \A i \in DOMAIN T : Takes(T, code)[i] \in Int
    BY TakenInt
  <2> HIDE DEF I, g
  <2>3. SumFunctionOnSet(g, I) = SumFunctionOnSet(Takes(T, code), DOMAIN T)
    BY <2>1, <2>2, PartSum
  <2> QED BY <2>3 DEF Taken
<1> HIDE DEF E, I, f, g
<1> QED BY <1>1, <1>2, <1>3

(* A table's rows are of the set of its rows, and of any set that has them. *)
LEMMA RowsTyped ==
    ASSUME NEW T, NEW R, IsTable(T, R)
    PROVE  /\ IsTable(T, {T[i] : i \in DOMAIN T})
           /\ \A S : (\A i \in DOMAIN T : T[i] \in S) => IsTable(T, S)
  BY DEF IsTable

(* A new event. *)
LEMMA EventInserted ==
    ASSUME NEW L, CashBooks(L), NEW event, Booked(event)
    PROVE  /\ CashBooks(Insert(L, event))
           /\ \A code : Brought(Insert(L, event), code)
                          = Brought(L, code) + (IF OfTrade(event) THEN Gained(event, code) ELSE 0)
<1> DEFINE M == Insert(L, event)
           n == NextId(L)
           R == {L[e] : e \in DOMAIN L} \cup {event}
<1>1. IsTable(L, R)
  <2>1. \A e \in DOMAIN L : L[e] \in R
    OBVIOUS
  <2> HIDE DEF R
  <2> QED BY <2>1, RowsTyped DEF CashBooks
<1>2. /\ DOMAIN M = DOMAIN L \cup {n} /\ n \notin DOMAIN L
      /\ M[n] = event /\ \A e \in DOMAIN L : M[e] = L[e]
  <2>1. n \notin DOMAIN L
    <3> HIDE DEF R
    <3> QED BY <1>1, FreshKey
  <2>2. /\ DOMAIN Insert(L, event) = DOMAIN L \cup {NextId(L)}
        /\ Insert(L, event)[NextId(L)] = event
        /\ \A e \in DOMAIN L : Insert(L, event)[e] = L[e]
    <3> HIDE DEF M, n, R
    <3> QED BY <1>1, InsertRow
  <2> QED BY <2>1, <2>2
<1>3. IsTable(M, R)
  <2>1. event \in R
    OBVIOUS
  <2> HIDE DEF R
  <2> QED BY <1>1, <2>1, InsertTyped
<1> HIDE DEF M, n, R
<1>4. CashBooks(M)
  <2>1. IsTable(M, {M[e] : e \in DOMAIN M})
    BY <1>3, RowsTyped
  <2>2. \A e \in DOMAIN M : Booked(M[e])
    BY <1>2 DEF CashBooks
  <2> QED BY <2>1, <2>2 DEF CashBooks
<1>5. ASSUME NEW code
      PROVE  Brought(M, code) = Brought(L, code) + (IF OfTrade(event) THEN Gained(event, code) ELSE 0)
  <2>1. /\ \A e \in DOMAIN L : Brings(M, code)[e] = Brings(L, code)[e]
        /\ Brings(M, code)[n] = IF OfTrade(event) THEN Gained(event, code) ELSE 0
    BY <1>2 DEF Brings
  <2>2. IsFiniteSet(DOMAIN L) /\ \A e \in DOMAIN L : Brings(L, code)[e] \in Int
    BY BroughtInt
  <2>3. Brings(M, code)[n] \in Int
    BY <1>2, <1>4, BroughtInt
  <2>4. SumFunctionOnSet(Brings(M, code), DOMAIN L \cup {n})
          = SumFunctionOnSet(Brings(L, code), DOMAIN L) + Brings(M, code)[n]
    BY <1>2, <2>1, <2>2, <2>3, SumInserted
  <2> QED BY <1>2, <2>1, <2>4 DEF Brought
<1> QED BY <1>4, <1>5 DEF M

(* A new transaction. *)
LEMMA RowInserted ==
    ASSUME NEW T, IsTable(T, TradeRow), NEW t \in TradeRow, NEW code
    PROVE  Taken(Insert(T, t), code)
             = Taken(T, code) + (IF OfForex(t) THEN Moves(t, code) ELSE 0)
<1> DEFINE U == Insert(T, t)
           n == NextId(T)
<1>1. /\ DOMAIN U = DOMAIN T \cup {n} /\ n \notin DOMAIN T
      /\ U[n] = t /\ \A i \in DOMAIN T : U[i] = T[i]
  <2>1. n \notin DOMAIN T
    BY FreshKey
  <2>2. /\ DOMAIN Insert(T, t) = DOMAIN T \cup {NextId(T)}
        /\ Insert(T, t)[NextId(T)] = t
        /\ \A i \in DOMAIN T : Insert(T, t)[i] = T[i]
    <3> HIDE DEF U, n
    <3> QED BY InsertRow
  <2> QED BY <2>1, <2>2
<1>2. IsTable(U, TradeRow)
  BY InsertTyped
<1> HIDE DEF U, n
<1>3. /\ \A i \in DOMAIN T : Takes(U, code)[i] = Takes(T, code)[i]
      /\ Takes(U, code)[n] = IF OfForex(t) THEN Moves(t, code) ELSE 0
  BY <1>1 DEF Takes
<1>4. IsFiniteSet(DOMAIN T) /\ \A i \in DOMAIN T : Takes(T, code)[i] \in Int
  BY TakenInt
<1>5. Takes(U, code)[n] \in Int
  BY <1>1, <1>2, TakenInt
<1>6. SumFunctionOnSet(Takes(U, code), DOMAIN T \cup {n})
        = SumFunctionOnSet(Takes(T, code), DOMAIN T) + Takes(U, code)[n]
  BY <1>1, <1>3, <1>4, <1>5, SumInserted
<1>7. Taken(U, code) = Taken(T, code) + (IF OfForex(t) THEN Moves(t, code) ELSE 0)
  BY <1>1, <1>3, <1>6 DEF Taken
<1> QED BY <1>7 DEF U

(* Rows with the same types and cash entries. *)
Alike(L, M) ==
    /\ CashBooks(M) /\ DOMAIN M = DOMAIN L
    /\ \A e \in DOMAIN L : M[e].type = L[e].type /\ M[e].cash = L[e].cash

(* They bring in the same. *)
LEMMA AlikeBrings ==
    ASSUME NEW L, CashBooks(L), NEW M, Alike(L, M), NEW code
    PROVE  Brought(M, code) = Brought(L, code)
<1>1. DOMAIN M = DOMAIN L /\ IsFiniteSet(DOMAIN L)
  BY BroughtInt DEF Alike
<1>2. \A e \in DOMAIN L : Brings(M, code)[e] = Brings(L, code)[e]
  BY <1>1 DEF Alike, Brings, OfTrade, Gained
<1>3. SumFunctionOnSet(Brings(M, code), DOMAIN L) = SumFunctionOnSet(Brings(L, code), DOMAIN L)
  BY <1>1, <1>2, SumSame
<1> QED BY <1>1, <1>3 DEF Brought

LEMMA AlikeAgain ==
    ASSUME NEW L, NEW M, NEW N, Alike(L, M), Alike(M, N)
    PROVE  Alike(L, N)
  BY DEF Alike

LEMMA AlikeItself == \A L : CashBooks(L) => Alike(L, L)
  BY DEF Alike

(* Rewriting rows in place. *)
LEMMA Rewritten ==
    ASSUME NEW L, CashBooks(L), NEW M, M = [e \in DOMAIN L |-> M[e]],
           \A e \in DOMAIN L : Booked(M[e]) /\ M[e].type = L[e].type /\ M[e].cash = L[e].cash
    PROVE  Alike(L, M)
<1>1. IsFiniteSet(DOMAIN L) /\ DOMAIN L \subseteq Nat \ {0}
  BY DEF CashBooks, IsTable
<1>2. DOMAIN M = DOMAIN L
  OBVIOUS
<1>3. IsTable(M, {M[e] : e \in DOMAIN M})
  <2>1. M \in [DOMAIN M -> {M[e] : e \in DOMAIN M}]
    BY <1>2
  <2> QED BY <1>1, <1>2, <2>1 DEF IsTable
<1> QED BY <1>2, <1>3 DEF Alike, CashBooks

(* A list of as many entries. *)
AsLong(list, A) == A = [n \in DOMAIN list |-> A[n]]

LEMMA Listed ==
    ASSUME NEW list, list \in Seq(ToSet(list)), NEW A, AsLong(list, A)
    PROVE  A \in Seq(ToSet(A))
<1>1. DOMAIN list = 1 .. Len(list) /\ Len(list) \in Nat
  OBVIOUS
<1>2. DOMAIN A = 1 .. Len(list) /\ A = [n \in 1 .. Len(list) |-> A[n]]
  BY <1>1 DEF AsLong
<1>3. \A n \in 1 .. Len(list) : A[n] \in ToSet(A)
  BY <1>2 DEF ToSet
<1> QED BY <1>1, <1>2, <1>3

(* An event with other asset entries. *)
LEMMA EntriesRewritten ==
    ASSUME NEW event, Booked(event), NEW A, A \in Seq(ToSet(A))
    PROVE  /\ Booked([event EXCEPT !.assets = A])
           /\ [event EXCEPT !.assets = A].type = event.type
           /\ [event EXCEPT !.assets = A].cash = event.cash
<1> DEFINE next == [event EXCEPT !.assets = A]
<1>1. event \in [type : {event.type}, time : {event.time}, id : {event.id},
                 cash : Seq(Legs), assets : {event.assets}]
  BY DEF Booked
<1>2. next \in [type : {event.type}, time : {event.time}, id : {event.id},
                cash : {event.cash}, assets : {A}]
  BY <1>1
<1>3. event.cash \in Seq(Legs)
  BY <1>1
<1> HIDE DEF next
<1>4. /\ next.type = event.type /\ next.time = event.time /\ next.id = event.id
      /\ next.cash = event.cash /\ next.assets = A
  BY <1>2
<1>5. next \in [type : {next.type}, time : {next.time}, id : {next.id},
                cash : Seq(Legs), assets : {next.assets}]
  BY <1>2, <1>3, <1>4
<1> QED BY <1>4, <1>5 DEF Booked, next

(* One event of the ledger with other asset entries. *)
LEMMA OneRewritten ==
    ASSUME NEW L, CashBooks(L), NEW e, NEW A, e \in DOMAIN L => A \in Seq(ToSet(A))
    PROVE  Alike(L, [L EXCEPT ![e].assets = A])
<1> DEFINE M == [L EXCEPT ![e].assets = A]
<1>1. L = [d \in DOMAIN L |-> L[d]] /\ \A d \in DOMAIN L : Booked(L[d])
  BY DEF CashBooks, IsTable
<1>2. M = [d \in DOMAIN L |-> M[d]]
  OBVIOUS
<1>3. ASSUME NEW d \in DOMAIN L
      PROVE  M[d] = L[d] \/ (M[d] = [L[d] EXCEPT !.assets = A] /\ A \in Seq(ToSet(A)))
  OBVIOUS
<1> HIDE DEF M
<1>4. ASSUME NEW d \in DOMAIN L
      PROVE  Booked(M[d]) /\ M[d].type = L[d].type /\ M[d].cash = L[d].cash
  <2>1. Booked(L[d])
    BY <1>1
  <2>2. CASE M[d] = L[d]
    BY <2>1, <2>2
  <2>3. CASE M[d] = [L[d] EXCEPT !.assets = A] /\ A \in Seq(ToSet(A))
    <3> DEFINE event == L[d]
    <3>1. Booked(event)
      BY <2>1
    <3> HIDE DEF event
    <3>2. /\ Booked([event EXCEPT !.assets = A])
          /\ [event EXCEPT !.assets = A].type = event.type
          /\ [event EXCEPT !.assets = A].cash = event.cash
      BY <2>3, <3>1, EntriesRewritten
    <3> QED BY <2>3, <3>2 DEF event
  <2> QED BY <1>3, <2>2, <2>3
<1>5. Alike(L, M)
  BY <1>2, <1>4, Rewritten
<1> QED BY <1>5 DEF M

(* A patch of a redemption's quantity. *)
LEMMA PatchedAlike ==
    ASSUME NEW L, CashBooks(L), NEW e, NEW event
    PROVE  Alike(L, Patched(L, e, event))
<1> DEFINE Given(x) == {y \in ToSet(event.assets) : y.explicit /\ Matches(x, y.product.code, y.amount)}
           Patch(x) == IF Given(x) = {} THEN x
                       ELSE [x EXCEPT !.quantity = (CHOOSE y \in Given(x) : TRUE).quantity]
           A == [n \in DOMAIN L[e].assets |-> Patch(L[e].assets[n])]
<1>1. Patched(L, e, event) = [L EXCEPT ![e].assets = A]
  BY DEF Patched, Map
<1>2. AsLong(L[e].assets, A)
  BY DEF AsLong
<1> HIDE DEF A
<1>3. ASSUME e \in DOMAIN L PROVE A \in Seq(ToSet(A))
  <2> DEFINE list == L[e].assets
  <2>1. list \in Seq(ToSet(list)) /\ AsLong(list, A)
    BY <1>2, <1>3 DEF CashBooks, Booked
  <2> HIDE DEF list
  <2> QED BY <2>1, Listed
<1>4. Alike(L, [L EXCEPT ![e].assets = A])
  BY <1>3, OneRewritten
<1> QED BY <1>1, <1>4

TakeOn(keep, q, r, L, y) ==
    IF -y.quantity = y.amount \/ y.quantity = y.amount THEN L
    ELSE [L EXCEPT ![keep].assets = Map(@, LAMBDA x :
            IF Matches(x, products[y.asset].code, y.amount)
            THEN [x EXCEPT !.quantity = y.quantity] ELSE x)]

Taking == INSTANCE FoldTheorems WITH Op <- TakeOn

(* What a duplicate knows is taken over. *)
LEMMA TakenOverAlike ==
    ASSUME NEW L, CashBooks(L), NEW keep, NEW e \in DOMAIN L
    PROVE  Alike(L, TakeOver(L, keep, e))
<1> DEFINE list == L[e].assets
           S == ToSet(list)
           N == Len(list)
<1>1. list \in Seq(S)
  BY DEF CashBooks, Booked
<1>2. TakeOver(L, keep, e) = Taking!Folded(keep, keep, keep, L, list)
  BY DEF TakeOver, TakeOn, Taking!Folded, Taking!FoldLeft, Taking!MapThenFoldSet,
         FoldLeft, MapThenFoldSet, Taking!Max, Max
<1>3. ASSUME NEW M, Alike(L, M), NEW y PROVE Alike(L, TakeOn(keep, keep, keep, M, y))
  <2> DEFINE Take(x) == IF Matches(x, products[y.asset].code, y.amount)
                        THEN [x EXCEPT !.quantity = y.quantity] ELSE x
             A == [n \in DOMAIN M[keep].assets |-> Take(M[keep].assets[n])]
  <2>1. \/ TakeOn(keep, keep, keep, M, y) = M
        \/ TakeOn(keep, keep, keep, M, y) = [M EXCEPT ![keep].assets = A]
    BY DEF TakeOn, Map
  <2>2. AsLong(M[keep].assets, A)
    BY DEF AsLong
  <2>3. CashBooks(M)
    BY <1>3 DEF Alike
  <2> HIDE DEF A
  <2>4. keep \in DOMAIN M => A \in Seq(ToSet(A))
    BY <2>2, <2>3, Listed DEF CashBooks, Booked
  <2>5. Alike(M, [M EXCEPT ![keep].assets = A])
    BY <2>3, <2>4, OneRewritten
  <2> QED BY <1>3, <2>1, <2>5, AlikeAgain
<1> HIDE DEF list, S
<1>4. PICK V : /\ V[0] = L /\ V[Len(list)] = Taking!Folded(keep, keep, keep, L, list)
               /\ \A n \in 1 .. Len(list) : V[n] = TakeOn(keep, keep, keep, V[n - 1], list[n])
  BY <1>1, Taking!Turns
<1> DEFINE Turn(n) == {M \in {V[n]} : Alike(L, M)}
           X == [n \in 0 .. N |-> Turn(n)]
<1>5. N \in Nat
  BY <1>1
<1>6. ASSUME NEW n \in 1 .. N, NEW M \in Turn(n - 1)
      PROVE  TakeOn(keep, keep, keep, M, list[n]) \in Turn(n)
  <2>1. M = V[n - 1] /\ Alike(L, M)
    BY <1>6
  <2>2. TakeOn(keep, keep, keep, M, list[n]) = V[n]
    BY <1>4, <2>1
  <2> QED BY <1>3, <2>1, <2>2
<1>7. L \in X[0]
  BY <1>4, <1>5, AlikeItself
<1>8. \A n \in 1 .. N : \A M \in X[n - 1] : TakeOn(keep, keep, keep, M, list[n]) \in X[n]
  <2> HIDE DEF Turn
  <2>1. \A n \in 1 .. N : X[n - 1] = Turn(n - 1) /\ X[n] = Turn(n)
    BY <1>5
  <2> QED BY <1>6, <2>1
<1>9. Taking!Folded(keep, keep, keep, L, list) \in X[Len(list)]
  <2> HIDE DEF X
  <2> QED BY <1>1, <1>7, <1>8, Taking!Advances DEF N
<1>10. X[Len(list)] = Turn(Len(list))
  BY <1>5
<1> QED BY <1>2, <1>9, <1>10
-----------------------------------------------------------------------------
(* From T and L to U and M the ledger moved as the transactions did.       *)
ParitySince(T, U) == \A i \in DOMAIN U \ DOMAIN T : AtParity(U[i])

KeepsUp(T, L, U, M) ==
    ParitySince(T, U) => \A code : Drift(U, M, code) = Drift(T, L, code)

(* The events that come with a transaction. *)
WithEvent(M, t) == IF t.type = "FOREX" THEN Insert(M, CompatEvent(t)) ELSE M

(* A transaction and its event. *)
LEMMA InsertKeepsUp ==
    ASSUME NEW T, NEW L, NEW U, IsTable(U, TradeRow), NEW M, CashBooks(M), NEW t \in TradeRow,
           DOMAIN T \subseteq DOMAIN U, KeepsUp(T, L, U, M)
    PROVE  /\ CashBooks(WithEvent(M, t))
           /\ KeepsUp(T, L, Insert(U, t), WithEvent(M, t))
<1> DEFINE V == Insert(U, t)
           N == WithEvent(M, t)
           event == CompatEvent(t)
<1>1. /\ Booked(event)
      /\ OfTrade(event) <=> Upper(t.currency) = CNY
      /\ AtParity(t) /\ Upper(t.currency) = CNY => \A code : Gained(event, code) = Moves(t, code)
  BY CompatBooked
<1>2. IsTable(V, TradeRow)
  BY InsertTyped
<1> HIDE DEF event
<1>3. /\ CashBooks(N)
      /\ \A code : Brought(N, code) = Brought(M, code)
                     + (IF t.type = "FOREX" /\ OfTrade(event) THEN Gained(event, code) ELSE 0)
  <2>1. CASE t.type = "FOREX"
    <3>1. N = Insert(M, event)
      BY <2>1 DEF WithEvent, event
    <3> HIDE DEF N
    <3>2. CashBooks(Insert(M, event)) /\ \A code : Brought(Insert(M, event), code) = Brought(M, code)
                                          + (IF OfTrade(event) THEN Gained(event, code) ELSE 0)
      BY <1>1, EventInserted
    <3> QED BY <2>1, <3>1, <3>2
  <2>2. CASE t.type # "FOREX"
    <3>1. N = M /\ \A code : Brought(M, code) \in Int
      BY <2>2, BroughtInt DEF WithEvent
    <3> HIDE DEF N
    <3> QED BY <2>2, <3>1
  <2> QED BY <2>1, <2>2
<1>4. ASSUME ParitySince(T, V) PROVE ParitySince(T, U) /\ AtParity(t)
  <2>1. /\ DOMAIN Insert(U, t) = DOMAIN U \cup {NextId(U)}
        /\ Insert(U, t)[NextId(U)] = t
        /\ \A i \in DOMAIN U : Insert(U, t)[i] = U[i]
    BY InsertRow
  <2>2. NextId(U) \notin DOMAIN U
    BY FreshKey
  <2> QED BY <1>4, <2>1, <2>2 DEF ParitySince
<1>5. ASSUME ParitySince(T, V), NEW code PROVE Drift(V, N, code) = Drift(T, L, code)
  <2>1. Drift(U, M, code) = Drift(T, L, code) /\ AtParity(t)
    BY <1>4, <1>5 DEF KeepsUp
  <2>2. Drift(U, M, code) = Brought(M, code) - Taken(U, code)
    BY DriftNames
  <2>3. Drift(V, N, code) = Brought(N, code) - Taken(V, code)
    <3> HIDE DEF V, N
    <3> QED BY <1>2, <1>3, DriftNames
  <2>4. Taken(V, code) = Taken(U, code) + (IF OfForex(t) THEN Moves(t, code) ELSE 0)
    BY RowInserted
  <2>5. OfForex(t) <=> t.type = "FOREX" /\ OfTrade(event)
    BY <1>1 DEF OfForex
  <2>6. OfForex(t) => Gained(event, code) = Moves(t, code)
    BY <1>1, <2>1 DEF OfForex
  <2>7. Brought(M, code) \in Int /\ Taken(U, code) \in Int /\ Moves(t, code) \in Int
    BY BroughtInt, TakenInt, MovesInt
  <2> HIDE DEF V, N
  <2> QED BY <1>3, <2>1, <2>2, <2>3, <2>4, <2>5, <2>6, <2>7
<1> QED BY <1>3, <1>5 DEF KeepsUp
-----------------------------------------------------------------------------
(* create_transactions.                                                    *)

CreateOn(p, q, r, run, t) ==
    IF ~run.ok \/ ~ValidTrade(run.transactions, t) THEN [run EXCEPT !.ok = FALSE]
    ELSE [run EXCEPT !.transactions = Insert(@, t),
                     !.ledger = IF t.type = "FOREX" THEN Insert(@, CompatEvent(t)) ELSE @]

Creating == INSTANCE FoldTheorems WITH Op <- CreateOn

(* What the loop has made of the transactions T and the events L. *)
Creates(T, L, run) ==
    /\ run \in [ok : BOOLEAN, transactions : {run.transactions}, ledger : {run.ledger}]
    /\ IsTable(run.transactions, TradeRow) /\ CashBooks(run.ledger)
    /\ DOMAIN T \subseteq DOMAIN run.transactions
    /\ Covers(T, run.transactions)
    /\ KeepsUp(T, L, run.transactions, run.ledger)

(* One turn of it. *)
LEMMA CreateTurn ==
    ASSUME NEW T, NEW L, NEW run, Creates(T, L, run), NEW t, t.quantity > 0 => t \in TradeRow
    PROVE  Creates(T, L, CreateOn(T, L, T, run, t))
<1> DEFINE next == CreateOn(T, L, T, run, t)
<1>1. /\ run \in [ok : BOOLEAN, transactions : {run.transactions}, ledger : {run.ledger}]
      /\ IsTable(run.transactions, TradeRow) /\ CashBooks(run.ledger)
      /\ DOMAIN T \subseteq DOMAIN run.transactions
      /\ Covers(T, run.transactions)
      /\ KeepsUp(T, L, run.transactions, run.ledger)
  BY DEF Creates
<1>2. CASE ~run.ok \/ ~ValidTrade(run.transactions, t)
  <2>1. next = [run EXCEPT !.ok = FALSE]
    BY <1>2 DEF CreateOn
  <2>2. /\ next.transactions = run.transactions /\ next.ledger = run.ledger
        /\ next \in [ok : BOOLEAN, transactions : {run.transactions}, ledger : {run.ledger}]
    BY <1>1, <2>1
  <2> HIDE DEF next
  <2>3. Creates(T, L, next)
    BY <1>1, <2>2 DEF Creates
  <2> QED BY <2>3 DEF next
<1>3. CASE run.ok /\ ValidTrade(run.transactions, t)
  <2> DEFINE U == Insert(run.transactions, t)
             M == WithEvent(run.ledger, t)
  <2>1. t \in TradeRow
    BY <1>3 DEF ValidTrade
  <2>2. IsTable(U, TradeRow) /\ DOMAIN T \subseteq DOMAIN U
    <3>1. DOMAIN U = DOMAIN run.transactions \cup {NextId(run.transactions)}
      BY <1>1, InsertRow
    <3> QED BY <1>1, <2>1, <3>1, InsertTyped
  <2>3. Covers(T, U)
    <3>1. Covers(run.transactions, U)
      BY <1>1, <1>3, <2>1, ValidCovers
    <3> QED BY <1>1, <3>1, CoversAgain
  <2>4. CashBooks(M) /\ KeepsUp(T, L, U, M)
    BY <1>1, <2>1, InsertKeepsUp
  <2>5. next \in [ok : BOOLEAN, transactions : {U}, ledger : {M}]
    BY <1>1, <1>3 DEF CreateOn, WithEvent
  <2> HIDE DEF U, M, next
  <2>6. next.transactions = U /\ next.ledger = M
    BY <2>5
  <2> QED BY <2>2, <2>3, <2>4, <2>5, <2>6 DEF Creates, next
<1> QED BY <1>2, <1>3

(* However many rows the batch has, and however far it gets. *)
LEMMA CreatedRows ==
    ASSUME NEW T, IsTable(T, TradeRow), NEW L, CashBooks(L), NEW B, NEW batch \in Seq(B),
           \A t \in B : t.quantity > 0 => t \in TradeRow
    PROVE  Creates(T, L, CreateTransactions(T, L, batch))
<1> DEFINE base == [ok |-> TRUE, transactions |-> T, ledger |-> L]
           N == Len(batch)
<1>1. CreateTransactions(T, L, batch) = Creating!Folded(T, L, T, base, batch)
  BY DEF CreateTransactions, CreateOn, Creating!Folded, Creating!FoldLeft,
         Creating!MapThenFoldSet, FoldLeft, MapThenFoldSet, Creating!Max, Max
<1>2. Creates(T, L, base)
  BY DEF Creates, Covers, KeepsUp
<1> HIDE DEF base
<1>3. PICK V : /\ V[0] = base /\ V[Len(batch)] = Creating!Folded(T, L, T, base, batch)
               /\ \A n \in 1 .. Len(batch) : V[n] = CreateOn(T, L, T, V[n - 1], batch[n])
  BY Creating!Turns
<1> DEFINE After(n) == {run \in {V[n]} : Creates(T, L, run)}
           X == [n \in 0 .. N |-> After(n)]
<1>4. N \in Nat /\ \A n \in 1 .. N : batch[n] \in B
  OBVIOUS
<1>5. ASSUME NEW n \in 1 .. N, NEW run \in After(n - 1)
      PROVE  CreateOn(T, L, T, run, batch[n]) \in After(n)
  <2>1. run = V[n - 1] /\ Creates(T, L, run) /\ batch[n] \in B
    BY <1>4, <1>5
  <2>2. Creates(T, L, CreateOn(T, L, T, run, batch[n]))
    <3>1. batch[n].quantity > 0 => batch[n] \in TradeRow
      BY <2>1
    <3> QED BY <2>1, <3>1, CreateTurn
  <2>3. CreateOn(T, L, T, run, batch[n]) = V[n]
    BY <1>3, <2>1
  <2> QED BY <2>2, <2>3
<1>6. base \in X[0]
  BY <1>2, <1>3, <1>4
<1>7. \A n \in 1 .. N : \A run \in X[n - 1] : CreateOn(T, L, T, run, batch[n]) \in X[n]
  <2> HIDE DEF After
  <2>1. \A n \in 1 .. N : X[n - 1] = After(n - 1) /\ X[n] = After(n)
    BY <1>4
  <2> QED BY <1>5, <2>1
<1>8. Creating!Folded(T, L, T, base, batch) \in X[Len(batch)]
  <2> HIDE DEF X
  <2> QED BY <1>6, <1>7, Creating!Advances DEF N
<1>9. X[Len(batch)] = After(Len(batch))
  BY <1>4
<1> QED BY <1>1, <1>8, <1>9
-----------------------------------------------------------------------------
(* The rows of a workbook.                                                 *)

(* What a row of the sheet becomes: nothing, an event, or a transaction.   *)
Usable(built) ==
    \/ built.kind = "failed"
    \/ /\ built.kind = "event" /\ built.body.time \in Nat
       /\ Booked(built.body) /\ ~OfTrade(built.body)
    \/ /\ built.kind = "transaction" /\ built.body.time \in Nat
       /\ built.body.quantity > 0 => built.body \in TradeRow

(* A cash entry of a row. *)
LEMMA LegTyped == \A code \in {CNY} \cup STRING, n \in Int : Leg(code, n) \in Legs
  BY DEF Leg, CashLeg, Legs

(* Short lists. *)
LEMMA ShortLists ==
    /\ <<>> \in Seq(ToSet(<<>>)) /\ \A x : <<x>> \in Seq(ToSet(<<x>>))
    /\ \A x \in Legs : <<x>> \in Seq(Legs)
    /\ \A x, y \in Legs : <<x, y>> \in Seq(Legs)
  BY DEF ToSet

(* A row that becomes an event has its date and its amounts. *)
LEMMA EventUsable ==
    ASSUME NEW row, row.time \in Nat, NEW type, type \notin {"FX_BUY", "FX_SELL"},
           NEW cash \in Seq(Legs), NEW assets, assets \in Seq(ToSet(assets))
    PROVE  Usable(EventRow(row, type, cash, assets))
<1> DEFINE body == [type |-> type, time |-> row.time, id |-> row.id, cash |-> cash, assets |-> assets]
<1>1. /\ EventRow(row, type, cash, assets).kind = "event"
      /\ EventRow(row, type, cash, assets).body = body
  BY DEF EventRow
<1>2. body.type = type /\ body.time = row.time /\ body.assets = assets
  OBVIOUS
<1>3. body \in [type : {body.type}, time : {body.time}, id : {body.id},
                cash : Seq(Legs), assets : {body.assets}]
  OBVIOUS
<1> HIDE DEF body
<1>4. Booked(body) /\ ~OfTrade(body) /\ body.time \in Nat
  BY <1>2, <1>3 DEF Booked, OfTrade
<1> QED BY <1>1, <1>4 DEF Usable

(* A row that fails is skipped. *)
LEMMA FailedUsable == Usable(Failed)
  BY DEF Usable, Failed

(* A foreign-exchange row. *)
LEMMA ForexUsable ==
    ASSUME NEW row \in SheetRow, row.time \in Nat
    PROVE  Usable(ForexRow(row))
<1> DEFINE buying == row.buy \notin {None, CNY}
           code == IF buying THEN row.buy ELSE row.sell
           own == IF buying THEN row.bought ELSE row.sold
           against == IF buying THEN row.sell ELSE row.buy
           paid == IF buying THEN row.sold ELSE row.bought
           body == [type |-> "FOREX", code |-> code, quantity |-> own,
                    direction |-> IF buying THEN "BUY" ELSE "SELL",
                    price |-> paid \div own, currency |-> CNY, rate |-> 1,
                    cost |-> paid, time |-> row.time]
           wrong == code \in {None, CNY} \/ ~Amount(own) \/ against = None \/ paid = None
<1>1. ForexRow(row) = IF wrong THEN Failed
                      ELSE IF against = CNY THEN TransactionRow(body)
                      ELSE EventRow(row, "FX_SWAP", <<Leg(against, -paid), Leg(code, own)>>, <<>>)
  BY DEF ForexRow
<1>2. CASE wrong
  BY <1>1, <1>2, FailedUsable
<1>3. CASE ~wrong /\ against # CNY
  <2>1. code \in STRING /\ own \in Int /\ paid \in Int /\ against \in STRING
    BY <1>3 DEF SheetRow, Normalized, Amount
  <2> DEFINE cash == <<Leg(against, -paid), Leg(code, own)>>
  <2> HIDE DEF wrong, against, paid, code, own, body
  <2>2. Leg(against, -paid) \in Legs /\ Leg(code, own) \in Legs
    BY <2>1, LegTyped
  <2>3. cash \in Seq(Legs) /\ <<>> \in Seq(ToSet(<<>>))
    BY <2>2, ShortLists
  <2>4. ForexRow(row) = EventRow(row, "FX_SWAP", cash, <<>>)
    BY <1>1, <1>3
  <2> DEFINE none == <<>>
  <2>5. none \in Seq(ToSet(none)) /\ ForexRow(row) = EventRow(row, "FX_SWAP", cash, none)
    BY <2>3, <2>4
  <2> HIDE DEF cash, none
  <2> QED BY <2>3, <2>5, EventUsable
<1>4. CASE ~wrong /\ against = CNY
  <2>1. /\ code \in STRING /\ own \in Int /\ paid \in Int
        /\ (IF buying THEN "BUY" ELSE "SELL") \in {"BUY", "SELL"}
    BY <1>4 DEF SheetRow, Normalized, Amount
  <2>2. ForexRow(row) = TransactionRow(body)
    <3> HIDE DEF wrong, against, body
    <3> QED BY <1>1, <1>4
  <2> HIDE DEF wrong, against, paid, code, own, buying
  <2>3. own > 0 => paid \div own \in Int
    BY <2>1
  <2>4. ASSUME own > 0 PROVE body \in TradeRow
    <3> DEFINE price == paid \div own
               direction == IF buying THEN "BUY" ELSE "SELL"
    <3>1. price \in Int /\ direction \in {"BUY", "SELL"}
      BY <2>1, <2>3, <2>4
    <3>2. own \in Nat \ {0}
      BY <2>1, <2>4
    <3>3. "FOREX" \in AssetTypes
      BY DEF AssetTypes
    <3>4. body = [type |-> "FOREX", code |-> code, quantity |-> own, direction |-> direction,
                  price |-> price, currency |-> CNY, rate |-> 1, cost |-> paid,
                  time |-> row.time]
      OBVIOUS
    <3> HIDE DEF price, direction, body
    <3> QED BY <2>1, <3>1, <3>2, <3>3, <3>4 DEF TradeRow
  <2>5. body.time \in Nat
    OBVIOUS
  <2>7. body.quantity = own
    OBVIOUS
  <2> HIDE DEF body
  <2>6. Usable(TransactionRow(body))
    BY <2>4, <2>5, <2>7 DEF Usable, TransactionRow
  <2> QED BY <2>2, <2>6
<1> QED BY <1>2, <1>3, <1>4

(* A row with one cash entry. *)
LEMMA OneLegUsable ==
    ASSUME NEW row \in SheetRow, row.time \in Nat, NEW type, type \notin {"FX_BUY", "FX_SELL"},
           NEW code \in STRING, NEW n \in Int, NEW assets, assets \in Seq(ToSet(assets))
    PROVE  Usable(EventRow(row, type, <<Leg(code, n)>>, assets))
<1> DEFINE cash == <<Leg(code, n)>>
<1>1. cash \in Seq(Legs)
  BY LegTyped, ShortLists
<1> HIDE DEF cash
<1>2. Usable(EventRow(row, type, cash, assets))
  BY <1>1, EventUsable
<1> QED BY <1>2 DEF cash

(* An asset row. *)
LEMMA AssetUsable ==
    ASSUME NEW row \in SheetRow, row.time \in Nat, NEW type
    PROVE  Usable(AssetRow(row, type))
<1> DEFINE product == ProductOf(type, row.name)
           units == IF Amount(row.units) THEN row.units ELSE row.bought
           Pays == row.sell # None /\ Amount(row.sold)
           Gets == row.buy # None /\ Amount(row.bought)
           paid == <<AssetLeg(product, row.sold, row.sold, FALSE)>>
           got == <<AssetLeg(product, -units, row.bought, Amount(row.units))>>
           none == <<>>
           buying == IF type = "FUND" THEN "FUND_BUY" ELSE "WEALTH_BUY"
           redeeming == IF type = "FUND" THEN "FUND_SELL" ELSE "WEALTH_REDEEM"
           dividend == "FUND_DIVIDEND"
<1>1. AssetRow(row, type) =
        CASE Pays -> EventRow(row, buying, <<Leg(row.sell, -row.sold)>>, paid)
          [] ~Pays /\ Gets ->
               IF type = "FUND" /\ row.dividend
               THEN EventRow(row, dividend, <<Leg(row.buy, row.bought)>>, none)
               ELSE EventRow(row, redeeming, <<Leg(row.buy, row.bought)>>, got)
          [] OTHER -> Failed
  BY DEF AssetRow
<1>2. /\ paid \in Seq(ToSet(paid)) /\ got \in Seq(ToSet(got)) /\ none \in Seq(ToSet(none))
      /\ buying \notin {"FX_BUY", "FX_SELL"} /\ redeeming \notin {"FX_BUY", "FX_SELL"}
      /\ dividend \notin {"FX_BUY", "FX_SELL"}
  BY ShortLists
<1>3. Pays => row.sell \in STRING /\ -row.sold \in Int
  BY DEF SheetRow, Normalized, Amount
<1>4. Gets => row.buy \in STRING /\ row.bought \in Int
  BY DEF SheetRow, Normalized, Amount
<1> HIDE DEF Pays, Gets, product, paid, got, none, buying, redeeming, dividend
<1>5. Pays => Usable(EventRow(row, buying, <<Leg(row.sell, -row.sold)>>, paid))
  BY <1>2, <1>3, OneLegUsable
<1>6. Gets => /\ Usable(EventRow(row, dividend, <<Leg(row.buy, row.bought)>>, none))
              /\ Usable(EventRow(row, redeeming, <<Leg(row.buy, row.bought)>>, got))
  BY <1>2, <1>4, OneLegUsable
<1> QED BY <1>1, <1>5, <1>6, FailedUsable

(* An interest row. *)
LEMMA IncomeUsable ==
    ASSUME NEW row \in SheetRow, row.time \in Nat
    PROVE  Usable(IncomeRow(row))
<1> DEFINE none == <<>>
           income == "INTEREST_INCOME"
           Nothing == row.buy = None \/ ~Amount(row.bought)
<1>1. IncomeRow(row) = IF Nothing THEN Failed
                       ELSE EventRow(row, income, <<Leg(row.buy, row.bought)>>, none)
  BY DEF IncomeRow
<1>2. none \in Seq(ToSet(none)) /\ income \notin {"FX_BUY", "FX_SELL"}
  BY ShortLists
<1>3. ~Nothing => row.buy \in STRING /\ row.bought \in Int
  BY DEF SheetRow, Normalized, Amount
<1> HIDE DEF none, income, Nothing
<1>4. ~Nothing => Usable(EventRow(row, income, <<Leg(row.buy, row.bought)>>, none))
  BY <1>2, <1>3, OneLegUsable
<1> QED BY <1>1, <1>4, FailedUsable

(* Any row of any category. *)
LEMMA RowUsable ==
    ASSUME NEW row \in SheetRow
    PROVE  Usable(BuildRow(row))
<1>1. CASE row.time = None
  <2>1. BuildRow(row) = Failed
    BY <1>1 DEF BuildRow
  <2> QED BY <2>1, FailedUsable
<1>2. CASE row.time # None
  <2>1. row.time \in Nat
    BY <1>2 DEF SheetRow
  <2>2. \A type : Usable(AssetRow(row, type)) /\ Usable(IncomeRow(row))
    BY <2>1, AssetUsable, IncomeUsable
  <2>3. Usable(ForexRow(row))
    BY <2>1, ForexUsable
  <2> QED BY <1>2, <2>2, <2>3, FailedUsable DEF BuildRow
<1> QED BY <1>1, <1>2

(* The transactions among the rows of a workbook. *)
Bodies(list) == {list[k].body : k \in {n \in DOMAIN list : list[n].kind = "transaction"}}

(* And the events. *)
EventBodies(list) == {list[k].body : k \in {n \in DOMAIN list : list[n].kind # "transaction"}}

(* The preview lists rows that can be stored. *)
LEMMA PreviewRows ==
    ASSUME NEW w \in Workbooks
    PROVE  /\ Selected(w) \in Seq(ToSet(Selected(w)))
           /\ \A t \in Bodies(Selected(w)) : t.quantity > 0 => t \in TradeRow
           /\ \A event \in EventBodies(Selected(w)) : Booked(event) /\ ~OfTrade(event)
<1> DEFINE built == [n \in DOMAIN w |-> BuildRow(w[n])]
           good == {n \in DOMAIN built : built[n].kind # "failed"}
           bodies == [n \in good |-> built[n].body]
           order == InTimeOrder(bodies, good)
           list == [k \in DOMAIN order |-> built[order[k]]]
<1>1. w \in Seq(SheetRow)
  BY WorkbooksAssumption
<1>2. \A n \in DOMAIN w : Usable(built[n])
  <2>1. \A n \in DOMAIN w : w[n] \in SheetRow
    BY <1>1
  <2>2. \A n \in DOMAIN w : built[n] = BuildRow(w[n])
    OBVIOUS
  <2> HIDE DEF built
  <2> QED BY <2>1, <2>2, RowUsable
<1>3. KeySet(good)
  <2>1. good \subseteq DOMAIN w /\ DOMAIN w = 1 .. Len(w) /\ Len(w) \in Nat
    BY <1>1
  <2>2. IsFiniteSet(DOMAIN w)
    BY <2>1, FS_Interval
  <2> HIDE DEF good
  <2>3. IsFiniteSet(good)
    BY <2>1, <2>2, FS_Subset
  <2> QED BY <2>1, <2>3 DEF KeySet
<1>4. \A n \in good : /\ Usable(built[n]) /\ built[n].kind # "failed"
                      /\ built[n].body.time \in Nat
  <2>1. \A n \in good : n \in DOMAIN w /\ built[n].kind # "failed"
    OBVIOUS
  <2> HIDE DEF good, built
  <2> QED BY <1>2, <2>1 DEF Usable
<1>5. order \in Seq(good)
  <2>1. \A n \in good : bodies[n].time \in Nat
    <3>1. \A n \in good : bodies[n] = built[n].body
      OBVIOUS
    <3> HIDE DEF good, built, bodies
    <3> QED BY <1>4, <3>1
  <2> HIDE DEF good, built, bodies
  <2> QED BY <1>3, <2>1, EventsInOrder
<1>6. Selected(w) = list
  BY DEF Selected, Previews, Preview
<1> HIDE DEF good, built, bodies, order
<1>7. list \in Seq(ToSet(list))
  <2>1. DOMAIN order = 1 .. Len(order) /\ Len(order) \in Nat
    BY <1>5
  <2> QED BY <2>1 DEF ToSet
<1>8. ASSUME NEW k \in DOMAIN list, list[k].kind = "transaction"
      PROVE  list[k].body.quantity > 0 => list[k].body \in TradeRow
  <2>1. order[k] \in good /\ list[k] = built[order[k]]
    BY <1>5, <1>8
  <2> HIDE DEF list
  <2> QED BY <1>4, <1>8, <2>1 DEF Usable
<1>9. ASSUME NEW k \in DOMAIN list, list[k].kind # "transaction"
      PROVE  Booked(list[k].body) /\ ~OfTrade(list[k].body)
  <2>1. order[k] \in good /\ list[k] = built[order[k]]
    BY <1>5, <1>9
  <2> HIDE DEF list
  <2> QED BY <1>4, <1>9, <2>1 DEF Usable
<1> HIDE DEF list
<1>10. \A t \in Bodies(list) : t.quantity > 0 => t \in TradeRow
  BY <1>8 DEF Bodies
<1>11. \A event \in EventBodies(list) : Booked(event) /\ ~OfTrade(event)
  BY <1>9 DEF EventBodies
<1> QED BY <1>6, <1>7, <1>10, <1>11

RecogniseOn(p, q, r, run, row) ==
    IF row.kind = "transaction" THEN RecogniseTransaction(run, row.body)
    ELSE RecogniseEvent(run, row.body)

Recognising == INSTANCE FoldTheorems WITH Op <- RecogniseOn

(* What the loop over the rows has selected so far; the patches leave the   *)
(* cash entries alone.                                                     *)
Selects(L, B, E, run) ==
    /\ run \in [ledger : {run.ledger}, trades : Seq(B), events : Seq(E)]
    /\ Alike(L, run.ledger)

(* One turn of it. *)
LEMMA RecogniseTurn ==
    ASSUME NEW L, NEW B, NEW E, NEW run, Selects(L, B, E, run), NEW row,
           row.kind = "transaction" => row.body \in B,
           row.kind # "transaction" => row.body \in E
    PROVE  Selects(L, B, E, RecogniseOn(L, B, E, run, row))
<1>1. /\ run \in [ledger : {run.ledger}, trades : Seq(B), events : Seq(E)]
      /\ Alike(L, run.ledger) /\ CashBooks(run.ledger)
  BY DEF Selects, Alike
<1>2. CASE row.kind = "transaction"
  <2> DEFINE next == RecogniseTransaction(run, row.body)
  <2>1. Append(run.trades, row.body) \in Seq(B)
    BY <1>1, <1>2
  <2>2. next = run \/ next = [run EXCEPT !.trades = Append(run.trades, row.body)]
    BY DEF RecogniseTransaction
  <2> HIDE DEF next
  <2>3. next \in [ledger : {run.ledger}, trades : Seq(B), events : Seq(E)]
    BY <1>1, <2>1, <2>2
  <2>4. next.ledger = run.ledger
    BY <2>3
  <2>5. Selects(L, B, E, next)
    BY <1>1, <2>3, <2>4 DEF Selects
  <2> QED BY <1>2, <2>5 DEF RecogniseOn, next
<1>3. CASE row.kind # "transaction"
  <2> DEFINE next == RecogniseEvent(run, row.body)
             event == row.body
             Patch(more) == Patched(run.ledger, Min(more), event)
  <2>1. \A more : Alike(L, Patch(more))
    <3>1. \A more : Alike(run.ledger, Patch(more))
      BY <1>1, PatchedAlike
    <3> HIDE DEF Patch
    <3> QED BY <1>1, <3>1, AlikeAgain
  <2>2. Append(run.events, event) \in Seq(E)
    BY <1>1, <1>3
  <2>3. \/ next = run
        \/ next = [run EXCEPT !.ledger = Patch(ById(run.ledger, event))]
        \/ next = [run EXCEPT !.ledger = Patch(Supplemented(run.ledger, event))]
        \/ next = [run EXCEPT !.events = Append(run.events, event)]
    BY DEF RecogniseEvent
  <2> HIDE DEF next, Patch, event
  <2>4. PICK M : next \in [ledger : {M}, trades : Seq(B), events : Seq(E)] /\ Alike(L, M)
    <3>1. CASE next = run \/ next = [run EXCEPT !.events = Append(run.events, event)]
      <4>1. next \in [ledger : {run.ledger}, trades : Seq(B), events : Seq(E)]
        BY <1>1, <2>2, <3>1
      <4> QED BY <1>1, <4>1
    <3>2. ASSUME NEW more, next = [run EXCEPT !.ledger = Patch(more)]
          PROVE  \E M : next \in [ledger : {M}, trades : Seq(B), events : Seq(E)] /\ Alike(L, M)
      <4>1. next \in [ledger : {Patch(more)}, trades : Seq(B), events : Seq(E)]
        BY <1>1, <3>2
      <4> QED BY <2>1, <4>1
    <3> QED BY <2>3, <3>1, <3>2
  <2>5. next.ledger = M
    BY <2>4
  <2>6. Selects(L, B, E, next)
    BY <2>4, <2>5 DEF Selects
  <2> QED BY <1>3, <2>6 DEF RecogniseOn, next, event
<1> QED BY <1>2, <1>3

(* An import submits transactions and events of its workbook only. *)
LEMMA ImportedRows ==
    ASSUME NEW w \in Workbooks, CashBooks(ledger)
    PROVE  Selects(ledger, Bodies(Selected(w)), EventBodies(Selected(w)), Recognised(w))
<1> DEFINE base == [ledger |-> ledger, trades |-> <<>>, events |-> <<>>]
           list == Selected(w)
           L == ledger
           B == Bodies(list)
           E == EventBodies(list)
           N == Len(list)
<1>1. list \in Seq(ToSet(list))
  BY PreviewRows
<1>2. Recognised(w) = Recognising!Folded(L, B, E, base, list)
  BY DEF Recognised, RecogniseOn, Recognising!Folded, Recognising!FoldLeft,
         Recognising!MapThenFoldSet, FoldLeft, MapThenFoldSet, Recognising!Max, Max
<1>3. Selects(L, B, E, base)
  <2>1. base \in [ledger : {base.ledger}, trades : Seq(B), events : Seq(E)] /\ base.ledger = L
    OBVIOUS
  <2> HIDE DEF base, L
  <2> QED BY <2>1, AlikeItself DEF Selects, L
<1>4. \A n \in DOMAIN list : /\ list[n].kind = "transaction" => list[n].body \in B
                             /\ list[n].kind # "transaction" => list[n].body \in E
  BY DEF Bodies, EventBodies
<1> HIDE DEF base, list, L, B, E
<1>5. PICK V : /\ V[0] = base /\ V[Len(list)] = Recognising!Folded(L, B, E, base, list)
               /\ \A n \in 1 .. Len(list) : V[n] = RecogniseOn(L, B, E, V[n - 1], list[n])
  BY <1>1, Recognising!Turns
<1> DEFINE After(n) == {run \in {V[n]} : Selects(L, B, E, run)}
           X == [n \in 0 .. N |-> After(n)]
<1>6. N \in Nat /\ DOMAIN list = 1 .. N
  BY <1>1
<1>7. ASSUME NEW n \in 1 .. N, NEW run \in After(n - 1)
      PROVE  RecogniseOn(L, B, E, run, list[n]) \in After(n)
  <2>1. run = V[n - 1] /\ Selects(L, B, E, run) /\ n \in DOMAIN list
    BY <1>6, <1>7
  <2>2. Selects(L, B, E, RecogniseOn(L, B, E, run, list[n]))
    <3>1. /\ list[n].kind = "transaction" => list[n].body \in B
          /\ list[n].kind # "transaction" => list[n].body \in E
      BY <1>4, <2>1
    <3> QED BY <2>1, <3>1, RecogniseTurn
  <2>3. RecogniseOn(L, B, E, run, list[n]) = V[n]
    BY <1>5, <2>1
  <2> QED BY <2>2, <2>3
<1>8. base \in X[0]
  BY <1>3, <1>5, <1>6
<1>9. \A n \in 1 .. N : \A run \in X[n - 1] : RecogniseOn(L, B, E, run, list[n]) \in X[n]
  <2> HIDE DEF After
  <2>1. \A n \in 1 .. N : X[n - 1] = After(n - 1) /\ X[n] = After(n)
    BY <1>6
  <2> QED BY <1>7, <2>1
<1>10. Recognising!Folded(L, B, E, base, list) \in X[Len(list)]
  <2> HIDE DEF X
  <2> QED BY <1>1, <1>8, <1>9, Recognising!Advances DEF N
<1>11. X[Len(list)] = After(Len(list))
  BY <1>6
<1>12. Selects(L, B, E, Recognised(w))
  BY <1>2, <1>10, <1>11
<1> QED BY <1>12 DEF L, B, E, list
-----------------------------------------------------------------------------
(* The events of an import.                                                *)

StoreOn(p, q, r, run, event) == StoreEvent(run, event)

Storing == INSTANCE FoldTheorems WITH Op <- StoreOn

(* What the loop has stored: no event of a trade. *)
Stores(L, run) ==
    /\ CashBooks(run.ledger)
    /\ \A code : Brought(run.ledger, code) = Brought(L, code)

(* One turn of it. *)
LEMMA StoreTurn ==
    ASSUME NEW L, NEW run, Stores(L, run), NEW event, Booked(event), ~OfTrade(event)
    PROVE  Stores(L, StoreOn(L, L, L, run, event))
<1> DEFINE table == FoldLeft(LAMBDA t, x : Ensured(t, x.product), run.products, event.assets)
           A == [n \in DOMAIN event.assets |->
                   [asset |-> AssetId(table, event.assets[n].product),
                    quantity |-> event.assets[n].quantity, amount |-> event.assets[n].amount]]
           stored == [event EXCEPT !.assets = A]
           next == StoreOn(L, L, L, run, event)
<1>1. next.ledger = Insert(run.ledger, stored)
  BY DEF StoreOn, StoreEvent, Map
<1>2. A \in Seq(ToSet(A))
  <2>1. AsLong(event.assets, A)
    BY DEF AsLong
  <2> HIDE DEF A
  <2> QED BY <2>1, Listed DEF Booked
<1> HIDE DEF A
<1>3. Booked(stored) /\ ~OfTrade(stored)
  <2>1. Booked(stored) /\ stored.type = event.type
    BY <1>2, EntriesRewritten
  <2> HIDE DEF stored
  <2> QED BY <2>1 DEF OfTrade
<1> HIDE DEF stored, next
<1>4. CashBooks(run.ledger) /\ \A code : Brought(run.ledger, code) = Brought(L, code)
  BY DEF Stores
<1>5. /\ CashBooks(Insert(run.ledger, stored))
      /\ \A code : Brought(Insert(run.ledger, stored), code)
                     = Brought(run.ledger, code) + (IF OfTrade(stored) THEN Gained(stored, code) ELSE 0)
  BY <1>3, <1>4, EventInserted
<1>6. \A code : Brought(run.ledger, code) \in Int
  BY <1>4, BroughtInt
<1>7. \A code : Brought(next.ledger, code) = Brought(L, code)
  BY <1>1, <1>3, <1>4, <1>5, <1>6
<1> QED BY <1>1, <1>5, <1>7 DEF Stores, next

(* However many events there are. *)
LEMMA StoredEvents ==
    ASSUME NEW E, \A event \in E : Booked(event) /\ ~OfTrade(event), NEW run, run.events \in Seq(E),
           NEW made, CashBooks(made.ledger)
    PROVE  Stores(made.ledger, StoreEvents(run, made))
<1> DEFINE L == made.ledger
           base == [products |-> products, ledger |-> L]
           list == run.events
           N == Len(list)
<1>1. StoreEvents(run, made) = Storing!Folded(L, L, L, base, list)
  BY DEF StoreEvents, StoreOn, Storing!Folded, Storing!FoldLeft,
         Storing!MapThenFoldSet, FoldLeft, MapThenFoldSet, Storing!Max, Max
<1>2. Stores(L, base)
  BY DEF Stores
<1>3. list \in Seq(E)
  OBVIOUS
<1> HIDE DEF base, L, list
<1>4. PICK V : /\ V[0] = base /\ V[Len(list)] = Storing!Folded(L, L, L, base, list)
               /\ \A n \in 1 .. Len(list) : V[n] = StoreOn(L, L, L, V[n - 1], list[n])
  BY <1>3, Storing!Turns
<1> DEFINE After(n) == {x \in {V[n]} : Stores(L, x)}
           X == [n \in 0 .. N |-> After(n)]
<1>5. N \in Nat /\ \A n \in 1 .. N : list[n] \in E
  BY <1>3
<1>6. ASSUME NEW n \in 1 .. N, NEW x \in After(n - 1)
      PROVE  StoreOn(L, L, L, x, list[n]) \in After(n)
  <2>1. x = V[n - 1] /\ Stores(L, x) /\ list[n] \in E
    BY <1>5, <1>6
  <2>2. Stores(L, StoreOn(L, L, L, x, list[n]))
    <3>1. Booked(list[n]) /\ ~OfTrade(list[n])
      BY <2>1
    <3> QED BY <2>1, <3>1, StoreTurn
  <2>3. StoreOn(L, L, L, x, list[n]) = V[n]
    BY <1>4, <2>1
  <2> QED BY <2>2, <2>3
<1>7. base \in X[0]
  BY <1>2, <1>4, <1>5
<1>8. \A n \in 1 .. N : \A x \in X[n - 1] : StoreOn(L, L, L, x, list[n]) \in X[n]
  <2> HIDE DEF After
  <2>1. \A n \in 1 .. N : X[n - 1] = After(n - 1) /\ X[n] = After(n)
    BY <1>5
  <2> QED BY <1>6, <2>1
<1>9. Storing!Folded(L, L, L, base, list) \in X[Len(list)]
  <2> HIDE DEF X
  <2> QED BY <1>3, <1>7, <1>8, Storing!Advances DEF N
<1>10. X[Len(list)] = After(Len(list))
  BY <1>5
<1>11. Stores(L, StoreEvents(run, made))
  BY <1>1, <1>9, <1>10
<1> QED BY <1>11 DEF L
-----------------------------------------------------------------------------
(* The average cost.                                                       *)

(* Scaling keeps the order. *)
LEMMA Scaled == \A a, b \in Int, c \in Nat : a <= b => a * c <= b * c
  BY Z3

(* More units at one price. *)
LEMMA Distributed ==
    \A a, q, n, p \in Int : a * ((q + n) * p) = a * (q * p) + a * (n * p)
  BY Z3

(* The units and the denominator in another order. *)
LEMMA Regrouped ==
    \A u, n, p, q \in Int : /\ n * u * p = u * (n * p)
                            /\ u * (n * (p * q)) = u * (q * p) * n
  BY Z3

(* A purchase of n units at u keeps the cost at or above the cheaper of the *)
(* old bound and u; per is the denominator of the cost.                    *)
LEMMA BuyAbove ==
    ASSUME NEW a \in Int, NEW u \in Int, NEW q \in Nat \ {0}, NEW n \in Nat \ {0},
           NEW per \in Nat \ {0}, NEW cost \in Int, a * (q * per) <= cost
    PROVE  \E b \in {a, u} : b * ((q + n) * per) <= cost + n * u * per
<1>1. q * per \in Nat /\ n * per \in Nat
  BY ProductNat
<1>2. /\ a * (q * per) \in Int /\ u * (q * per) \in Int
      /\ a * (n * per) \in Int /\ u * (n * per) \in Int
  BY <1>1, ProductInt
<1>3. /\ a * ((q + n) * per) = a * (q * per) + a * (n * per)
      /\ u * ((q + n) * per) = u * (q * per) + u * (n * per)
  BY Distributed
<1>4. n * u * per = u * (n * per)
  BY Regrouped
<1>5. CASE a <= u
  <2>1. a * (n * per) <= u * (n * per)
    BY <1>1, <1>5, Scaled
  <2>2. a * ((q + n) * per) <= cost + n * u * per
    BY <1>2, <1>3, <1>4, <2>1
  <2> QED BY <2>2
<1>6. CASE u <= a
  <2>1. u * (q * per) <= a * (q * per)
    BY <1>1, <1>6, Scaled
  <2>2. u * ((q + n) * per) <= cost + n * u * per
    BY <1>2, <1>3, <1>4, <2>1
  <2> QED BY <2>2
<1> QED BY <1>5, <1>6

(* And at or below the dearer. *)
LEMMA BuyBelow ==
    ASSUME NEW a \in Int, NEW u \in Int, NEW q \in Nat \ {0}, NEW n \in Nat \ {0},
           NEW per \in Nat \ {0}, NEW cost \in Int, cost <= a * (q * per)
    PROVE  \E b \in {a, u} : cost + n * u * per <= b * ((q + n) * per)
<1>1. q * per \in Nat /\ n * per \in Nat
  BY ProductNat
<1>2. /\ a * (q * per) \in Int /\ u * (q * per) \in Int
      /\ a * (n * per) \in Int /\ u * (n * per) \in Int
  BY <1>1, ProductInt
<1>3. /\ a * ((q + n) * per) = a * (q * per) + a * (n * per)
      /\ u * ((q + n) * per) = u * (q * per) + u * (n * per)
  BY Distributed
<1>4. n * u * per = u * (n * per)
  BY Regrouped
<1>5. CASE u <= a
  <2>1. u * (n * per) <= a * (n * per)
    BY <1>1, <1>5, Scaled
  <2>2. cost + n * u * per <= a * ((q + n) * per)
    BY <1>2, <1>3, <1>4, <2>1
  <2> QED BY <2>2
<1>6. CASE a <= u
  <2>1. a * (q * per) <= u * (q * per)
    BY <1>1, <1>6, Scaled
  <2>2. cost + n * u * per <= u * ((q + n) * per)
    BY <1>2, <1>3, <1>4, <2>1
  <2> QED BY <2>2
<1> QED BY <1>5, <1>6

(* A position whose average cost lies between two of the prices. *)
Between(prices, cost, units) ==
    /\ \E price \in prices : price * units <= cost
    /\ \E price \in prices : cost <= price * units

Fair(prices) ==
    {p \in [quantity : Nat, cost : Int, per : Nat \ {0}, sound : BOOLEAN] :
        /\ p.quantity = 0 => p.cost = 0
        /\ p.quantity > 0 => Between(prices, p.cost, p.quantity * p.per)}

(* A purchase. *)
LEMMA BuyFair ==
    ASSUME NEW prices \in SUBSET Int, NEW u \in prices, NEW n \in Nat \ {0},
           NEW q \in Nat, NEW per \in Nat \ {0}, NEW cost \in Int,
           q = 0 => cost = 0, q > 0 => Between(prices, cost, q * per)
    PROVE  /\ cost + n * u * per \in Int
           /\ Between(prices, cost + n * u * per, (q + n) * per)
<1>1. u \in Int
  OBVIOUS
<1>2. n * u * per = u * (n * per) /\ u * (n * per) \in Int
  <2>1. n * per \in Int
    BY ProductInt
  <2> QED BY <1>1, <2>1, ProductInt, Regrouped
<1>3. CASE q = 0
  <2>1. (q + n) * per = n * per /\ cost + n * u * per = u * (n * per)
    BY <1>2, <1>3
  <2> QED BY <1>2, <2>1 DEF Between
<1>4. CASE q > 0
  <2>1. PICK a \in prices : a * (q * per) <= cost
    BY <1>4 DEF Between
  <2>2. PICK b \in prices : cost <= b * (q * per)
    BY <1>4 DEF Between
  <2>3. q \in Nat \ {0} /\ a \in Int /\ b \in Int
    BY <1>4
  <2>4. \E c \in {a, u} : c * ((q + n) * per) <= cost + n * u * per
    BY <1>1, <2>1, <2>3, BuyAbove
  <2>5. \E c \in {b, u} : cost + n * u * per <= c * ((q + n) * per)
    BY <1>1, <2>2, <2>3, BuyBelow
  <2>6. cost + n * u * per \in Int
    BY <1>2
  <2> QED BY <2>4, <2>5, <2>6 DEF Between
<1> QED BY <1>3, <1>4

(* A sale of a part: cost and denominator are scaled by what is left of q. *)
LEMMA SellFair ==
    ASSUME NEW prices \in SUBSET Int, NEW m \in Nat \ {0}, NEW q \in Nat \ {0},
           NEW per \in Nat \ {0}, NEW cost \in Int, Between(prices, cost, q * per)
    PROVE  cost * m \in Int /\ Between(prices, cost * m, m * (per * q))
<1>1. cost * m \in Int /\ q * per \in Int
  BY ProductInt
<1>2. ASSUME NEW a \in prices
      PROVE  /\ a * (m * (per * q)) = a * (q * per) * m
             /\ a * (q * per) \in Int
  <2>1. a \in Int
    OBVIOUS
  <2> QED BY <1>1, <2>1, ProductInt, Regrouped
<1>3. PICK a \in prices : a * (q * per) <= cost
  BY DEF Between
<1>4. PICK b \in prices : cost <= b * (q * per)
  BY DEF Between
<1>5. a * (q * per) * m <= cost * m /\ cost * m <= b * (q * per) * m
  BY <1>2, <1>3, <1>4, Scaled
<1>6. a * (m * (per * q)) <= cost * m /\ cost * m <= b * (m * (per * q))
  BY <1>2, <1>5
<1> QED BY <1>1, <1>6 DEF Between

(* One transaction. *)
LEMMA AverageTurn ==
    ASSUME NEW prices \in SUBSET Int, NEW p \in Fair(prices), NEW t \in TradeRow,
           t.direction = "BUY" => UnitCost(t) \in prices
    PROVE  Averaged(p, t) \in Fair(prices)
<1> DEFINE q == p.quantity
           n == t.quantity
           u == UnitCost(t)
           next == Averaged(p, t)
<1>1. /\ p \in [quantity : Nat, cost : Int, per : Nat \ {0}, sound : BOOLEAN]
      /\ q = 0 => p.cost = 0
      /\ q > 0 => Between(prices, p.cost, q * p.per)
  BY DEF Fair
<1>2. q \in Nat /\ p.cost \in Int /\ p.per \in Nat \ {0} /\ p.sound \in BOOLEAN
  BY <1>1
<1>3. n \in Nat \ {0} /\ t.direction \in {"BUY", "SELL"}
  BY DEF TradeRow
<1>4. CASE t.direction = "BUY"
  <2> DEFINE cost == p.cost + n * u * p.per
  <2>1. cost \in Int /\ Between(prices, cost, (q + n) * p.per)
    <3>1. u \in prices
      BY <1>4
    <3> HIDE DEF q, n, u
    <3> QED BY <1>1, <1>2, <1>3, <3>1, BuyFair
  <2>2. next \in [quantity : {q + n}, cost : {cost}, per : {p.per}, sound : {p.sound}]
    BY <1>1, <1>4 DEF Averaged
  <2>3. q + n \in Nat /\ q + n # 0
    BY <1>2, <1>3
  <2> HIDE DEF q, n, u, cost, next
  <2>4. next \in Fair(prices)
    BY <1>2, <2>1, <2>2, <2>3 DEF Fair
  <2> QED BY <2>4 DEF next
<1>5. CASE t.direction = "SELL" /\ n > q
  <2>1. next \in [quantity : {q}, cost : {p.cost}, per : {p.per}, sound : {FALSE}]
    <3>1. t.direction # "BUY" /\ n # q
      BY <1>2, <1>3, <1>5
    <3>2. next = [p EXCEPT !.sound = FALSE]
      BY <1>5, <3>1 DEF Averaged
    <3> HIDE DEF next
    <3> QED BY <1>1, <3>2
  <2> HIDE DEF q, n, next
  <2>2. next \in Fair(prices)
    BY <1>1, <1>2, <2>1 DEF Fair
  <2> QED BY <2>2 DEF next
<1>6. CASE t.direction = "SELL" /\ n = q
  <2>1. next \in [quantity : {0}, cost : {0}, per : {1}, sound : {p.sound}]
    <3>1. t.direction # "BUY" /\ ~(n > q)
      BY <1>2, <1>3, <1>6
    <3>2. next = [p EXCEPT !.quantity = 0, !.cost = 0, !.per = 1]
      BY <1>6, <3>1 DEF Averaged
    <3> HIDE DEF next
    <3> QED BY <1>1, <3>2
  <2> HIDE DEF q, n, next
  <2>2. next \in Fair(prices)
    BY <1>2, <2>1 DEF Fair
  <2> QED BY <2>2 DEF next
<1>7. CASE t.direction = "SELL" /\ n < q
  <2> DEFINE m == q - n
             cost == p.cost * m
             per == p.per * q
  <2>1. m \in Nat \ {0} /\ q \in Nat \ {0}
    BY <1>2, <1>3, <1>7
  <2>2. cost \in Int /\ Between(prices, cost, m * per)
    <3> DEFINE c == p.cost
               d == p.per
    <3>1. /\ c \in Int /\ d \in Nat \ {0} /\ q > 0
          /\ Between(prices, c, q * d)
      BY <1>1, <1>2, <2>1
    <3> HIDE DEF q, m, c, d
    <3>2. c * m \in Int /\ Between(prices, c * m, m * (d * q))
      BY <2>1, <3>1, SellFair
    <3> QED BY <3>2 DEF c, d
  <2>3. per \in Nat \ {0}
    <3> HIDE DEF q
    <3> QED BY <1>2, <2>1, ProductNat
  <2>4. next \in [quantity : {m}, cost : {cost}, per : {per}, sound : {p.sound}]
    <3>1. t.direction # "BUY" /\ ~(n > q) /\ n # q
      BY <1>2, <1>3, <1>7
    <3>2. next = [p EXCEPT !.quantity = q - n, !.cost = p.cost * (q - n), !.per = p.per * q]
      BY <1>7, <3>1 DEF Averaged
    <3> HIDE DEF next
    <3> QED BY <1>1, <3>2
  <2> HIDE DEF q, n, m, cost, per, next
  <2>5. next \in Fair(prices)
    BY <1>2, <2>1, <2>2, <2>3, <2>4 DEF Fair
  <2> QED BY <2>5 DEF next
<1> QED BY <1>2, <1>3, <1>4, <1>5, <1>6, <1>7

AverageOn(table, q, r, position, i) ==
    IF position.sound THEN Averaged(position, table[i]) ELSE position

Averaging == INSTANCE FoldTheorems WITH Op <- AverageOn

Prices(table, ids) == {UnitCost(table[i]) : i \in {j \in ids : table[j].direction = "BUY"}}

(* All transactions of an asset. *)
LEMMA CalculatedFair ==
    ASSUME NEW T, IsTable(T, TradeRow), NEW ids \in SUBSET DOMAIN T
    PROVE  Calculated(T, ids) \in Fair(Prices(T, ids))
<1> DEFINE base == [quantity |-> 0, cost |-> 0, per |-> 1, sound |-> TRUE]
           order == InTimeOrder(T, ids)
           X == Fair(Prices(T, ids))
<1>1. \A i \in DOMAIN T : T[i] \in TradeRow
  BY DEF IsTable
<1>2. order \in Seq(ids)
  <2>1. KeySet(ids)
    BY FS_Subset DEF KeySet, IsTable
  <2>2. \A i \in ids : T[i].time \in Nat
    BY <1>1 DEF TradeRow
  <2> QED BY <2>1, <2>2, EventsInOrder
<1>3. Prices(T, ids) \in SUBSET Int
  BY <1>1, UnitCostInt DEF Prices
<1>4. Calculated(T, ids) = Averaging!Folded(T, T, T, base, order)
  BY DEF Calculated, AverageOn, Averaging!Folded, Averaging!FoldLeft,
         Averaging!MapThenFoldSet, FoldLeft, MapThenFoldSet, Averaging!Max, Max
<1>5. base \in X
  BY DEF Fair
<1>6. ASSUME NEW p \in X, NEW i \in ids PROVE AverageOn(T, T, T, p, i) \in X
  <2>1. T[i] \in TradeRow
    BY <1>1
  <2>2. T[i].direction = "BUY" => UnitCost(T[i]) \in Prices(T, ids)
    BY DEF Prices
  <2>3. Averaged(p, T[i]) \in X
    BY <1>3, <2>1, <2>2, AverageTurn
  <2> QED BY <2>3 DEF AverageOn
<1> HIDE DEF base, order, X
<1>7. Averaging!Folded(T, T, T, base, order) \in X
  BY <1>2, <1>5, <1>6, Averaging!Stays
<1> QED BY <1>4, <1>7 DEF X
-----------------------------------------------------------------------------
(* The events of the ledger.                                               *)

(* The other events when some are removed. *)
LEMMA RemovedBooks ==
    ASSUME NEW L, CashBooks(L), NEW S
    PROVE  CashBooks(Without(L, S))
<1> DEFINE R == {L[e] : e \in DOMAIN L}
           M == Without(L, S)
<1>1. IsTable(L, R)
  BY DEF CashBooks
<1> HIDE DEF R
<1>2. IsTable(M, R) /\ DOMAIN M = DOMAIN L \ S /\ \A e \in DOMAIN L \ S : M[e] = L[e]
  BY <1>1, WithoutRows
<1> HIDE DEF M
<1>3. IsTable(M, {M[e] : e \in DOMAIN M})
  BY <1>2, RowsTyped
<1>4. \A e \in DOMAIN M : Booked(M[e])
  BY <1>2 DEF CashBooks
<1>5. CashBooks(M)
  BY <1>3, <1>4 DEF CashBooks
<1> QED BY <1>5 DEF M

(* An event with another time. *)
LEMMA TimeRewritten ==
    ASSUME NEW event, Booked(event), NEW time
    PROVE  /\ Booked([event EXCEPT !.time = time])
           /\ [event EXCEPT !.time = time].type = event.type
           /\ [event EXCEPT !.time = time].cash = event.cash
<1> DEFINE next == [event EXCEPT !.time = time]
<1>1. event \in [type : {event.type}, time : {event.time}, id : {event.id},
                 cash : Seq(Legs), assets : {event.assets}]
  BY DEF Booked
<1>2. next \in [type : {event.type}, time : {time}, id : {event.id},
                cash : {event.cash}, assets : {event.assets}]
  BY <1>1
<1>3. event.cash \in Seq(Legs) /\ event.assets \in Seq(ToSet(event.assets))
  BY DEF Booked
<1> HIDE DEF next
<1>4. /\ next.type = event.type /\ next.time = time /\ next.id = event.id
      /\ next.cash = event.cash /\ next.assets = event.assets
  BY <1>2
<1>5. next \in [type : {next.type}, time : {next.time}, id : {next.id},
                cash : Seq(Legs), assets : {next.assets}]
  BY <1>2, <1>3, <1>4
<1> QED BY <1>3, <1>4, <1>5 DEF Booked, next

(* ORDER BY id lists members of the set it orders. *)
LEMMA KeysInOrder ==
    ASSUME NEW S, KeySet(S)
    PROVE  InOrder(S, LAMBDA d, f : d < f) \in Seq(S)
<1> DEFINE R == {p \in S \X S : p[1] < p[2]}
           Ahead(x) == {y \in S : y < x}
           Nth(n) == CHOOSE x \in S : Cardinality(Ahead(x)) = n - 1
<1>1. \A x, y \in S : <<x, y>> \in R <=> x < y
  OBVIOUS
<1>2. IsFiniteSet(S) /\ S \subseteq Nat
  BY DEF KeySet
<1>3. \A n \in 1 .. Cardinality(S) : \E x \in S : Cardinality(Below(S, R, x)) = n - 1
  <2> HIDE DEF R
  <2>1. \A x, y \in S : x # y => <<x, y>> \in R \/ <<y, x>> \in R
    BY <1>1, <1>2
  <2>2. \A x, y \in S : <<x, y>> \in R => <<y, x>> \notin R
    BY <1>1, <1>2
  <2>3. \A x, y, z \in S : <<x, y>> \in R /\ <<y, z>> \in R => <<x, z>> \in R
    BY <1>1, <1>2
  <2>4. StrictOrder(S, R)
    BY <2>1, <2>2, <2>3 DEF StrictOrder
  <2> QED BY <1>2, <2>4, Ranked
<1>4. \A x \in S : Below(S, R, x) = Ahead(x)
  <2> HIDE DEF R
  <2> QED BY <1>1 DEF Below
<1> HIDE DEF R
<1>5. \A n \in 1 .. Cardinality(S) : \E x \in S : Cardinality(Ahead(x)) = n - 1
  <2> HIDE DEF Ahead
  <2> QED BY <1>3, <1>4
<1>6. \A n \in 1 .. Cardinality(S) : Nth(n) \in S
  <2> HIDE DEF Ahead
  <2> QED BY <1>5
<1>7. Cardinality(S) \in Nat
  BY <1>2, FS_CardinalityType
<1>8. InOrder(S, LAMBDA d, f : d < f) = [n \in 1 .. Cardinality(S) |-> Nth(n)]
  BY DEF InOrder
<1>9. [n \in 1 .. Cardinality(S) |-> Nth(n)] \in Seq(S)
  <2> HIDE DEF Nth
  <2> QED BY <1>6, <1>7
<1> QED BY <1>8, <1>9
-----------------------------------------------------------------------------
(* The ledger and its backups.                                             *)

(* The stored transactions and those of the newest backup are typed rows,  *)
(* and so are the cash entries of the events.                              *)
LedgerSound ==
    IsTable(transactions, TradeRow) /\ IsTable(saved, TradeRow) /\ CashBooks(ledger)

(* An empty ledger. *)
LEMMA LedgerStarts == TradeInit => LedgerSound
<1>1. \A R : IsTable(<<>>, R)
  BY EmptyTable
<1>2. DOMAIN <<>> = {}
  OBVIOUS
<1>3. CashBooks(<<>>)
  BY <1>1, <1>2 DEF CashBooks
<1> QED BY <1>1, <1>3 DEF TradeInit, LedgerSound

(* A trade or an import moves the ledger as it moves the transactions, and  *)
(* sells what is held.                                                     *)
Moved == /\ Covers(transactions, transactions')
         /\ KeepsUp(transactions, ledger, transactions', ledger')

(* Events that bring in the same. *)
LEMMA SameDrift ==
    ASSUME NEW T, IsTable(T, TradeRow), NEW L, CashBooks(L), NEW M, CashBooks(M),
           \A code : Brought(M, code) = Brought(L, code), NEW code
    PROVE  Drift(T, M, code) = Drift(T, L, code)
<1>1. Drift(T, M, code) = Brought(M, code) - Taken(T, code)
  BY DriftNames
<1>2. Drift(T, L, code) = Brought(L, code) - Taken(T, code)
  BY DriftNames
<1> QED BY <1>1, <1>2

(* POST /api/transactions. *)
LEMMA TradeSound ==
    ASSUME LedgerSound, NEW body \in Trades, Trade(body)
    PROVE  LedgerSound' /\ Moved
<1> DEFINE batch == <<body>>
           run == CreateTransactions(transactions, ledger, batch)
<1>1. transactions' = run.transactions /\ ledger' = run.ledger /\ saved' = transactions'
  BY DEF Trade, BackedUp
<1>2. batch \in Seq(TradeRequest)
  BY TradesAssumption
<1>3. IsTable(transactions, TradeRow) /\ CashBooks(ledger)
  BY DEF LedgerSound
<1> HIDE DEF batch
<1>4. Creates(transactions, ledger, CreateTransactions(transactions, ledger, batch))
  BY <1>2, <1>3, RequestRow, CreatedRows
<1> HIDE DEF run
<1>5. Creates(transactions, ledger, run)
  BY <1>4 DEF run
<1> QED BY <1>1, <1>5 DEF LedgerSound, Moved, Creates

(* An import, interrupted or not. *)
LEMMA ImportSound ==
    ASSUME LedgerSound, NEW w \in Workbooks, NEW stops \in BOOLEAN, Import(w, stops)
    PROVE  LedgerSound' /\ Moved
<1> DEFINE run == Recognised(w)
           L == run.ledger
           B == Bodies(Selected(w))
           E == EventBodies(Selected(w))
           batch == run.trades
           made == CreateTransactions(transactions, L, batch)
           stored == StoreEvents(run, made)
<1>1. /\ transactions' = made.transactions
      /\ ledger' = IF stops THEN made.ledger ELSE stored.ledger
      /\ saved' = saved \/ saved' = transactions'
  BY DEF Import, Store, BackedUp
<1>2. IsTable(transactions, TradeRow) /\ IsTable(saved, TradeRow) /\ CashBooks(ledger)
  BY DEF LedgerSound
<1>3. Selects(ledger, B, E, run)
  BY <1>2, ImportedRows
<1>4. /\ \A t \in B : t.quantity > 0 => t \in TradeRow
      /\ \A event \in E : Booked(event) /\ ~OfTrade(event)
  BY PreviewRows
<1> HIDE DEF run, B, E
<1>5. batch \in Seq(B) /\ run.events \in Seq(E) /\ CashBooks(L) /\ Alike(ledger, L)
  BY <1>3 DEF Selects, Alike
<1>6. Creates(transactions, L, made)
  <2> HIDE DEF batch, L
  <2> QED BY <1>2, <1>4, <1>5, CreatedRows
<1> HIDE DEF batch, made
<1>7. /\ IsTable(made.transactions, TradeRow) /\ CashBooks(made.ledger)
      /\ Covers(transactions, made.transactions)
      /\ KeepsUp(transactions, L, made.transactions, made.ledger)
  BY <1>6 DEF Creates
<1>8. Stores(made.ledger, stored)
  BY <1>4, <1>5, <1>7, StoredEvents
<1> HIDE DEF stored
<1>9. /\ CashBooks(ledger')
      /\ \A code : Brought(ledger', code) = Brought(made.ledger, code)
  BY <1>1, <1>7, <1>8 DEF Stores
<1>10. ASSUME ParitySince(transactions, transactions'), NEW code
       PROVE  Drift(transactions', ledger', code) = Drift(transactions, ledger, code)
  <2> HIDE DEF L
  <2>1. Drift(made.transactions, made.ledger, code) = Drift(transactions, L, code)
    BY <1>1, <1>7, <1>10 DEF KeepsUp
  <2>2. Drift(transactions, L, code) = Drift(transactions, ledger, code)
    <3>1. \A c : Brought(L, c) = Brought(ledger, c)
      BY <1>2, <1>5, AlikeBrings
    <3> QED BY <1>2, <1>5, <3>1, SameDrift
  <2>3. Drift(made.transactions, ledger', code) = Drift(made.transactions, made.ledger, code)
    BY <1>7, <1>9, SameDrift
  <2> QED BY <1>1, <2>1, <2>2, <2>3
<1> QED BY <1>1, <1>2, <1>7, <1>9, <1>10 DEF LedgerSound, Moved, KeepsUp

(* A route on one history record. *)
LEMMA EditSound ==
    ASSUME LedgerSound, NEW i \in DOMAIN transactions
    PROVE  /\ DeleteTransaction(i) => LedgerSound'
           /\ \A time \in EditTimes : EditTransaction(i, time) =>
                LedgerSound' /\ DOMAIN transactions' = DOMAIN transactions
           /\ \A rate \in PrimaryRates : RerateTransaction(i, rate) =>
                LedgerSound' /\ DOMAIN transactions' = DOMAIN transactions
<1> DEFINE t == transactions[i]
<1>1. IsTable(transactions, TradeRow) /\ CashBooks(ledger) /\ t \in TradeRow
  BY DEF LedgerSound, IsTable
<1>2. ASSUME DeleteTransaction(i) PROVE LedgerSound'
  <2> DEFINE gone == {i}
  <2>1. transactions' = Without(transactions, gone) /\ saved' = saved /\ ledger' = ledger
    BY <1>2 DEF DeleteTransaction
  <2> HIDE DEF gone
  <2>2. IsTable(Without(transactions, gone), TradeRow)
    BY <1>1, WithoutRows
  <2> QED BY <2>1, <2>2 DEF LedgerSound
<1>3. ASSUME NEW row \in TradeRow, transactions' = [transactions EXCEPT ![i] = row],
             saved' = saved, ledger' = ledger
      PROVE  LedgerSound' /\ DOMAIN transactions' = DOMAIN transactions
  <2>1. IsTable([transactions EXCEPT ![i] = row], TradeRow)
    BY <1>1, UpdateRow
  <2> QED BY <1>3, <2>1 DEF LedgerSound
<1>4. ASSUME NEW time \in EditTimes, EditTransaction(i, time)
      PROVE  LedgerSound' /\ DOMAIN transactions' = DOMAIN transactions
  <2> DEFINE row == [t EXCEPT !.time = time]
  <2>1. time \in Nat
    BY TradesAssumption
  <2>2. row \in TradeRow
    BY <1>1, <2>1 DEF TradeRow
  <2>3. transactions' = [transactions EXCEPT ![i] = row] /\ saved' = saved /\ ledger' = ledger
    BY <1>4 DEF EditTransaction
  <2> HIDE DEF row
  <2> QED BY <1>3, <2>2, <2>3
<1>5. ASSUME NEW rate \in PrimaryRates, RerateTransaction(i, rate)
      PROVE  LedgerSound' /\ DOMAIN transactions' = DOMAIN transactions
  <2> DEFINE cost == t.quantity * rate
             row == [t EXCEPT !.price = rate, !.rate = 1, !.cost = cost]
  <2>1. rate \in Int /\ t.quantity \in Int
    BY <1>1, TradesAssumption DEF TradeRow
  <2>2. cost \in Int
    <3> HIDE DEF t
    <3> QED BY <2>1, ProductInt
  <2>3. transactions' = [transactions EXCEPT ![i] = row] /\ saved' = saved /\ ledger' = ledger
    BY <1>5 DEF RerateTransaction
  <2> HIDE DEF cost
  <2>4. row \in TradeRow
    <3> DEFINE priced == [t EXCEPT !.price = rate]
               rated == [priced EXCEPT !.rate = 1]
    <3>1. priced \in TradeRow
      BY <1>1, <2>1 DEF TradeRow
    <3>2. row = [rated EXCEPT !.cost = cost]
      OBVIOUS
    <3> HIDE DEF t, priced
    <3>3. rated \in TradeRow
      BY <3>1 DEF TradeRow
    <3> HIDE DEF rated, row
    <3> QED BY <2>2, <3>2, <3>3 DEF TradeRow
  <2> HIDE DEF row
  <2> QED BY <1>3, <2>3, <2>4
<1> QED BY <1>2, <1>4, <1>5

(* A route on one event. *)
LEMMA EventSound ==
    ASSUME LedgerSound, NEW e \in DOMAIN ledger
    PROVE  /\ DeleteEvent(e) => LedgerSound'
           /\ \A time \in EditTimes : EditEvent(e, time) => LedgerSound'
<1>1. CashBooks(ledger)
  BY DEF LedgerSound
<1>2. ASSUME DeleteEvent(e) PROVE LedgerSound'
  <2> DEFINE gone == {e}
  <2>1. ledger' = Without(ledger, gone) /\ transactions' = transactions /\ saved' = saved
    BY <1>2 DEF DeleteEvent
  <2> HIDE DEF gone
  <2>2. CashBooks(Without(ledger, gone))
    BY <1>1, RemovedBooks
  <2> QED BY <2>1, <2>2 DEF LedgerSound
<1>3. ASSUME NEW time \in EditTimes, EditEvent(e, time) PROVE LedgerSound'
  <2> DEFINE M == [ledger EXCEPT ![e].time = time]
  <2>1. ledger' = M /\ transactions' = transactions /\ saved' = saved
    BY <1>3 DEF EditEvent
  <2>2. ledger = [d \in DOMAIN ledger |-> ledger[d]] /\ \A d \in DOMAIN ledger : Booked(ledger[d])
    BY <1>1 DEF CashBooks, IsTable
  <2>3. M = [d \in DOMAIN ledger |-> M[d]]
    BY <2>2
  <2>4. ASSUME NEW d \in DOMAIN ledger PROVE M[d] = ledger[d] \/ M[d] = [ledger[d] EXCEPT !.time = time]
    BY <2>2
  <2> HIDE DEF M
  <2>5. ASSUME NEW d \in DOMAIN ledger
        PROVE  Booked(M[d]) /\ M[d].type = ledger[d].type /\ M[d].cash = ledger[d].cash
    <3> DEFINE event == ledger[d]
    <3>1. Booked(event)
      BY <2>2
    <3>2. M[d] = event \/ M[d] = [event EXCEPT !.time = time]
      BY <2>4
    <3> HIDE DEF event
    <3>3. /\ Booked([event EXCEPT !.time = time])
          /\ [event EXCEPT !.time = time].type = event.type
          /\ [event EXCEPT !.time = time].cash = event.cash
      BY <3>1, TimeRewritten
    <3> QED BY <3>1, <3>2, <3>3 DEF event
  <2>6. Alike(ledger, M)
    BY <1>1, <2>3, <2>5, Rewritten
  <2>7. CashBooks(M)
    BY <2>6 DEF Alike
  <2> QED BY <2>1, <2>7 DEF LedgerSound
<1> QED BY <1>2, <1>3

DedupeOn(p, q, r, L, e) == TakeOver(L, KeptFor(e), e)

Deduping == INSTANCE FoldTheorems WITH Op <- DedupeOn

(* Deduplication. *)
LEMMA DedupeSound == LedgerSound /\ Dedupe => LedgerSound'
<1> SUFFICES ASSUME LedgerSound, Dedupe PROVE LedgerSound'
  OBVIOUS
<1> DEFINE L == ledger
           list == InOrder(Duplicates, LAMBDA d, f : d < f)
           N == Len(list)
           merged == FoldLeft(LAMBDA t, e : TakeOver(t, KeptFor(e), e), L, list)
<1>1. ledger' = Without(merged, Duplicates) /\ transactions' = transactions /\ saved' = saved
  BY DEF Dedupe
<1>2. CashBooks(L)
  BY DEF LedgerSound
<1>3. Duplicates \subseteq DOMAIN L /\ KeySet(Duplicates)
  <2>1. Duplicates \subseteq DOMAIN L
    BY DEF Duplicates
  <2>2. IsFiniteSet(DOMAIN L) /\ DOMAIN L \subseteq Nat
    BY <1>2 DEF CashBooks, IsTable
  <2> QED BY <2>1, <2>2, FS_Subset DEF KeySet
<1>4. list \in Seq(Duplicates)
  BY <1>3, KeysInOrder
<1>5. merged = Deduping!Folded(L, L, L, L, list)
  BY DEF DedupeOn, Deduping!Folded, Deduping!FoldLeft, Deduping!MapThenFoldSet,
         FoldLeft, MapThenFoldSet, Deduping!Max, Max
<1> HIDE DEF L, list, merged
<1>6. ASSUME NEW M, Alike(L, M), NEW e \in Duplicates PROVE Alike(L, DedupeOn(L, L, L, M, e))
  <2>1. CashBooks(M) /\ e \in DOMAIN M
    BY <1>3, <1>6 DEF Alike
  <2>2. Alike(M, TakeOver(M, KeptFor(e), e))
    BY <2>1, TakenOverAlike
  <2> QED BY <1>6, <2>2, AlikeAgain DEF DedupeOn
<1>7. PICK V : /\ V[0] = L /\ V[Len(list)] = Deduping!Folded(L, L, L, L, list)
               /\ \A n \in 1 .. Len(list) : V[n] = DedupeOn(L, L, L, V[n - 1], list[n])
  BY <1>4, Deduping!Turns
<1> DEFINE Turn(n) == {M \in {V[n]} : Alike(L, M)}
           X == [n \in 0 .. N |-> Turn(n)]
<1>8. N \in Nat /\ \A n \in 1 .. N : list[n] \in Duplicates
  BY <1>4
<1>9. ASSUME NEW n \in 1 .. N, NEW M \in Turn(n - 1)
      PROVE  DedupeOn(L, L, L, M, list[n]) \in Turn(n)
  <2>1. M = V[n - 1] /\ Alike(L, M) /\ list[n] \in Duplicates
    BY <1>8, <1>9
  <2>2. DedupeOn(L, L, L, M, list[n]) = V[n]
    BY <1>7, <2>1
  <2> QED BY <1>6, <2>1, <2>2
<1>10. L \in X[0]
  BY <1>2, <1>7, <1>8, AlikeItself
<1>11. \A n \in 1 .. N : \A M \in X[n - 1] : DedupeOn(L, L, L, M, list[n]) \in X[n]
  <2> HIDE DEF Turn
  <2>1. \A n \in 1 .. N : X[n - 1] = Turn(n - 1) /\ X[n] = Turn(n)
    BY <1>8
  <2> QED BY <1>9, <2>1
<1>12. Deduping!Folded(L, L, L, L, list) \in X[Len(list)]
  <2> HIDE DEF X
  <2> QED BY <1>4, <1>10, <1>11, Deduping!Advances DEF N
<1>13. X[Len(list)] = Turn(Len(list))
  BY <1>8
<1>14. CashBooks(merged)
  BY <1>5, <1>12, <1>13 DEF Alike
<1>15. CashBooks(Without(merged, Duplicates))
  BY <1>14, RemovedBooks
<1> QED BY <1>1, <1>15 DEF LedgerSound

(* A merge of two assets. *)
LEMMA MergeSound ==
    ASSUME LedgerSound, NEW target, NEW source, NEW identity, MergeAssets(target, source, identity)
    PROVE  LedgerSound'
<1> DEFINE List(e) == [n \in DOMAIN ledger[e].assets |->
                         IF ledger[e].assets[n].asset = source
                         THEN [ledger[e].assets[n] EXCEPT !.asset = target] ELSE ledger[e].assets[n]]
           M == [e \in DOMAIN ledger |-> [ledger[e] EXCEPT !.assets = List(e)]]
<1>1. ledger' = M /\ transactions' = transactions /\ saved' = saved
  BY DEF MergeAssets, Map
<1>2. CashBooks(ledger) /\ \A e \in DOMAIN ledger : Booked(ledger[e])
  BY DEF LedgerSound, CashBooks
<1>3. M = [e \in DOMAIN ledger |-> M[e]]
  OBVIOUS
<1>4. ASSUME NEW e \in DOMAIN ledger
      PROVE  Booked(M[e]) /\ M[e].type = ledger[e].type /\ M[e].cash = ledger[e].cash
  <2> DEFINE event == ledger[e]
             A == List(e)
  <2>1. M[e] = [event EXCEPT !.assets = A] /\ Booked(event)
    BY <1>2
  <2>2. AsLong(event.assets, A)
    BY DEF AsLong
  <2> HIDE DEF List, M, event, A
  <2>3. A \in Seq(ToSet(A))
    BY <2>1, <2>2, Listed DEF Booked
  <2>4. /\ Booked([event EXCEPT !.assets = A])
        /\ [event EXCEPT !.assets = A].type = event.type
        /\ [event EXCEPT !.assets = A].cash = event.cash
    BY <2>1, <2>3, EntriesRewritten
  <2> QED BY <2>1, <2>4 DEF event
<1> HIDE DEF M
<1>5. Alike(ledger, M)
  BY <1>2, <1>3, <1>4, Rewritten
<1> QED BY <1>1, <1>5 DEF LedgerSound, Alike

(* One step. *)
LEMMA LedgerSteps == LedgerSound /\ [Next]_tradeVars => LedgerSound'
<1> SUFFICES ASSUME LedgerSound, [Next]_tradeVars PROVE LedgerSound'
  OBVIOUS
<1>1. ASSUME NEW body \in Trades, Trade(body) PROVE LedgerSound'
  BY <1>1, TradeSound
<1>2. ASSUME NEW w \in Workbooks, NEW stops \in BOOLEAN, Import(w, stops) PROVE LedgerSound'
  BY <1>2, ImportSound
<1>3. ASSUME NEW i \in DOMAIN transactions,
             \/ DeleteTransaction(i)
             \/ \E time \in EditTimes : EditTransaction(i, time)
             \/ \E rate \in PrimaryRates : RerateTransaction(i, rate)
      PROVE  LedgerSound'
  BY <1>3, EditSound
<1>4. ASSUME NEW e \in DOMAIN ledger, DeleteEvent(e) \/ \E time \in EditTimes : EditEvent(e, time)
      PROVE  LedgerSound'
  BY <1>4, EventSound
<1>5. CASE Restore
  BY <1>5 DEF Restore, LedgerSound
<1>6. CASE UNCHANGED <<transactions, saved, ledger>>
  BY <1>6 DEF LedgerSound
<1>7. \A holding : RecordHolding(holding) => UNCHANGED <<transactions, saved, ledger>>
  BY DEF RecordHolding
<1>8. CASE Dedupe
  BY <1>8, DedupeSound
<1>9. ASSUME NEW a, NEW b, NEW c, MergeAssets(a, b, c) PROVE LedgerSound'
  BY <1>9, MergeSound
<1>10. CASE UNCHANGED tradeVars
  BY <1>6, <1>10 DEF tradeVars
<1>11. CASE TradeNext
  BY <1>1, <1>3, <1>4, <1>5, <1>6, <1>7, <1>11 DEF TradeNext
<1>12. CASE Next
  BY <1>2, <1>8, <1>9, <1>11, <1>12 DEF Next, Import
<1> QED BY <1>10, <1>12

(* Every transaction that is stored or restored was valid when it was made: *)
(* its quantity is positive and its columns are typed.                     *)
THEOREM LedgerInvariant == Spec => []LedgerSound
  BY LedgerStarts, LedgerSteps, PTL DEF Spec
-----------------------------------------------------------------------------
(* Of typed transactions every position is fair. *)
LEMMA SoundWithinPrices == LedgerSound => AverageWithinPrices
<1> SUFFICES ASSUME LedgerSound PROVE AverageWithinPrices
  OBVIOUS
<1> DEFINE built == BuildPositions(transactions)
<1>1. \A k \in DOMAIN built : built[k] = Calculated(transactions, OfAsset(transactions, k))
  BY DEF BuildPositions, Restrict
<1>2. ASSUME NEW k \in DOMAIN built, built[k].quantity > 0
      PROVE  Between(BuyPrices(k), built[k].cost, built[k].quantity * built[k].per)
  <2> DEFINE ids == OfAsset(transactions, k)
             p == Calculated(transactions, ids)
  <2>1. ids \in SUBSET DOMAIN transactions /\ IsTable(transactions, TradeRow)
    BY DEF OfAsset, Where, LedgerSound
  <2>2. BuyPrices(k) = Prices(transactions, ids)
    BY DEF BuyPrices, Prices
  <2>3. built[k] = p
    BY <1>1
  <2> HIDE DEF ids, built
  <2>4. p \in Fair(Prices(transactions, ids))
    BY <2>1, CalculatedFair
  <2> HIDE DEF p
  <2> QED BY <1>2, <2>2, <2>3, <2>4 DEF Fair
<1> HIDE DEF built
<1>3. \A k \in DOMAIN built : built[k].quantity > 0 =>
         Between(BuyPrices(k), built[k].cost, built[k].quantity * built[k].per)
  BY <1>2
<1> QED BY <1>3 DEF AverageWithinPrices, Between, built

(* The cost of what is left of an asset lies between the cheapest and the   *)
(* dearest purchase of it, for any trades, edits, re-rates and restores.   *)
THEOREM AverageIsWithinPrices == Spec => []AverageWithinPrices
  BY LedgerInvariant, SoundWithinPrices, PTL

(* Whatever adds transactions is a trade or an import. *)
LEMMA AddingMoves ==
    LedgerSound /\ Next /\ Adding => Moved
<1> SUFFICES ASSUME LedgerSound, Next, Adding PROVE Moved
  OBVIOUS
<1> DEFINE Kept == \A i \in DOMAIN transactions :
                      i \in DOMAIN transactions' /\ transactions'[i] = transactions[i]
<1>1. transactions' # transactions /\ Kept /\ ~Restore
  BY DEF Adding
<1>2. ASSUME NEW body \in Trades, Trade(body) PROVE Moved
  BY <1>2, TradeSound
<1>3. ASSUME NEW w \in Workbooks, NEW stops \in BOOLEAN, Import(w, stops)
      PROVE  Moved
  BY <1>3, ImportSound
<1>4. DOMAIN transactions' # DOMAIN transactions
  <2>1. ASSUME DOMAIN transactions' = DOMAIN transactions PROVE FALSE
    <3>1. IsTable(transactions, TradeRow) /\ IsTable(transactions', TradeRow)
      BY LedgerSteps DEF LedgerSound
    <3>2. /\ transactions = [i \in DOMAIN transactions |-> transactions[i]]
          /\ transactions' = [i \in DOMAIN transactions' |-> transactions'[i]]
      BY <3>1 DEF IsTable
    <3> QED BY <1>1, <2>1, <3>2
  <2> QED BY <2>1
<1>5. ASSUME NEW i \in DOMAIN transactions PROVE ~DeleteTransaction(i)
  <2>1. ASSUME DeleteTransaction(i) PROVE FALSE
    <3> DEFINE gone == {i}
    <3>1. transactions' = Without(transactions, gone) /\ i \in gone
      BY <2>1 DEF DeleteTransaction
    <3>2. IsTable(transactions, TradeRow)
      BY DEF LedgerSound
    <3> HIDE DEF gone
    <3>3. DOMAIN Without(transactions, gone) = DOMAIN transactions \ gone
      BY <3>2, WithoutRows
    <3> QED BY <1>1, <3>1, <3>3
  <2> QED BY <2>1
<1>6. ASSUME NEW i \in DOMAIN transactions
      PROVE  /\ \A time \in EditTimes : ~EditTransaction(i, time)
             /\ \A rate \in PrimaryRates : ~RerateTransaction(i, rate)
  BY <1>4, EditSound
<1>7. \A e, time : ~DeleteEvent(e) /\ ~EditEvent(e, time)
  BY <1>1 DEF DeleteEvent, EditEvent
<1>8. \A holding : ~RecordHolding(holding)
  BY <1>1 DEF RecordHolding
<1>9. ~Dedupe
  BY <1>1 DEF Dedupe
<1>10. \A a, b, c : ~MergeAssets(a, b, c)
  BY <1>1 DEF MergeAssets
<1> HIDE DEF Kept
<1>11. CASE TradeNext
  BY <1>1, <1>2, <1>5, <1>6, <1>7, <1>8, <1>11 DEF TradeNext
<1> QED BY <1>3, <1>9, <1>10, <1>11 DEF Next, Import

(* In upper case the two ways of counting agree. *)
LEMMA HeldIsHolding ==
    ASSUME NEW T, InUpperCase(T), NEW c
    PROVE  Holding(T, c) = Held(T, c)
<1> DEFINE spelled == {i \in DOMAIN T : Upper(T[i].code) = Upper(c)}
<1>1. Holding(T, c) = SumFunctionOnSet(Deltas(T), spelled)
  BY DEF Holding, Deltas, Where
<1>2. spelled = OfCode(T, c)
  BY DEF InUpperCase, OfCode
<1> HIDE DEF spelled
<1> QED BY <1>1, <1>2, HeldNames

(* No trade and no import, whatever its batch, takes a holding that was    *)
(* sound below zero, of ledgers whose codes are in upper case.              *)
THEOREM NothingUnheldIsSold == Spec => NothingSoldUnheld
<1> DEFINE Step == Adding /\ InUpperCase(transactions') => ~SoldBelowZero
<1>1. LedgerSound /\ [Next]_tradeVars => [Step]_tradeVars
  <2>1. ASSUME LedgerSound, Next, Adding, InUpperCase(transactions') PROVE ~SoldBelowZero
    <3>1. \A c : Held(transactions, c) >= 0 => Held(transactions', c) >= 0
      BY <2>1, AddingMoves DEF Moved, Covers
    <3>2. InUpperCase(transactions)
      BY <2>1 DEF Adding, InUpperCase
    <3>3. \A c : /\ Holding(transactions, c) = Held(transactions, c)
                 /\ Holding(transactions', c) = Held(transactions', c)
      BY <2>1, <3>2, HeldIsHolding
    <3>4. \A c : Held(transactions', c) \in Int
      BY <2>1, LedgerSteps, HeldInt DEF LedgerSound
    <3>5. \A c : Holding(transactions, c) >= 0 => ~(Holding(transactions', c) < 0)
      BY <3>1, <3>3, <3>4
    <3> QED BY <3>5 DEF SoldBelowZero
  <2> HIDE DEF Step
  <2>2. LedgerSound /\ Next => Step
    BY <2>1 DEF Step
  <2> QED BY <2>2
<1>2. Spec => [][Step]_tradeVars
  <2> HIDE DEF Step
  <2> QED BY <1>1, LedgerInvariant, PTL DEF Spec
<1> QED BY <1>2 DEF NothingSoldUnheld

(* A trade or an import, interrupted or not, moves the two ledgers by the   *)
(* same amounts, as long as a trade against CNY states its cost or has no  *)
(* rate but 1.                                                             *)
THEOREM LedgersMoveTogether == Spec => LedgerKeepsUp
<1> DEFINE Parity == \A i \in DOMAIN transactions' \ DOMAIN transactions : AtParity(transactions'[i])
           Step == Adding /\ Parity => \A code \in Codes' \cup {CNY} :
                     Drift(transactions', ledger', Upper(code)) = Drift(transactions, ledger, Upper(code))
<1>1. LedgerSound /\ [Next]_tradeVars => [Step]_tradeVars
  <2>1. ASSUME LedgerSound, Next, Adding, Parity, NEW c
        PROVE  Drift(transactions', ledger', c) = Drift(transactions, ledger, c)
    <3>1. KeepsUp(transactions, ledger, transactions', ledger')
      BY <2>1, AddingMoves DEF Moved
    <3>2. ParitySince(transactions, transactions')
      BY <2>1 DEF ParitySince
    <3> QED BY <3>1, <3>2 DEF KeepsUp
  <2>2. LedgerSound /\ Next => Step
    <3> HIDE DEF Parity
    <3> QED BY <2>1
  <2> HIDE DEF Step
  <2> QED BY <2>2
<1>2. Spec => [][Step]_tradeVars
  <2> HIDE DEF Step
  <2> QED BY <1>1, LedgerInvariant, PTL DEF Spec
<1> QED BY <1>2 DEF LedgerKeepsUp
===============================================================================
