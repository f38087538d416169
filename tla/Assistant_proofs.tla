---------------------------- MODULE Assistant_proofs ----------------------------
(***************************************************************************)
(* The rates that are written and shown, for any currencies, days, tables  *)
(* of the two providers and number of retries; and the conversation with   *)
(* the model, for any skills, responses and number of rounds.              *)
(***************************************************************************)
EXTENDS AgentLoop, TLAPS

-----------------------------------------------------------------------------
(* Lookups, refreshes and the sync of positions.                           *)

AnswerSet == [currency : Currencies, rate : Int, time : Int, estimated : BOOLEAN,
              source : {"PRIMARY", "FALLBACK"}]

(* What the primary source answered is what it published; and if it is not  *)
(* an estimate, for the day that was asked for.                            *)
Honest(a, day) ==
    a.source = "PRIMARY" =>
        /\ a.time \in DOMAIN Published[a.currency]
        /\ a.rate = Published[a.currency][a.time]
        /\ ~a.estimated /\ day # Nothing => a.time = day

Fields == {"kind", "record", "day", "todo", "answers", "prices", "provider", "attempt", "cache"}

Typed(q) ==
    /\ DOMAIN q = Fields
    /\ q.day \in Int \cup {Nothing}
    /\ q.todo \in Seq(Currencies)
    /\ q.answers \in Seq(AnswerSet)
    /\ q.prices \in Seq(Int)
    /\ q.cache \in [Currencies -> AnswerSet \cup {Nothing}]

(* A request's answers and its cache are honest about its day, which is     *)
(* the day of its record.                                                  *)
HonestRequest(q) ==
    /\ Typed(q)
    /\ \A n \in DOMAIN q.answers : Honest(q.answers[n], q.day)
    /\ \A c \in Currencies : q.cache[c] # Nothing => Honest(q.cache[c], q.day)
    /\ q.kind = "rerate" => q.record \in Records /\ q.day = q.record.day

TypeInv ==
    /\ stored \in Seq(AnswerSet)
    /\ costs \in [Records -> [Currencies -> Int \cup {Nothing}]]

IInv ==
    /\ TypeInv
    /\ ConfirmedRatesOnly
    /\ lookup # Nothing => HonestRequest(lookup)
-----------------------------------------------------------------------------
(* The newest day of a series up to a day is a day of the series. *)
LEMMA NewestOf ==
    ASSUME NEW series, IsSeries(series), NEW days \in SUBSET DOMAIN series, days # {}
    PROVE  Newest(days) \in days
BY DEF Newest, IsSeries

LEMMA FrankfurterHonest ==
    ASSUME NEW currency \in Currencies, NEW day \in Int \cup {Nothing},
           Frankfurter(currency, day) # Nothing
    PROVE  /\ Frankfurter(currency, day) \in AnswerSet
           /\ Honest(Frankfurter(currency, day), day)
<1> DEFINE series == Published[currency]
           days == UpTo(DOMAIN series, IF day = Nothing THEN Today ELSE day)
           found == Newest(days)
           late == day # Nothing /\ found # day
<1>1. IsSeries(series)
  BY SeriesAssumption
<1>2. days \in SUBSET DOMAIN series /\ days # {}
  BY DEF Frankfurter, UpTo
<1>3. found \in DOMAIN series
  BY <1>1, <1>2, NewestOf
<1>4. found \in Int /\ series[found] \in Int
  BY <1>1, <1>3 DEF IsSeries
<1>5. Frankfurter(currency, day) = Answer(currency, series[found], found, late, "PRIMARY")
  BY <1>2 DEF Frankfurter
<1>6. late \in BOOLEAN
  OBVIOUS
<1> HIDE DEF series, days, found, late
<1>7. Answer(currency, series[found], found, late, "PRIMARY") \in AnswerSet
  BY <1>4, <1>6 DEF Answer, AnswerSet
<1>8. ~late /\ day # Nothing => found = day
  BY DEF late
<1>9. Honest(Answer(currency, series[found], found, late, "PRIMARY"), day)
  BY <1>3, <1>8 DEF Answer, Honest, series
<1> QED
  BY <1>5, <1>7, <1>9

LEMMA StaticHonest ==
    ASSUME NEW currency \in Currencies, NEW day \in Int \cup {Nothing},
           Static(currency, day) # Nothing
    PROVE  /\ Static(currency, day) \in AnswerSet
           /\ Honest(Static(currency, day), day)
<1> DEFINE series == StaticTable[currency]
           target == IF day = Nothing THEN Today ELSE day
           prior == UpTo(DOMAIN series, target)
           days == IF prior = {} THEN DOMAIN series ELSE prior
           found == Newest(days)
           late == found # target
<1>1. IsSeries(series)
  BY SeriesAssumption
<1>2. DOMAIN series # {}
  BY DEF Static
<1>3. days \in SUBSET DOMAIN series /\ days # {}
  BY <1>2 DEF UpTo
<1>4. found \in DOMAIN series
  BY <1>1, <1>3, NewestOf
<1>5. found \in Int /\ series[found] \in Int
  BY <1>1, <1>4 DEF IsSeries
<1>6. Static(currency, day) = Answer(currency, series[found], found, late, "FALLBACK")
  BY <1>2 DEF Static
<1>7. late \in BOOLEAN
  OBVIOUS
<1> HIDE DEF series, target, prior, days, found, late
<1>8. Answer(currency, series[found], found, late, "FALLBACK") \in AnswerSet
  BY <1>5, <1>7 DEF Answer, AnswerSet
<1>9. Honest(Answer(currency, series[found], found, late, "FALLBACK"), day)
  BY DEF Answer, Honest
<1> QED
  BY <1>6, <1>8, <1>9
-----------------------------------------------------------------------------
(* What the steps of a lookup make of an honest request. *)
LEMMA AnsweredHonest ==
    ASSUME NEW q, HonestRequest(q), q.todo # <<>>,
           NEW a \in AnswerSet, Honest(a, q.day)
    PROVE  /\ HonestRequest(Answered(q, a))
           /\ HonestRequest(Found(q, a))
<1> USE DEF Typed, Fields
<1>1. Typed(q) /\ Tail(q.todo) \in Seq(Currencies)
  BY DEF HonestRequest
<1>2. Append(q.answers, a) \in Seq(AnswerSet) /\ Append(q.prices, a.rate) \in Seq(Int)
  BY <1>1 DEF AnswerSet
<1>3. \A n \in DOMAIN Append(q.answers, a) : Honest(Append(q.answers, a)[n], q.day)
  BY <1>1 DEF HonestRequest
<1> DEFINE r == Answered(q, a)
<1>4. Typed(r)
  BY <1>1, <1>2 DEF Answered
<1>0. /\ r.answers = Append(q.answers, a) /\ r.cache = q.cache /\ r.day = q.day
      /\ r.kind = q.kind /\ r.record = q.record
  BY <1>1 DEF Answered
<1> HIDE DEF r
<1>10. HonestRequest(r)
  BY <1>0, <1>3, <1>4 DEF HonestRequest
<1>5. Found(q, a) = [Answered(q, a) EXCEPT !.cache = [q.cache EXCEPT ![a.currency] = a]]
  BY <1>1 DEF Found, Answered
<1>6. /\ [q.cache EXCEPT ![a.currency] = a] \in [Currencies -> AnswerSet \cup {Nothing}]
      /\ \A c \in Currencies : [q.cache EXCEPT ![a.currency] = a][c] # Nothing
            => Honest([q.cache EXCEPT ![a.currency] = a][c], q.day)
  BY <1>1 DEF HonestRequest, AnswerSet
<1>7. Answered(q, a).day = q.day
  BY <1>1 DEF Answered
<1>8. HonestRequest(Found(q, a))
  BY <1>4, <1>10, <1>5, <1>6, <1>7 DEF HonestRequest, r
<1> QED
  BY <1>10, <1>8 DEF r

LEMMA RaisedHonest ==
    ASSUME NEW q, HonestRequest(q), q.todo # <<>>, NEW retryable \in BOOLEAN
    PROVE  HonestRequest(Raised(q, retryable))
<1>1. Typed(q)
  BY DEF HonestRequest
<1>2. ASSUME NEW r, Typed(r),
             r.answers = q.answers, r.cache = q.cache, r.day = q.day,
             r.kind = q.kind, r.record = q.record
      PROVE  HonestRequest(r)
  BY <1>2 DEF HonestRequest
<1>3. HonestRequest([q EXCEPT !.attempt = @ + 1])
  <2> DEFINE r == [q EXCEPT !.attempt = @ + 1]
  <2>1. Typed(r)
    BY <1>1 DEF Typed, Fields
  <2>2. /\ r.answers = q.answers /\ r.cache = q.cache /\ r.day = q.day
        /\ r.kind = q.kind /\ r.record = q.record
    BY <1>1 DEF Typed, Fields
  <2> HIDE DEF r
  <2>3. HonestRequest(r)
    BY <1>2, <2>1, <2>2
  <2> QED
    BY <2>3 DEF r
<1>4. HonestRequest([q EXCEPT !.provider = "FALLBACK", !.attempt = 1])
  <2> DEFINE r == [q EXCEPT !.provider = "FALLBACK", !.attempt = 1]
  <2>1. Typed(r)
    BY <1>1 DEF Typed, Fields
  <2>2. /\ r.answers = q.answers /\ r.cache = q.cache /\ r.day = q.day
        /\ r.kind = q.kind /\ r.record = q.record
    BY <1>1 DEF Typed, Fields
  <2> HIDE DEF r
  <2>3. HonestRequest(r)
    BY <1>2, <2>1, <2>2
  <2> QED
    BY <2>3 DEF r
<1>5. HonestRequest(Unavailable(q))
  <2> DEFINE r == Unavailable(q)
  <2>1. Tail(q.todo) \in Seq(Currencies) /\ Append(q.prices, Placeholder) \in Seq(Int)
    BY <1>1 DEF Typed, Fields, Placeholder
  <2>2. Typed(r)
    BY <1>1, <2>1 DEF Typed, Fields, Unavailable
  <2>3. /\ r.answers = q.answers /\ r.cache = q.cache /\ r.day = q.day
        /\ r.kind = q.kind /\ r.record = q.record
    BY <1>1 DEF Typed, Fields, Unavailable
  <2> HIDE DEF r
  <2>4. HonestRequest(r)
    BY <1>2, <2>2, <2>3
  <2> QED
    BY <2>4 DEF r
<1> QED
  BY <1>3, <1>4, <1>5 DEF Raised

LEMMA NewRequestHonest ==
    ASSUME NEW kind \in {"refresh", "rerate", "sync"}, NEW record \in Records \cup Lists \cup {Nothing},
           NEW day \in Int \cup {Nothing}, NEW todo \in Seq(Currencies),
           kind = "rerate" => record \in Records /\ day = record.day
    PROVE  HonestRequest(Request(kind, record, day, todo))
BY DEF HonestRequest, Typed, Fields, Request
-----------------------------------------------------------------------------
(* The initial state has no rates and no request. *)
LEMMA InitHonest == RatesInit => IInv
<1> SUFFICES ASSUME RatesInit PROVE IInv
  OBVIOUS
<1>1. TypeInv
  BY DEF RatesInit, TypeInv
<1>2. ConfirmedRatesOnly
  BY DEF RatesInit, ConfirmedRatesOnly
<1> QED
  BY <1>1, <1>2 DEF RatesInit, IInv

(* Every action keeps IInv. *)
LEMMA NextHonest == IInv /\ [RatesNext]_rateVars => IInv'
<1> SUFFICES ASSUME IInv, [RatesNext]_rateVars PROVE IInv'
  OBVIOUS
<1> DEFINE Kept == UNCHANGED <<stored, costs>>
<1>1. Kept => TypeInv' /\ ConfirmedRatesOnly'
  BY DEF IInv, TypeInv, ConfirmedRatesOnly
<1>2. CASE Refresh
  <2>1. PICK todo \in Lists : Serve(Request("refresh", Nothing, Nothing, todo))
    BY <1>2 DEF Refresh
  <2>2. HonestRequest(lookup')
    BY <2>1, ListsAssumption, NewRequestHonest DEF Serve
  <2> QED
    BY <1>1, <2>1, <2>2 DEF Serve, IInv
<1>3. CASE Rerate
  <2>1. PICK r \in Records, todo \in Lists : Serve(Request("rerate", r, r.day, todo))
    BY <1>3 DEF Rerate
  <2>2. HonestRequest(lookup')
    BY <2>1, ListsAssumption, RecordsAssumption, NewRequestHonest DEF Serve
  <2> QED
    BY <1>1, <2>1, <2>2 DEF Serve, IInv
<1>4. CASE SyncPositions
  <2>1. PICK todo \in Lists : Serve(Request("sync", todo, Nothing, todo \o todo))
    BY <1>4 DEF SyncPositions
  <2>2. todo \o todo \in Seq(Currencies)
    BY <2>1, ListsAssumption
  <2>3. HonestRequest(lookup')
    BY <2>1, <2>2, NewRequestHonest DEF Serve
  <2> QED
    BY <1>1, <2>1, <2>3 DEF Serve, IInv
<1>5. CASE CacheHit
  <2> DEFINE c == Head(lookup.todo)
  <2>1. HonestRequest(lookup) /\ lookup.todo # <<>>
    BY <1>5 DEF CacheHit, Asking, IInv
  <2>2. c \in Currencies
    BY <2>1 DEF HonestRequest, Typed, Fields
  <2>3. lookup.cache[c] \in AnswerSet /\ Honest(lookup.cache[c], lookup.day)
    BY <1>5, <2>1, <2>2 DEF CacheHit, HonestRequest, Typed, Fields
  <2>4. HonestRequest(lookup')
    BY <1>5, <2>1, <2>3, AnsweredHonest DEF CacheHit
  <2> QED
    BY <1>1, <1>5, <2>4 DEF CacheHit, IInv
<1>6. CASE Fetched
  <2> DEFINE c == Head(lookup.todo)
             answer == IF lookup.provider = "PRIMARY" THEN Frankfurter(c, lookup.day)
                                                      ELSE Static(c, lookup.day)
  <2>1. HonestRequest(lookup) /\ lookup.todo # <<>>
    BY <1>6 DEF Fetched, Asking, IInv
  <2>2. c \in Currencies /\ lookup.day \in Int \cup {Nothing}
    BY <2>1 DEF HonestRequest, Typed, Fields
  <2>3. CASE answer = Nothing
    <3>1. lookup' = Raised(lookup, FALSE)
      BY <1>6, <2>3 DEF Fetched
    <3> QED
      BY <1>1, <1>6, <2>1, <3>1, RaisedHonest DEF Fetched, IInv
  <2>4. CASE answer # Nothing
    <3>1. answer \in AnswerSet /\ Honest(answer, lookup.day)
      BY <2>2, <2>4, FrankfurterHonest, StaticHonest
    <3>2. lookup' = Found(lookup, answer)
      BY <1>6, <2>4 DEF Fetched
    <3>3. HonestRequest(lookup')
      BY <2>1, <3>1, <3>2, AnsweredHonest
    <3> QED
      BY <1>1, <1>6, <3>3 DEF Fetched, IInv
  <2> QED
    BY <2>3, <2>4
<1>7. CASE Unreachable
  <2>1. HonestRequest(lookup) /\ lookup.todo # <<>>
    BY <1>7 DEF Unreachable, Asking, IInv
  <2> QED
    BY <1>1, <1>7, <2>1, RaisedHonest DEF Unreachable, IInv
<1>8. CASE StoreRates
  <2>1. HonestRequest(lookup) /\ lookup' = Nothing /\ UNCHANGED costs
    BY <1>8 DEF StoreRates, Served, IInv
  <2>2. lookup.answers \in Seq(AnswerSet)
    BY <2>1 DEF HonestRequest, Typed, Fields
  <2>3. stored' = stored \o lookup.answers /\ stored \in Seq(AnswerSet)
    BY <1>8 DEF StoreRates, IInv, TypeInv
  <2>4. TypeInv'
    BY <2>1, <2>2, <2>3 DEF IInv, TypeInv
  <2>5. ASSUME NEW n \in DOMAIN stored', stored'[n].source = "PRIMARY"
        PROVE  /\ stored'[n].time \in DOMAIN Published[stored'[n].currency]
               /\ stored'[n].rate = Published[stored'[n].currency][stored'[n].time]
    <3>1. CASE n \in DOMAIN stored
      BY <2>2, <2>3, <2>5, <3>1 DEF IInv, ConfirmedRatesOnly
    <3>2. CASE n \notin DOMAIN stored
      <4>1. /\ n - Len(stored) \in DOMAIN lookup.answers
            /\ stored'[n] = lookup.answers[n - Len(stored)]
        BY <2>2, <2>3, <3>2
      <4> QED
        BY <2>1, <2>5, <4>1 DEF HonestRequest, Honest
    <3> QED
      BY <3>1, <3>2
  <2>6. ConfirmedRatesOnly'
    BY <2>1, <2>5 DEF IInv, ConfirmedRatesOnly
  <2> QED
    BY <2>1, <2>4, <2>6 DEF IInv
<1>9. CASE StoreCosts
  <2> DEFINE good == Confirmed(lookup.answers)
             r0 == lookup.record
  <2>1. /\ HonestRequest(lookup) /\ lookup.kind = "rerate" /\ lookup' = Nothing
        /\ UNCHANGED stored
    BY <1>9 DEF StoreCosts, Served, IInv
  <2>2. r0 \in Records /\ lookup.day = r0.day /\ r0.day # Nothing
    BY <2>1, RecordsAssumption DEF HonestRequest
  <2>3. ASSUME NEW a \in good
        PROVE  /\ a \in AnswerSet
               /\ r0.day \in DOMAIN Published[a.currency]
               /\ a.rate = Published[a.currency][r0.day]
    <3>1. PICK n \in DOMAIN lookup.answers : a = lookup.answers[n]
      BY <2>3 DEF Confirmed
    <3>2. a.source = "PRIMARY" /\ ~a.estimated
      BY <2>3 DEF Confirmed
    <3>3. a \in AnswerSet /\ Honest(a, lookup.day)
      BY <2>1, <3>1 DEF HonestRequest, Typed, Fields
    <3> QED
      BY <2>2, <3>2, <3>3 DEF Honest
  <2> DEFINE Written(c) == IF \E a \in good : a.currency = c
                           THEN (CHOOSE a \in good : a.currency = c).rate
                           ELSE costs[r0][c]
  <2>4. costs' = [costs EXCEPT ![r0] = [c \in Currencies |-> Written(c)]]
    BY <1>9 DEF StoreCosts
  <2>5. ASSUME NEW c \in Currencies
        PROVE  /\ Written(c) \in Int \cup {Nothing}
               /\ Written(c) # Nothing =>
                    r0.day \in DOMAIN Published[c] /\ Written(c) = Published[c][r0.day]
    <3>1. CASE \E a \in good : a.currency = c
      <4>1. PICK a \in good : a.currency = c /\ a = CHOOSE b \in good : b.currency = c
        BY <3>1
      <4>2. Written(c) = a.rate
        BY <3>1, <4>1
      <4> HIDE DEF good, Written
      <4> QED
        BY <2>3, <4>1, <4>2 DEF AnswerSet
    <3>2. CASE ~ \E a \in good : a.currency = c
      <4>1. Written(c) = costs[r0][c]
        BY <3>2
      <4> HIDE DEF good, Written
      <4> QED
        BY <2>2, <4>1 DEF IInv, TypeInv, ConfirmedRatesOnly
    <3> QED
      BY <3>1, <3>2
  <2> HIDE DEF Written, good
  <2>6. costs \in [Records -> [Currencies -> Int \cup {Nothing}]]
    BY DEF IInv, TypeInv
  <2>7. [c \in Currencies |-> Written(c)] \in [Currencies -> Int \cup {Nothing}]
    BY <2>5
  <2>8. TypeInv'
    BY <2>1, <2>2, <2>4, <2>6, <2>7 DEF IInv, TypeInv
  <2>9. ASSUME NEW r \in Records, NEW c \in Currencies, costs'[r][c] # Nothing
        PROVE  r.day \in DOMAIN Published[c] /\ costs'[r][c] = Published[c][r.day]
    <3>1. CASE r = r0
      BY <2>2, <2>4, <2>5, <2>6, <2>9, <3>1
    <3>2. CASE r # r0
      BY <2>2, <2>4, <2>6, <2>9, <3>2 DEF IInv, ConfirmedRatesOnly
    <3> QED
      BY <3>1, <3>2
  <2>10. ConfirmedRatesOnly'
    BY <2>1, <2>9 DEF IInv, ConfirmedRatesOnly
  <2> QED
    BY <2>1, <2>8, <2>10 DEF IInv
<1>10. CASE StorePositions
  BY <1>1, <1>10 DEF StorePositions, Served, IInv
<1>11. CASE UNCHANGED rateVars
  BY <1>1, <1>11 DEF rateVars, IInv
<1> QED
  BY <1>2, <1>3, <1>4, <1>5, <1>6, <1>7, <1>8, <1>9, <1>10, <1>11 DEF RatesNext, Lookup

(* For all currencies, days and tables of the providers, however often the  *)
(* primary source fails: historical-rate writes only what the primary      *)
(* source published for the record's day.                                  *)
THEOREM ConfirmedRates == RatesSpec => []ConfirmedRatesOnly
<1>1. IInv => ConfirmedRatesOnly
  BY DEF IInv
<1> QED
  BY <1>1, InitHonest, NextHonest, PTL DEF RatesSpec
-----------------------------------------------------------------------------
(* Of a sync: what it has asked for so far is the beginning of its list of  *)
(* currencies taken twice, every price but the placeholder is in the cache *)
(* and every later price of that currency is the same.                     *)
PricedAlike(asked, todo, prices, cache) ==
    /\ Len(prices) + Len(todo) = Len(asked)
    /\ \A k \in 1 .. Len(todo) : todo[k] = asked[Len(prices) + k]
    /\ \A k \in 1 .. Len(prices) : prices[k] # Placeholder =>
          cache[asked[k]] # Nothing /\ cache[asked[k]].rate = prices[k]
    /\ \A k, n \in 1 .. Len(prices) :
          k < n /\ asked[k] = asked[n] /\ prices[k] # Placeholder => prices[n] = prices[k]

SyncSound(q) ==
    /\ q.record \in Lists
    /\ PricedAlike(q.record \o q.record, q.todo, q.prices, q.cache)

SyncInv ==
    /\ IInv
    /\ lookup # Nothing /\ lookup.kind = "sync" => SyncSound(lookup)
    /\ PricedAsShown

(* One more price p: the cache keeps what it has, p is the cached rate of   *)
(* its currency if there is one, and the cache has p unless it is the      *)
(* placeholder.                                                            *)
LEMMA OneMorePrice ==
    ASSUME NEW q, NEW r, NEW p \in Int, NEW asked \in Seq(Currencies),
           Typed(q), q.todo # <<>>, PricedAlike(asked, q.todo, q.prices, q.cache),
           r.todo = Tail(q.todo), r.prices = Append(q.prices, p),
           \A c \in Currencies : q.cache[c] # Nothing => r.cache[c] = q.cache[c],
           p # Placeholder => r.cache[Head(q.todo)] # Nothing /\ r.cache[Head(q.todo)].rate = p,
           q.cache[Head(q.todo)] # Nothing => p = q.cache[Head(q.todo)].rate
    PROVE  PricedAlike(asked, r.todo, r.prices, r.cache)
<1> DEFINE done == Len(q.prices)
           left == Len(q.todo)
           c0 == Head(q.todo)
<1>1. /\ done \in Nat
      /\ q.todo \in Seq(Currencies) /\ left \in Nat \ {0} /\ q.prices \in Seq(Int)
  BY DEF Typed
<1>2. /\ done + left = Len(asked)
      /\ \A k \in 1 .. left : q.todo[k] = asked[done + k]
      /\ \A k \in 1 .. done : q.prices[k] # Placeholder =>
            q.cache[asked[k]] # Nothing /\ q.cache[asked[k]].rate = q.prices[k]
      /\ \A k, n \in 1 .. done :
            k < n /\ asked[k] = asked[n] /\ q.prices[k] # Placeholder => q.prices[n] = q.prices[k]
  BY DEF PricedAlike
<1>4. /\ Len(r.prices) = done + 1 /\ r.prices[done + 1] = p
      /\ \A k \in 1 .. done : r.prices[k] = q.prices[k]
      /\ Len(r.todo) = left - 1
      /\ \A k \in 1 .. left - 1 : r.todo[k] = q.todo[k + 1]
  BY <1>1
<1>10. 1 \in 1 .. left /\ c0 = q.todo[1] /\ q.todo[1] \in Currencies
  BY <1>1
<1> HIDE DEF done, left
<1>3. c0 = asked[done + 1] /\ c0 \in Currencies
  BY <1>2, <1>10
<1>5. \A k \in 1 .. done + 1 : asked[k] \in Currencies
  <2>1. done \in Nat /\ left \in Nat \ {0} /\ done + left = Len(asked)
    BY <1>1, <1>2
  <2>2. done + 1 <= Len(asked)
    BY <2>1
  <2> QED
    BY <1>1, <2>2
<1>6. /\ done + 1 + Len(r.todo) = Len(asked)
      /\ \A k \in 1 .. Len(r.todo) : r.todo[k] = asked[done + 1 + k]
  <2>1. done \in Nat /\ left \in Nat /\ done + left = Len(asked) /\ Len(r.todo) = left - 1
    BY <1>1, <1>2, <1>4
  <2>2. ASSUME NEW k \in 1 .. left - 1 PROVE r.todo[k] = asked[done + 1 + k]
    <3>1. k + 1 \in 1 .. left /\ done + (k + 1) = done + 1 + k
      BY <2>1
    <3> QED
      BY <1>2, <1>4, <3>1
  <2> DEFINE rest == Len(r.todo)
             all == Len(asked)
  <2>4. rest = left - 1 /\ all = done + left
    BY <2>1
  <2> HIDE DEF rest, all
  <2>5. done + 1 + rest = all
    BY <2>1, <2>4
  <2>3. done + 1 + Len(r.todo) = Len(asked)
    BY <2>5 DEF rest, all
  <2> QED
    BY <2>1, <2>2, <2>3
<1>7. ASSUME NEW k \in 1 .. done + 1, r.prices[k] # Placeholder
      PROVE  r.cache[asked[k]] # Nothing /\ r.cache[asked[k]].rate = r.prices[k]
  <2>1. CASE k = done + 1
    BY <1>3, <1>4, <1>7, <2>1
  <2>2. CASE k # done + 1
    <3>1. k \in 1 .. done /\ q.prices[k] = r.prices[k]
      BY <1>1, <1>4, <2>2
    <3> QED
      BY <1>2, <1>5, <1>7, <3>1
  <2> QED
    BY <2>1, <2>2
<1>8. ASSUME NEW k \in 1 .. done + 1, NEW n \in 1 .. done + 1, k < n,
             asked[k] = asked[n], r.prices[k] # Placeholder
      PROVE  r.prices[n] = r.prices[k]
  <2>1. k \in 1 .. done /\ q.prices[k] = r.prices[k]
    BY <1>1, <1>4, <1>8
  <2>2. CASE n = done + 1
    <3>1. asked[k] = c0 /\ q.prices[k] # Placeholder
      BY <1>3, <1>8, <2>1, <2>2
    <3>2. q.cache[c0] # Nothing /\ q.cache[c0].rate = q.prices[k]
      BY <1>2, <2>1, <3>1
    <3> QED
      BY <1>4, <2>1, <2>2, <3>2 DEF c0
  <2>3. CASE n # done + 1
    <3>1. n \in 1 .. done
      BY <1>1, <2>3
    <3> QED
      BY <1>2, <1>4, <1>8, <2>1, <3>1
  <2> QED
    BY <2>2, <2>3
<1>11. /\ \A k \in 1 .. Len(r.prices) : r.prices[k] # Placeholder =>
            r.cache[asked[k]] # Nothing /\ r.cache[asked[k]].rate = r.prices[k]
       /\ \A k, n \in 1 .. Len(r.prices) :
            k < n /\ asked[k] = asked[n] /\ r.prices[k] # Placeholder =>
               r.prices[n] = r.prices[k]
  BY <1>4, <1>7, <1>8
<1>12. /\ Len(r.prices) + Len(r.todo) = Len(asked)
       /\ \A k \in 1 .. Len(r.todo) : r.todo[k] = asked[Len(r.prices) + k]
  BY <1>4, <1>6
<1> QED
  BY <1>11, <1>12 DEF PricedAlike

LEMMA RaisedSync ==
    ASSUME NEW q, Typed(q), q.todo # <<>>, SyncSound(q), NEW retryable \in BOOLEAN,
           q.cache[Head(q.todo)] = Nothing
    PROVE  SyncSound(Raised(q, retryable))
<1>1. ASSUME NEW r, r.record = q.record, r.todo = q.todo, r.prices = q.prices, r.cache = q.cache
      PROVE  SyncSound(r)
  BY <1>1 DEF SyncSound
<1>5. q.record \o q.record \in Seq(Currencies) /\ PricedAlike(q.record \o q.record, q.todo, q.prices, q.cache)
  BY ListsAssumption DEF SyncSound
<1>2. SyncSound([q EXCEPT !.attempt = @ + 1])
  <2> DEFINE r == [q EXCEPT !.attempt = @ + 1]
  <2>1. r.record = q.record /\ r.todo = q.todo /\ r.prices = q.prices /\ r.cache = q.cache
    BY DEF Typed, Fields
  <2> HIDE DEF r
  <2>2. SyncSound(r)
    BY <1>1, <2>1
  <2> QED
    BY <2>2 DEF r
<1>3. SyncSound([q EXCEPT !.provider = "FALLBACK", !.attempt = 1])
  <2> DEFINE r == [q EXCEPT !.provider = "FALLBACK", !.attempt = 1]
  <2>1. r.record = q.record /\ r.todo = q.todo /\ r.prices = q.prices /\ r.cache = q.cache
    BY DEF Typed, Fields
  <2> HIDE DEF r
  <2>2. SyncSound(r)
    BY <1>1, <2>1
  <2> QED
    BY <2>2 DEF r
<1>4. SyncSound(Unavailable(q))
  <2> DEFINE r == Unavailable(q)
  <2>1. /\ r.record = q.record /\ r.todo = Tail(q.todo)
        /\ r.prices = Append(q.prices, Placeholder) /\ r.cache = q.cache
    BY DEF Typed, Fields, Unavailable
  <2>2. Placeholder \in Int
    BY DEF Placeholder
  <2> HIDE DEF r
  <2>3. SyncSound(r)
    BY <1>5, <2>1, <2>2, OneMorePrice DEF SyncSound
  <2> QED
    BY <2>3 DEF r
<1> QED
  BY <1>2, <1>3, <1>4 DEF Raised

(* Every action keeps SyncInv. *)
LEMMA NextSync == SyncInv /\ [RatesNext]_rateVars => SyncInv'
<1> SUFFICES ASSUME SyncInv, [RatesNext]_rateVars PROVE SyncInv'
  OBVIOUS
<1>1. IInv /\ IInv'
  BY NextHonest DEF SyncInv
<1>2. ASSUME UNCHANGED positions, lookup' # Nothing /\ lookup'.kind = "sync" => SyncSound(lookup')
      PROVE  SyncInv'
  BY <1>1, <1>2 DEF SyncInv, PricedAsShown
<1>3. CASE Refresh
  <2>1. PICK todo \in Lists : Serve(Request("refresh", Nothing, Nothing, todo))
    BY <1>3 DEF Refresh
  <2>2. lookup'.kind = "refresh"
    BY <2>1 DEF Serve, Request
  <2> QED
    BY <1>2, <2>1, <2>2 DEF Serve
<1>4. CASE Rerate
  <2>1. PICK r \in Records, todo \in Lists : Serve(Request("rerate", r, r.day, todo))
    BY <1>4 DEF Rerate
  <2>2. lookup'.kind = "rerate"
    BY <2>1 DEF Serve, Request
  <2> QED
    BY <1>2, <2>1, <2>2 DEF Serve
<1>5. CASE SyncPositions
  <2>1. PICK todo \in Lists : Serve(Request("sync", todo, Nothing, todo \o todo))
    BY <1>5 DEF SyncPositions
  <2>2. /\ lookup'.record = todo /\ lookup'.todo = todo \o todo
        /\ lookup'.prices = <<>>
    BY <2>1 DEF Serve, Request
  <2>3. todo \o todo \in Seq(Currencies)
    BY <2>1, ListsAssumption
  <2>4. ASSUME NEW asked \in Seq(Currencies), lookup'.todo = asked
        PROVE  PricedAlike(asked, lookup'.todo, lookup'.prices, lookup'.cache)
    BY <2>2, <2>4 DEF PricedAlike
  <2>5. SyncSound(lookup')
    BY <2>1, <2>2, <2>3, <2>4 DEF SyncSound
  <2> QED
    BY <1>2, <2>1, <2>5 DEF Serve
<1>6. ASSUME Asking, lookup.kind = "sync"
      PROVE  /\ Typed(lookup) /\ HonestRequest(lookup) /\ lookup.todo # <<>> /\ SyncSound(lookup)
             /\ Head(lookup.todo) \in Currencies
             /\ lookup.record \o lookup.record \in Seq(Currencies)
  <2>1. HonestRequest(lookup) /\ lookup.todo # <<>> /\ SyncSound(lookup)
    BY <1>6 DEF Asking, SyncInv, IInv
  <2>2. Typed(lookup)
    BY <2>1 DEF HonestRequest
  <2>3. Head(lookup.todo) \in Currencies
    BY <2>1, <2>2 DEF Typed
  <2>4. lookup.record \o lookup.record \in Seq(Currencies)
    BY <2>1, ListsAssumption DEF SyncSound
  <2> QED
    BY <2>1, <2>2, <2>3, <2>4
<1>7. ASSUME Asking, NEW retryable \in BOOLEAN, lookup' = Raised(lookup, retryable),
             lookup.cache[Head(lookup.todo)] = Nothing, UNCHANGED positions
      PROVE  SyncInv'
  <2>1. CASE lookup.kind = "sync"
    BY <1>2, <1>6, <1>7, <2>1, RaisedSync
  <2>2. CASE lookup.kind # "sync"
    <3>1. Typed(lookup)
      BY <1>7 DEF Asking, SyncInv, IInv, HonestRequest
    <3>2. lookup'.kind = lookup.kind
      BY <1>7, <3>1 DEF Raised, Unavailable, Typed, Fields
    <3> QED
      BY <1>2, <1>7, <2>2, <3>2
  <2> QED
    BY <2>1, <2>2
<1>8. CASE CacheHit
  <2> DEFINE a == lookup.cache[Head(lookup.todo)]
  <2>1. Asking /\ a # Nothing /\ lookup' = Answered(lookup, a) /\ UNCHANGED positions
    BY <1>8 DEF CacheHit
  <2>2. Typed(lookup)
    BY <2>1 DEF Asking, SyncInv, IInv, HonestRequest
  <2>3. /\ lookup'.kind = lookup.kind /\ lookup'.record = lookup.record
        /\ lookup'.todo = Tail(lookup.todo) /\ lookup'.prices = Append(lookup.prices, a.rate)
        /\ lookup'.cache = lookup.cache
    BY <2>1, <2>2 DEF Answered, Typed, Fields
  <2>4. ASSUME lookup.kind = "sync" PROVE SyncSound(lookup')
    <3>1. a \in AnswerSet /\ a.rate \in Int
      BY <1>6, <2>1, <2>2, <2>4 DEF Typed, AnswerSet
    <3>2. PricedAlike(lookup.record \o lookup.record, lookup.todo, lookup.prices, lookup.cache) /\ lookup.record \in Lists
      BY <1>6, <2>1, <2>4 DEF SyncSound
    <3>3. PricedAlike(lookup.record \o lookup.record, lookup'.todo, lookup'.prices, lookup'.cache)
      BY <1>6, <2>1, <2>3, <2>4, <3>1, <3>2, OneMorePrice
    <3> QED
      BY <2>3, <3>2, <3>3 DEF SyncSound
  <2> QED
    BY <1>2, <2>1, <2>3, <2>4
<1>9. CASE Fetched
  <2> DEFINE c == Head(lookup.todo)
             answer == IF lookup.provider = "PRIMARY" THEN Frankfurter(c, lookup.day)
                                                      ELSE Static(c, lookup.day)
  <2>1. Asking /\ lookup.cache[c] = Nothing /\ UNCHANGED positions
    BY <1>9 DEF Fetched
  <2>2. CASE answer = Nothing
    <3>1. lookup' = Raised(lookup, FALSE)
      BY <1>9, <2>2 DEF Fetched
    <3> QED
      BY <1>7, <2>1, <3>1
  <2>3. CASE answer # Nothing
    <3>1. lookup' = Found(lookup, answer)
      BY <1>9, <2>3 DEF Fetched
    <3>2. HonestRequest(lookup) /\ Typed(lookup) /\ lookup.todo # <<>>
      BY <2>1 DEF Asking, SyncInv, IInv, HonestRequest
    <3>3. c \in Currencies /\ lookup.day \in Int \cup {Nothing}
      BY <3>2 DEF Typed
    <3>4. answer \in AnswerSet
      BY <2>3, <3>3, FrankfurterHonest, StaticHonest
    <3>5. answer.currency = c
      BY <2>3 DEF Frankfurter, Static, Answer
    <3> HIDE DEF answer
    <3>6. /\ lookup'.kind = lookup.kind /\ lookup'.record = lookup.record
          /\ lookup'.todo = Tail(lookup.todo) /\ lookup'.prices = Append(lookup.prices, answer.rate)
          /\ lookup'.cache = [lookup.cache EXCEPT ![c] = answer]
      BY <3>1, <3>2, <3>5 DEF Found, Answered, Typed, Fields
    <3>7. ASSUME lookup.kind = "sync" PROVE SyncSound(lookup')
      <4>1. answer.rate \in Int
        BY <3>4 DEF AnswerSet
      <4>2. /\ lookup'.cache[c] = answer
            /\ \A d \in Currencies : lookup.cache[d] # Nothing => lookup'.cache[d] = lookup.cache[d]
        BY <2>1, <3>2, <3>3, <3>6 DEF Typed
      <4>3. PricedAlike(lookup.record \o lookup.record, lookup.todo, lookup.prices, lookup.cache) /\ lookup.record \in Lists
        BY <1>6, <2>1, <3>7 DEF SyncSound
      <4>4. answer # Nothing
        BY <2>3 DEF answer
      <4>5. PricedAlike(lookup.record \o lookup.record, lookup'.todo, lookup'.prices, lookup'.cache)
        BY <1>6, <2>1, <3>2, <3>6, <3>7, <4>1, <4>2, <4>3, <4>4, OneMorePrice
      <4> QED
        BY <3>6, <4>3, <4>5 DEF SyncSound
    <3> QED
      BY <1>2, <2>1, <3>6, <3>7
  <2> QED
    BY <2>2, <2>3
<1>10. CASE Unreachable
  <2>1. PICK retryable \in BOOLEAN : lookup' = Raised(lookup, retryable)
    BY <1>10 DEF Unreachable
  <2> QED
    BY <1>7, <1>10, <2>1 DEF Unreachable
<1>11. CASE StoreRates \/ StoreCosts
  BY <1>2, <1>11 DEF StoreRates, StoreCosts, Served
<1>12. CASE StorePositions
  <2> DEFINE held == lookup.record
             prices == lookup.prices
             at(c) == CHOOSE k \in DOMAIN held : held[k] = c
             asked == held \o held
  <2>1. /\ lookup # Nothing /\ lookup.kind = "sync" /\ lookup.todo = <<>> /\ lookup' = Nothing
        /\ positions' = [c \in {held[n] : n \in DOMAIN held} |->
                             [valued |-> prices[at(c)], current |-> prices[Len(held) + at(c)]]]
    BY <1>12 DEF StorePositions, Served
  <2>2. held \in Seq(Currencies) /\ PricedAlike(asked, lookup.todo, prices, lookup.cache)
    BY <2>1, ListsAssumption DEF SyncInv, SyncSound
  <2>3. /\ Len(prices) = Len(held) + Len(held)
        /\ \A k, n \in 1 .. Len(prices) :
              k < n /\ asked[k] = asked[n] /\ prices[k] # Placeholder => prices[n] = prices[k]
    <3>1. Len(asked) = Len(held) + Len(held) /\ Len(lookup.todo) = 0
      BY <2>1, <2>2
    <3>2. Len(prices) \in Nat
      BY <2>1 DEF SyncInv, IInv, HonestRequest, Typed
    <3>3. Len(prices) = Len(held) + Len(held)
      BY <2>2, <3>1, <3>2 DEF PricedAlike
    <3> QED
      BY <2>2, <3>3 DEF PricedAlike
  <2>4. ASSUME NEW c \in DOMAIN positions', positions'[c].current # positions'[c].valued
        PROVE  positions'[c].valued = Placeholder
    <3>1. at(c) \in 1 .. Len(held) /\ held[at(c)] = c
      BY <2>1, <2>2, <2>4
    <3> HIDE DEF at
    <3> DEFINE k == at(c)
               n == Len(held) + at(c)
    <3>2. positions'[c] = [valued |-> prices[k], current |-> prices[n]]
      BY <2>1, <2>4
    <3>3. /\ k \in 1 .. Len(held) + Len(held) /\ n \in 1 .. Len(held) + Len(held) /\ k < n
          /\ asked[k] = c /\ asked[n] = c
      BY <2>2, <3>1
    <3> HIDE DEF k, n, asked
    <3> QED
      BY <2>3, <2>4, <3>2, <3>3
  <2>5. PricedAsShown'
    BY <2>4 DEF PricedAsShown
  <2> QED
    BY <1>1, <2>1, <2>5 DEF SyncInv
<1>13. CASE UNCHANGED rateVars
  BY <1>2, <1>13 DEF rateVars, SyncInv
<1> QED
  BY <1>3, <1>4, <1>5, <1>8, <1>9, <1>10, <1>11, <1>12, <1>13 DEF RatesNext, Lookup

(* For all currencies, providers and numbers of retries: a stored position  *)
(* was valued at the price it shows, although sync_positions asks for every *)
(* price twice and the sources may fail or recover in between.             *)
THEOREM PositionsPricedAsShown == RatesSpec => []PricedAsShown
<1>1. RatesInit => SyncInv
  BY InitHonest DEF RatesInit, SyncInv, PricedAsShown
<1>2. SyncInv => PricedAsShown
  BY DEF SyncInv
<1> QED
  BY <1>1, <1>2, NextSync, PTL DEF RatesSpec

-----------------------------------------------------------------------------
(* The tool-use loop.                                                      *)

Statuses == {"success", "error"}
CallSet == [id : Nat, name : STRING]
ResultSet == [id : Nat, status : Statuses]
MessageSet == [role : {"user", "assistant"}, calls : Seq(CallSet), answers : Seq(ResultSet)]

ConversationTyped ==
    /\ messages \in Seq(MessageSet)
    /\ pending \in Seq(CallSet)
    /\ results \in Seq(ResultSet)

Last == messages[Len(messages)]

(* A conversation exists while the loop runs; its last message holds the    *)
(* calls the pending ones are left of, or is the user's; and a skill of    *)
(* the loop runs for the first pending call.                               *)
LoopInv ==
    /\ request # "handle" => messages = <<>> /\ pending = <<>>
    /\ request = "handle" =>
          /\ messages # <<>>
          /\ pending = <<>> => Last.calls = <<>> /\ Last.role = "user"
          /\ pending # <<>> => Last.calls # <<>>
          /\ skill # Nothing => pending # <<>>
    /\ pending = <<>> => results = <<>>
    /\ request = Nothing => skill = Nothing

Answered_ ==
    \A n \in DOMAIN messages : messages[n].calls # <<>> =>
        IF n < Len(messages) THEN Matches(messages[n + 1].answers, messages[n].calls)
        ELSE pending # <<>> /\ Matches(results \o pending, messages[n].calls)

AInv == ConversationTyped /\ LoopInv /\ Answered_
-----------------------------------------------------------------------------
(* What AInv says needs nothing of the exchange-rate requests. *)
LEMMA AgentKept == AInv /\ UNCHANGED agentVars => AInv'
BY DEF AInv, ConversationTyped, LoopInv, Answered_, Matches, Last, agentVars

(* A finished request leaves no conversation. *)
LEMMA ReplyKeeps == Reply => AInv'
<1> SUFFICES ASSUME Reply PROVE AInv'
  OBVIOUS
<1>1. ConversationTyped'
  BY DEF Reply, ConversationTyped
<1>2. LoopInv'
  BY NothingAssumption DEF Reply, LoopInv
<1>3. Answered_'
  BY DEF Reply, Answered_
<1> QED
  BY <1>1, <1>2, <1>3 DEF AInv

(* Answering the first pending call keeps the answers in the order of the   *)
(* calls; answering the last one puts them after their message.            *)
LEMMA AnswerCallKeeps ==
    ASSUME AInv, request = "handle", pending # <<>>, UNCHANGED request, skill' = Nothing,
           NEW status \in Statuses, AnswerCall(status)
    PROVE  AInv'
<1> DEFINE answers == Append(results, [id |-> Head(pending).id, status |-> status])
           calls == Last.calls
<1>1. ConversationTyped
  BY DEF AInv
<1>2. /\ pending' = Tail(pending) /\ pending' \in Seq(CallSet)
      /\ Len(pending') = Len(pending) - 1 /\ Len(pending) \in Nat \ {0}
      /\ \A k \in 1 .. Len(pending') : pending'[k] = pending[k + 1]
  BY <1>1 DEF AnswerCall, ConversationTyped
<1>3. Head(pending) \in CallSet /\ Head(pending) = pending[1]
  BY <1>1 DEF ConversationTyped
<1>4. /\ answers \in Seq(ResultSet) /\ Len(answers) = Len(results) + 1 /\ Len(results) \in Nat
      /\ \A k \in 1 .. Len(results) : answers[k] = results[k]
      /\ answers[Len(results) + 1].id = pending[1].id
  BY <1>1, <1>3 DEF ConversationTyped, ResultSet, CallSet
<1>5. /\ messages \in Seq(MessageSet) /\ Len(messages) \in Nat \ {0} /\ Last \in MessageSet
      /\ Len(messages) \in DOMAIN messages
  BY <1>1 DEF ConversationTyped, AInv, LoopInv, Last
<1>6. calls # <<>> /\ calls \in Seq(CallSet) /\ Matches(results \o pending, calls)
  <2>1. calls # <<>> /\ calls \in Seq(CallSet)
    BY <1>5 DEF AInv, LoopInv, MessageSet
  <2>2. ~(Len(messages) < Len(messages))
    BY <1>5
  <2>3. messages[Len(messages)].calls = calls
    BY DEF Last
  <2>4. Matches(results \o pending, messages[Len(messages)].calls)
    BY <1>5, <2>1, <2>2, <2>3 DEF AInv, Answered_
  <2> QED
    BY <2>1, <2>3, <2>4
<1> HIDE DEF calls
<1>7. /\ Len(calls) = Len(results) + Len(pending) /\ DOMAIN calls = 1 .. Len(calls)
      /\ \A k \in 1 .. Len(results) : results[k].id = calls[k].id
      /\ \A k \in 1 .. Len(pending) : pending[k].id = calls[Len(results) + k].id
  <2>1. /\ Len(results \o pending) = Len(results) + Len(pending)
        /\ \A k \in 1 .. Len(results) : (results \o pending)[k] = results[k]
        /\ \A k \in 1 .. Len(pending) : (results \o pending)[Len(results) + k] = pending[k]
    BY <1>1 DEF ConversationTyped
  <2>2. DOMAIN calls = 1 .. Len(calls) /\ Len(calls) = Len(results) + Len(pending)
    <3>1. Len(results \o pending) = Len(calls)
      BY <1>6 DEF Matches
    <3>2. DOMAIN calls = 1 .. Len(calls)
      BY <1>6
    <3> QED
      BY <2>1, <3>1, <3>2
  <2>3. \A k \in 1 .. Len(calls) : (results \o pending)[k].id = calls[k].id
    BY <1>6, <2>2 DEF Matches
  <2>4. ASSUME NEW k \in 1 .. Len(results) PROVE results[k].id = calls[k].id
    <3>1. k \in 1 .. Len(calls)
      BY <1>2, <1>4, <2>2
    <3> QED
      BY <2>1, <2>3, <3>1
  <2>5. ASSUME NEW k \in 1 .. Len(pending) PROVE pending[k].id = calls[Len(results) + k].id
    <3>1. Len(results) + k \in 1 .. Len(calls)
      BY <1>2, <1>4, <2>2
    <3> QED
      BY <2>1, <2>3, <3>1
  <2> QED
    BY <2>2, <2>4, <2>5
<1> HIDE DEF answers
<1>8. CASE pending' # <<>>
  <2>1. results' = answers /\ UNCHANGED messages
    BY <1>8 DEF AnswerCall, answers
  <2>2. ConversationTyped'
    BY <1>1, <1>2, <1>4, <2>1 DEF ConversationTyped
  <2>3. LoopInv'
    BY <1>8, <2>1 DEF AInv, LoopInv, Last
  <2>4. Matches(results' \o pending', calls)
    <3>1. /\ Len(answers \o pending') = Len(answers) + Len(pending')
          /\ \A k \in 1 .. Len(answers) : (answers \o pending')[k] = answers[k]
          /\ \A k \in 1 .. Len(pending') : (answers \o pending')[Len(answers) + k] = pending'[k]
      BY <1>2, <1>4
    <3>2. ASSUME NEW k \in 1 .. Len(calls)
          PROVE  (answers \o pending')[k].id = calls[k].id
      <4>1. CASE k <= Len(results)
        BY <1>4, <1>7, <3>1, <4>1
      <4>2. CASE k = Len(results) + 1
        BY <1>2, <1>4, <1>7, <3>1, <4>2
      <4>3. CASE k > Len(results) + 1
        <5>1. k - Len(answers) \in 1 .. Len(pending')
          BY <1>2, <1>4, <1>7, <4>3
        <5>2. (answers \o pending')[k] = pending'[k - Len(answers)]
          BY <1>2, <1>4, <3>1, <5>1
        <5>3. pending'[k - Len(answers)] = pending[k - Len(results)]
          BY <1>2, <1>4, <5>1
        <5>4. k - Len(results) \in 1 .. Len(pending)
          BY <1>2, <1>4, <5>1
        <5> QED
          BY <1>4, <1>7, <5>2, <5>3, <5>4
      <4> QED
        BY <1>2, <1>4, <1>7, <4>1, <4>2, <4>3
    <3>3. Len(answers \o pending') = Len(calls)
      BY <1>2, <1>4, <1>7, <3>1
    <3>4. \A k \in DOMAIN calls : (answers \o pending')[k].id = calls[k].id
      BY <1>7, <3>2
    <3> QED
      BY <2>1, <3>3, <3>4 DEF Matches
  <2>5. Answered_'
    BY <1>5, <1>8, <2>1, <2>4 DEF AInv, Answered_, Last, calls
  <2> QED
    BY <2>2, <2>3, <2>5 DEF AInv
<1>9. CASE pending' = <<>>
  <2> DEFINE message == Message("user", <<>>, answers)
  <2>1. results' = <<>> /\ messages' = Append(messages, message)
    BY <1>9 DEF AnswerCall, answers
  <2>2. message \in MessageSet /\ message.calls = <<>> /\ message.role = "user" /\ message.answers = answers
    BY <1>4 DEF Message, MessageSet
  <2> HIDE DEF message
  <2>3. /\ messages' \in Seq(MessageSet) /\ Len(messages') = Len(messages) + 1
        /\ \A n \in 1 .. Len(messages) : messages'[n] = messages[n]
        /\ messages'[Len(messages) + 1] = message
        /\ DOMAIN messages' = 1 .. Len(messages) + 1
    BY <1>5, <2>1, <2>2
  <2>4. ConversationTyped'
    BY <1>2, <2>1, <2>3 DEF ConversationTyped
  <2>5. LoopInv'
    BY <1>5, <1>9, <2>1, <2>2, <2>3 DEF LoopInv, Last
  <2>6. Len(pending) = 1
    <3>1. Len(pending') = 0
      BY <1>9
    <3> QED
      BY <1>2, <3>1
  <2>7. Matches(answers, calls)
    <3>1. ASSUME NEW k \in 1 .. Len(calls) PROVE answers[k].id = calls[k].id
      <4>1. CASE k <= Len(results)
        BY <1>4, <1>7, <4>1
      <4>2. CASE k = Len(results) + 1
        BY <1>4, <1>7, <2>6, <4>2
      <4> QED
        BY <1>4, <1>7, <2>6, <4>1, <4>2
    <3> QED
      BY <1>4, <1>7, <2>6, <3>1 DEF Matches
  <2>8. ASSUME NEW n \in DOMAIN messages', messages'[n].calls # <<>>
        PROVE  n < Len(messages') /\ Matches(messages'[n + 1].answers, messages'[n].calls)
    <3>1. n \in 1 .. Len(messages)
      BY <1>5, <2>2, <2>3, <2>8
    <3>2. CASE n = Len(messages)
      BY <1>5, <2>2, <2>3, <2>7, <3>1, <3>2 DEF Last, calls
    <3>3. CASE n < Len(messages)
      <4>1. Matches(messages[n + 1].answers, messages[n].calls)
        BY <1>5, <2>3, <2>8, <3>1, <3>3 DEF AInv, Answered_
      <4>2. messages'[n] = messages[n] /\ messages'[n + 1] = messages[n + 1]
        BY <1>5, <2>3, <3>1, <3>3
      <4> QED
        BY <1>5, <2>3, <3>3, <4>1, <4>2
    <3> QED
      BY <1>5, <3>1, <3>2, <3>3
  <2>9. Answered_'
    BY <2>8 DEF Answered_
  <2> QED
    BY <2>4, <2>5, <2>9 DEF AInv
<1> QED
  BY <1>8, <1>9

LEMMA ConcludedKeeps ==
    ASSUME AInv, request = "handle" => pending # <<>>, NEW status \in Statuses, Concluded(status)
    PROVE  AInv'
<1>1. CASE request = "handle"
  BY <1>1, AnswerCallKeeps DEF Concluded
<1>2. CASE request # "handle"
  BY <1>2, ReplyKeeps DEF Concluded
<1> QED
  BY <1>1, <1>2

(* A step that only chooses what the running skill does. *)
LEMMA SkillKeeps ==
    ASSUME AInv, UNCHANGED <<request, messages, pending, results>>,
           request # Nothing, request = "handle" => pending # <<>>
    PROVE  AInv'
BY DEF AInv, ConversationTyped, LoopInv, Answered_, Matches, Last
-----------------------------------------------------------------------------
LEMMA InitKeeps == Init => AInv
<1> SUFFICES ASSUME Init PROVE AInv
  OBVIOUS
<1>1. ConversationTyped /\ LoopInv
  BY NothingAssumption DEF Init, ConversationTyped, LoopInv
<1>2. Answered_
  BY DEF Init, Answered_
<1> QED
  BY <1>1, <1>2 DEF AInv

LEMMA DecideKeeps == AInv /\ Decide => AInv'
<1> SUFFICES ASSUME AInv, Decide PROVE AInv'
  OBVIOUS
<1>1. PICK names \in Calls \ {<<>>} :
        LET calls == [n \in DOMAIN names |-> [id |-> n, name |-> names[n]]]
        IN  /\ messages' = Append(messages, Message("assistant", calls, <<>>))
            /\ pending' = calls
  BY DEF Decide
<1> DEFINE calls == [n \in DOMAIN names |-> [id |-> n, name |-> names[n]]]
           message == Message("assistant", calls, <<>>)
<1>2. names \in Seq(STRING) /\ Len(names) \in Nat \ {0} /\ DOMAIN names = 1 .. Len(names)
  BY <1>1, CallsAssumption
<1>3. calls \in Seq(CallSet) /\ Len(calls) = Len(names) /\ calls # <<>>
  <2>1. \A n \in 1 .. Len(names) : [id |-> n, name |-> names[n]] \in CallSet
    BY <1>2 DEF CallSet
  <2> QED
    BY <1>2, <2>1
<1> HIDE DEF calls
<1>4. message \in MessageSet /\ message.calls = calls
  BY <1>3 DEF Message, MessageSet
<1> HIDE DEF message
<1>5. /\ request = "handle" /\ UNCHANGED <<request, results, skill>> /\ pending = <<>>
      /\ results = <<>> /\ skill = Nothing /\ messages # <<>> /\ Last.calls = <<>>
      /\ messages \in Seq(MessageSet) /\ Len(messages) \in Nat \ {0}
  BY DEF Decide, Deciding, AInv, LoopInv, ConversationTyped
<1>6. messages' = Append(messages, message) /\ pending' = calls
  BY <1>1 DEF message, calls
<1>7. /\ messages' \in Seq(MessageSet) /\ Len(messages') = Len(messages) + 1
      /\ \A n \in 1 .. Len(messages) : messages'[n] = messages[n]
      /\ messages'[Len(messages) + 1] = message
      /\ DOMAIN messages' = 1 .. Len(messages) + 1
  BY <1>4, <1>5, <1>6
<1>8. ConversationTyped'
  BY <1>3, <1>5, <1>6, <1>7 DEF AInv, ConversationTyped
<1>9. LoopInv'
  BY <1>3, <1>4, <1>5, <1>6, <1>7 DEF LoopInv, Last
<1>10. Matches(results' \o pending', calls)
  <2>1. results' \o pending' = calls
    BY <1>3, <1>5, <1>6
  <2>2. DOMAIN calls = 1 .. Len(calls)
    BY <1>3
  <2> QED
    BY <2>1, <2>2 DEF Matches
<1>11. ASSUME NEW n \in DOMAIN messages', messages'[n].calls # <<>>
       PROVE  IF n < Len(messages') THEN Matches(messages'[n + 1].answers, messages'[n].calls)
              ELSE pending' # <<>> /\ Matches(results' \o pending', messages'[n].calls)
  <2>1. CASE n = Len(messages) + 1
    BY <1>3, <1>4, <1>5, <1>6, <1>7, <1>10, <2>1
  <2>2. CASE n = Len(messages)
    BY <1>5, <1>7, <1>11, <2>2 DEF Last
  <2>3. CASE n < Len(messages)
    <3>1. /\ n \in 1 .. Len(messages) /\ messages'[n] = messages[n]
          /\ messages'[n + 1] = messages[n + 1] /\ DOMAIN messages = 1 .. Len(messages)
      BY <1>5, <1>7, <2>3
    <3> QED
      BY <1>5, <1>7, <1>11, <2>3, <3>1 DEF AInv, Answered_
  <2> QED
    BY <1>5, <1>7, <2>1, <2>2, <2>3
<1>12. Answered_'
  BY <1>11 DEF Answered_
<1> QED
  BY <1>8, <1>9, <1>12 DEF AInv

LEMMA HandleKeeps == AInv /\ Handle => AInv'
<1> SUFFICES ASSUME AInv, Handle PROVE AInv'
  OBVIOUS
<1> DEFINE message == Message("user", <<>>, <<>>)
<1>1. /\ request' = "handle" /\ messages' = <<message>> /\ pending' = <<>> /\ results' = <<>>
      /\ skill' = skill /\ pending = <<>>
  BY NothingAssumption DEF Handle, Idle, AInv, LoopInv
<1>2. message \in MessageSet /\ message.calls = <<>> /\ message.role = "user"
  BY DEF Message, MessageSet
<1> HIDE DEF message
<1>3. ConversationTyped'
  BY <1>1, <1>2 DEF ConversationTyped
<1>4. skill = Nothing
  BY DEF Handle, Idle, AInv, LoopInv
<1>5. LoopInv'
  BY <1>1, <1>2, <1>4 DEF LoopInv, Last
<1>6. Answered_'
  BY <1>1, <1>2 DEF Answered_
<1> QED
  BY <1>3, <1>5, <1>6 DEF AInv

(* A request for advice, or a chat, holds no conversation. *)
LEMMA AskKeeps == AInv /\ (AskAdvice \/ Chat) => AInv'
<1> SUFFICES ASSUME AInv, AskAdvice \/ Chat PROVE AInv'
  OBVIOUS
<1>1. /\ request' \in {"advice", "chat"} /\ request = Nothing
      /\ UNCHANGED <<messages, pending, results>>
  BY DEF AskAdvice, Chat, Idle
<1>2. request # "handle" /\ messages = <<>> /\ pending = <<>> /\ results = <<>>
  BY <1>1, NothingAssumption DEF AInv, LoopInv
<1>3. ConversationTyped'
  BY <1>1 DEF AInv, ConversationTyped
<1>4. LoopInv'
  BY <1>1, <1>2, NothingAssumption DEF LoopInv
<1>5. Answered_'
  BY <1>1, <1>2 DEF Answered_
<1> QED
  BY <1>3, <1>4, <1>5 DEF AInv

LEMMA RunCallKeeps == AInv /\ RunCall => AInv'
<1> SUFFICES ASSUME AInv, RunCall PROVE AInv'
  OBVIOUS
<1>1. request = "handle" /\ pending # <<>> /\ request # Nothing
  BY NothingAssumption DEF RunCall
<1>2. CASE UNCHANGED <<request, messages, pending, results>>
  BY <1>1, <1>2, SkillKeeps
<1>3. CASE Concluded("error")
  BY <1>1, <1>3, ConcludedKeeps DEF Statuses
<1> QED
  BY <1>2, <1>3 DEF RunCall

(* The steps of a skill that runs: it concludes, or goes on. *)
LEMMA SkillStepKeeps ==
    AInv /\ (ToolRaises \/ ToolReturns \/ Generated \/ AttemptFails \/ GenerateFails) => AInv'
<1> SUFFICES ASSUME AInv, ToolRaises \/ ToolReturns \/ Generated \/ AttemptFails \/ GenerateFails
             PROVE  AInv'
  OBVIOUS
<1>1. skill # Nothing
  BY DEF ToolRaises, ToolReturns, Generated, AttemptFails, GenerateFails, Generating
<1>2. request # Nothing /\ (request = "handle" => pending # <<>>)
  BY <1>1 DEF AInv, LoopInv
<1>3. \/ \E status \in Statuses : Concluded(status)
      \/ UNCHANGED <<request, messages, pending, results>>
  <2>1. CASE ToolRaises
    BY <2>1 DEF ToolRaises, Statuses
  <2>2. CASE ToolReturns
    <3>1. PICK result : LET spec == Skills[skill.name]
            IN  CASE spec.shortCircuit /\ result = "complete" -> Concluded("success")
                  [] spec.printed /\ result = "failed" -> Concluded("error")
                  [] OTHER -> /\ skill' = Prompt(skill.name, result, MaxRetries)
                              /\ UNCHANGED <<request, messages, pending, results>>
      BY <2>2 DEF ToolReturns
    <3> QED
      BY <3>1 DEF Statuses
  <2>3. CASE Generated
    BY <2>3 DEF Generated, Statuses
  <2>4. CASE AttemptFails
    BY <2>4 DEF AttemptFails, Statuses
  <2>5. CASE GenerateFails
    BY <2>5 DEF GenerateFails, Statuses
  <2> QED
    BY <2>1, <2>2, <2>3, <2>4, <2>5
<1> QED
  BY <1>2, <1>3, ConcludedKeeps, SkillKeeps
-----------------------------------------------------------------------------
LEMMA NextKeeps == AInv /\ [Next]_vars => AInv'
<1> SUFFICES ASSUME AInv, [Next]_vars PROVE AInv'
  OBVIOUS
<1>1. CASE AskAdvice \/ Chat
  BY <1>1, AskKeeps
<1>2. CASE Handle
  BY <1>2, HandleKeeps
<1>3. CASE Decide
  BY <1>3, DecideKeeps
<1>4. CASE Finish
  BY <1>4, ReplyKeeps DEF Finish
<1>5. CASE RunCall
  BY <1>5, RunCallKeeps
<1>6. CASE ToolRaises \/ ToolReturns \/ Generated \/ AttemptFails \/ GenerateFails
  BY <1>6, SkillStepKeeps
<1>7. CASE UNCHANGED agentVars
  BY <1>7, AgentKept
<1> QED
  BY <1>1, <1>2, <1>3, <1>4, <1>5, <1>6, <1>7 DEF Next, Serving, Agent, vars

LEMMA AnsweredImplied == AInv => EveryCallAnswered
BY DEF AInv, LoopInv, Answered_, EveryCallAnswered, Deciding, Last

(* EveryCallAnswered: whatever skills there are, whatever the model calls   *)
(* and whatever fails, LLMOrchestrator.handle answers every call once, in  *)
(* order, in the message after it, before the model is asked again.        *)
THEOREM CallsAnswered == Spec => []EveryCallAnswered
<1>1. Init => AInv
  BY InitKeeps
<1>2. AInv /\ [Next]_vars => AInv'
  BY NextKeeps
<1>3. AInv => EveryCallAnswered
  BY AnsweredImplied
<1> QED
  BY <1>1, <1>2, <1>3, PTL DEF Spec
=============================================================================
