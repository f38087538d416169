----------------------------- MODULE FundingLots -----------------------------
(***************************************************************************)
(* FundingLotManager and LotAllocationEngine inside the database           *)
(* transaction of one PortfolioEventService.create_event call.             *)
(*                                                                         *)
(* lots, consumptions, gaps and events are the session's view of the       *)
(* tables, db is what has been committed.  The INSERT of the event row     *)
(* takes the database's write lock, so one job runs at a time; inside it   *)
(* every loop iteration of allocate() is a step of its own, and the        *)
(* process may fail between any two of them (the session is then closed    *)
(* without a commit).                                                      *)
(***************************************************************************)
EXTENDS LotOps, Sequences, FiniteSets, FiniteSetsExt

CONSTANTS Users, Currencies,     \* Currencies: every currency but CNY
          Amounts, Costs,        \* native amounts, RMB bases of inflows
          Times,                 \* event times
          MaxEvents,             \* bound: events recorded in a behaviour
          NoJob

ASSUME FundingLotsAssumption ==
    /\ Amounts \subseteq Nat \ {0}
    /\ Costs \subseteq Bases
    /\ Times \subseteq Nat
    /\ MaxEvents \in Nat

VARIABLES lots,          \* funding_lots, by primary key
          consumptions,  \* lot_consumptions, by primary key
          gaps,          \* attribution_gaps
          events,        \* portfolio_events with the cash leg that matters here
          job,           \* the create_event call that is running
          db             \* the committed tables

tables == <<lots, consumptions, gaps, events>>
vars == <<lots, consumptions, gaps, events, job, db>>

Lot == [user : Users, currency : Currencies, source_event : Nat,
        original_amount : Nat, remaining_amount : Nat,
        original_basis : Bases, remaining_basis : Bases,
        status : Statuses, created_at : Times]

Consumption == [lot : Nat, event : Nat, amount : Nat, basis : Nat, remaining_after : Nat]

Gap == [event : Nat, shortfall : Nat]

Event == [user : Users, currency : Currencies, drawn : Nat, time : Times]

Target == [currency : Currencies, amount : Amounts]

NoTarget == <<>>

Allocating == [phase : {"allocating"}, candidates : SUBSET Nat, left : Nat,
               cost : Nat, target : Target \cup {NoTarget}]

Committing == [phase : {"committing"}]

ASSUME NoJobAssumption == NoJob \notin Allocating \cup Committing

Books == [lots |-> lots, consumptions |-> consumptions, gaps |-> gaps, events |-> events]

event == Len(events)          \* the id of the running event
now == events[event].time

TablesTyped(L, C, G, E) ==
    /\ L \in Seq(Lot)
    /\ C \in Seq(Consumption)
    /\ G \subseteq Gap
    /\ E \in Seq(Event)

Database == [lots : Seq(Lot), consumptions : Seq(Consumption),
             gaps : SUBSET Gap, events : Seq(Event)]

(* Rows, committed rows and the running job have their types; amounts and   *)
(* bases are natural numbers, as the tables' CHECK constraints demand.     *)
TypeOK == /\ Books \in Database
          /\ db \in Database
          /\ job \in Allocating \cup Committing \cup {NoJob}
-----------------------------------------------------------------------------
Init ==
    /\ lots = <<>> /\ consumptions = <<>> /\ gaps = {} /\ events = <<>>
    /\ job = NoJob
    /\ db = Books

RecordEvent(user, currency, drawn, time) ==
    /\ job = NoJob
    /\ Len(events) < MaxEvents
    /\ events' = Append(events, [user |-> user, currency |-> currency,
                                 drawn |-> drawn, time |-> time])

(* FX_BUY, MANUAL_ADJUSTMENT, income: a positive foreign entry opens a lot. *)
RecordInflow(user, currency, time, amount, basis) ==
    /\ RecordEvent(user, currency, 0, time)
    /\ lots' = Append(lots, NewLot(user, currency, event + 1, amount, basis, time))
    /\ job' = [phase |-> "committing"]
    /\ UNCHANGED <<consumptions, gaps, db>>

(* get_available_lots; a mutated form leaves out lots of the very instant. *)
EarlierLots(user, currency, time) ==
    {l \in DOMAIN lots : Spendable(lots[l], user, currency, time) /\ lots[l].created_at < time}

AvailableLots(user, currency, time) ==
    {l \in DOMAIN lots : Spendable(lots[l], user, currency, time)}

(* FX_SELL and purchases (no target), FX_SWAP (target): allocate() begins   *)
(* by reading the spendable lots of the currency.                          *)
BeginAllocation(user, currency, time, needed, target) ==
    /\ RecordEvent(user, currency, needed, time)
    /\ job' = [phase      |-> "allocating",
               candidates |-> AvailableLots(user, currency, time),
               left       |-> needed,
               cost       |-> 0,
               target     |-> target]
    /\ UNCHANGED <<lots, consumptions, gaps, db>>

IsAllocating == job # NoJob /\ job.phase = "allocating"

(* Lot l is the next of the loop; a mutated form has no ORDER BY. *)
AnyInLine(l) == l \in job.candidates

NextInLine(l) == \A k \in job.candidates : k # l => Precedes(lots, l, k)

(* One iteration of allocate()'s loop: consume_lot on the next lot. *)
ConsumeLot ==
    /\ IsAllocating
    /\ job.left > 0
    /\ \E l \in job.candidates :
         /\ NextInLine(l)
         /\ LET amount == Smaller(lots[l].remaining_amount, job.left)
                row == ConsumptionOf(l, lots[l], event, amount)
            IN  /\ lots' = [lots EXCEPT ![l] = Consumed(@, amount)]
                /\ consumptions' = Append(consumptions, row)
                /\ job' = [job EXCEPT !.candidates = @ \ {l},
                                      !.left = @ - amount,
                                      !.cost = @ + row.basis]
    /\ UNCHANGED <<gaps, events, db>>

(* The loop is over; in a mutated form only when everything is covered. *)
Covered == job.left = 0

LoopDone == job.left = 0 \/ job.candidates = {}

(* The gap create_gap_record reports; a mutated form reports none. *)
NothingReported == {}

ReportedGap == IF job.left > 0 THEN {[event |-> event, shortfall |-> job.left]} ELSE {}

(* The RMB basis of a swap's target lot; a mutated form overlooks a shortfall. *)
CostSoFar == job.cost

TargetBasis == IF job.left = 0 THEN job.cost ELSE NoBasis

(* The end of allocate(): a shortfall is recorded as a gap, and a swap      *)
(* opens its target lot, at the RMB cost only if nothing is missing.       *)
FinishAllocation ==
    /\ IsAllocating
    /\ LoopDone
    /\ gaps' = gaps \cup ReportedGap
    /\ lots' = IF job.target = NoTarget THEN lots
               ELSE Append(lots, NewLot(events[event].user, job.target.currency, event,
                                        job.target.amount, TargetBasis, now))
    /\ job' = [phase |-> "committing"]
    /\ UNCHANGED <<consumptions, events, db>>

Commit ==
    /\ job # NoJob /\ job.phase = "committing"
    /\ db' = Books
    /\ job' = NoJob
    /\ UNCHANGED tables

(* Mutated form of Rollback: the session is used on as it is. *)
RollbackForgotten == job # NoJob /\ job' = NoJob /\ UNCHANGED <<tables, db>>

(* An exception, a locked database or a killed process before the commit.  *)
Rollback ==
    /\ job # NoJob
    /\ lots' = db.lots /\ consumptions' = db.consumptions
    /\ gaps' = db.gaps /\ events' = db.events
    /\ job' = NoJob
    /\ UNCHANGED db

Next ==
    \/ \E u \in Users, c \in Currencies, t \in Times, a \in Amounts :
         \/ \E b \in Costs : RecordInflow(u, c, t, a, b)
         \/ \E g \in Target \cup {NoTarget} : BeginAllocation(u, c, t, a, g)
    \/ ConsumeLot
    \/ FinishAllocation
    \/ Commit
    \/ Rollback

Spec == Init /\ [][Next]_vars

(* The handler is a sequential program: it keeps running. *)
FairSpec == Spec /\ WF_vars(ConsumeLot) /\ WF_vars(FinishAllocation) /\ WF_vars(Commit)
-----------------------------------------------------------------------------
Withdrawals(C, l) == {i \in DOMAIN C : C[i].lot = l}
DrawnBy(C, e) == {i \in DOMAIN C : C[i].event = e}
GapsOf(G, e) == {g \in G : g.event = e}

AmountSum(C, S) == SumFunctionOnSet([i \in DOMAIN C |-> C[i].amount], S)
BasisSum(C, S) == SumFunctionOnSet([i \in DOMAIN C |-> C[i].basis], S)
ShortfallSum(S) == SumFunctionOnSet([g \in S |-> g.shortfall], S)

(* Row j is the latest consumption of lot l among those before row n. *)
LatestBefore(C, n, j, l) ==
    /\ j \in DOMAIN C /\ j < n /\ C[j].lot = l
    /\ \A k \in DOMAIN C : k < n /\ C[k].lot = l => k <= j

UntouchedBefore(C, n, l) == \A k \in DOMAIN C : k < n => C[k].lot # l

(* What lot l holds, by the audit trail, when row n is written. *)
HoldsBefore(L, C, n, l, amount) ==
    /\ UntouchedBefore(C, n, l) => amount = L[l].original_amount
    /\ \A j \in DOMAIN C : LatestBefore(C, n, j, l) => amount = C[j].remaining_after

TrailOf(L, C) ==
    /\ \A i \in DOMAIN C :
         /\ C[i].lot \in DOMAIN L
         /\ C[i].amount > 0
         /\ HoldsBefore(L, C, i, C[i].lot, C[i].amount + C[i].remaining_after)
    /\ \A l \in DOMAIN L : HoldsBefore(L, C, Len(C) + 1, l, L[l].remaining_amount)

(* Conservation of native money: reading lot_consumptions in order, every   *)
(* row takes exactly the difference between what its lot held after the    *)
(* previous row (or originally) and remaining_after, and the lot holds     *)
(* what the last row says.  No path of consume_lot, of a loop over several *)
(* lots or of a rollback loses or invents a unit.                          *)
AuditTrail == TrailOf(lots, consumptions) /\ TrailOf(db.lots, db.consumptions)

StatusTells(lot) ==
    /\ lot.remaining_amount <= lot.original_amount
    /\ lot.status = "FULLY_CONSUMED" <=> lot.remaining_amount = 0
    /\ lot.status = "BASIS_MISSING" <=> lot.original_basis = NoBasis
    /\ lot.original_basis = NoBasis <=> lot.remaining_basis = NoBasis
    /\ lot.status = "FULLY_CONSUMED" => lot.remaining_basis = 0
    /\ lot.remaining_basis # NoBasis => lot.remaining_basis <= lot.original_basis

StatusesOf(L) == \A l \in DOMAIN L : StatusTells(L[l])

(* A lot's status says what is in it: closed exactly when it is empty (with *)
(* no basis left behind), unpriced exactly when it has no basis, and its   *)
(* remaining basis, after any series of rounded shares, never negative and *)
(* never more than it cost (the CHECK constraints of funding_lots).        *)
StatusTellsContents == StatusesOf(lots) /\ StatusesOf(db.lots)

PaysFor(lot, e) ==
    /\ lot.user = e.user
    /\ lot.currency = e.currency
    /\ lot.created_at <= e.time
    /\ lot.original_basis # NoBasis

OwnFundsOf(L, C, E) ==
    \A i \in DOMAIN C :
       /\ C[i].lot \in DOMAIN L
       /\ C[i].event \in DOMAIN E
       /\ PaysFor(L[C[i].lot], E[C[i].event])

(* Every consumption is of a lot of the spender, in the currency spent,    *)
(* dated no later than the event, and priced, however events were          *)
(* backdated relative to the order they were recorded in.                  *)
OwnEarlierFunds == /\ OwnFundsOf(lots, consumptions, events)
                   /\ OwnFundsOf(db.lots, db.consumptions, db.events)

LineageOf(L, C) ==
    \A l \in DOMAIN L : \A i \in DOMAIN C :
       C[i].event = L[l].source_event => C[i].lot < l

(* trace_to_origin climbs from a lot to the lots its source event consumed. *)
(* Each hop goes to an older primary key, so the climb cannot meet the      *)
(* cycle that _trace_lot guards against.                                   *)
LineageAcyclic == LineageOf(lots, consumptions) /\ LineageOf(db.lots, db.consumptions)

BasisKept(L, C) ==
    \A l \in DOMAIN L : L[l].original_basis # NoBasis =>
       L[l].original_basis = L[l].remaining_basis + BasisSum(C, Withdrawals(C, l))

(* Conservation of RMB: what a priced lot cost is what it still carries    *)
(* plus what each consumption took, whatever the rounding of each share.   *)
BasisConserved == BasisKept(lots, consumptions) /\ BasisKept(db.lots, db.consumptions)

DemandMet(C, G, E, e) == E[e].drawn = AmountSum(C, DrawnBy(C, e)) + ShortfallSum(GapsOf(G, e))

(* No commit leaves a half-funded event: what an event drew is what its    *)
(* consumptions took plus what its gap reports as missing.                 *)
DemandCovered ==
    \A e \in DOMAIN db.events : DemandMet(db.consumptions, db.gaps, db.events, e)

CostCarried(L, C, G, E) ==
    \A l \in DOMAIN L :
       LET e == L[l].source_event
       IN  E[e].drawn > 0 =>
             L[l].original_basis =
                IF GapsOf(G, e) # {} THEN NoBasis ELSE BasisSum(C, DrawnBy(C, e))

(* A committed swap lot costs exactly the RMB its event took from the       *)
(* source lots, and is unpriced exactly when some of that money is missing. *)
SwapCarriesCost == CostCarried(db.lots, db.consumptions, db.gaps, db.events)

CanPay(k, e) == Spendable(lots[k], events[e].user, events[e].currency, events[e].time)

SourcesOf(L, E) == \A l \in DOMAIN L : L[l].source_event \in DOMAIN E

Sound(L, C, G, E) ==
    /\ TablesTyped(L, C, G, E)
    /\ SourcesOf(L, E)
    /\ TrailOf(L, C)
    /\ StatusesOf(L)
    /\ OwnFundsOf(L, C, E)
    /\ LineageOf(L, C)

(* Table M is table L after some of its money was spent and lots were added. *)
Drawn(L, M) ==
    \A l \in DOMAIN L :
       l \in DOMAIN M /\ M[l].remaining_amount <= L[l].remaining_amount

JobSound ==
    /\ job \in Allocating \cup Committing \cup {NoJob}
    /\ db \in Database
    /\ job = NoJob => Books = db
    /\ job # NoJob => events # <<>>
    /\ Drawn(db.lots, lots)
    /\ db.gaps \subseteq gaps
    /\ IsAllocating =>
         /\ job.candidates \subseteq {k \in DOMAIN lots : CanPay(k, event)}
         /\ job.left > 0 => {k \in DOMAIN lots : CanPay(k, event)} \subseteq job.candidates
         /\ \A l \in DOMAIN lots : lots[l].source_event < event

(* The inductive invariant: sound tables on both sides of the commit, and   *)
(* a running allocation whose list of lots is still exactly the spendable  *)
(* ones, although it was read once, before the loop changed any of them.   *)
IInv == /\ Sound(lots, consumptions, gaps, events)
        /\ Sound(db.lots, db.consumptions, db.gaps, db.events)
        /\ JobSound

SumsSound(L, C, G, E, settled) ==
    /\ IsFiniteSet(G)
    /\ \A g \in G : g.event \in DOMAIN E
    /\ BasisKept(L, C)
    /\ \A e \in settled : DemandMet(C, G, E, e)
    /\ CostCarried(L, C, G, E)

Settled == IF IsAllocating THEN DOMAIN events \ {event} ELSE DOMAIN events

JobSums ==
    IsAllocating =>
       /\ events[event].drawn = AmountSum(consumptions, DrawnBy(consumptions, event)) + job.left
       /\ job.cost = BasisSum(consumptions, DrawnBy(consumptions, event))
       /\ GapsOf(gaps, event) = {}

(* What the sums need beside IInv: in the middle of an allocation the       *)
(* running event is covered by what it has taken so far and what is left   *)
(* to take, the cost is the sum of the shares taken, and every earlier     *)
(* event is settled.                                                       *)
SumInv == /\ SumsSound(lots, consumptions, gaps, events, Settled)
          /\ SumsSound(db.lots, db.consumptions, db.gaps, db.events, DOMAIN db.events)
          /\ JobSums

(* The inductive invariant of the rows and of their sums together. *)
Inductive == IInv /\ SumInv

FifoStep ==
    \A l \in DOMAIN lots \cap DOMAIN lots' :
       lots'[l].remaining_amount < lots[l].remaining_amount =>
          \A k \in DOMAIN lots : CanPay(k, event) => k = l \/ Precedes(lots, l, k)

(* FIFO: a step that takes money from a lot leaves no spendable lot of the  *)
(* same owner and currency ahead of it in (created_at, id) order.          *)
OldestFirst == [][FifoStep]_vars

GapStep == \A g \in gaps' \ gaps : \A k \in DOMAIN lots : ~CanPay(k, g.event)

(* A gap is reported only when no spendable lot is left that could pay.     *)
GapMeansExhausted == [][GapStep]_vars

(* The allocation loop ends: a handler that keeps running commits or rolls back. *)
JobsEnd == job # NoJob ~> job = NoJob

HeldIn(L, S) == SumFunctionOnSet([l \in DOMAIN L |-> L[l].remaining_amount], S)

Dated(L, u, c, t) ==
    {l \in DOMAIN L : /\ L[l].user = u /\ L[l].currency = c
                      /\ L[l].created_at = t /\ L[l].status = "AVAILABLE"}

PoolOf(L) ==
    [k \in Users \X Currencies \X Times |-> HeldIn(L, Dated(L, k[1], k[2], k[3]))]

Pool == INSTANCE FundingPool WITH pool <- PoolOf(db.lots)

(* The committed lots implement the pool: no observer who reads only       *)
(* committed rows can tell the lots from dated money spent oldest first.   *)
ImplementsPool == Pool!Spec

Purse(L, e) == {l \in DOMAIN L : PaysFor(L[l], e)}

SameOrigin(k, l) ==
    /\ k.user = l.user /\ k.currency = l.currency
    /\ k.created_at = l.created_at /\ k.original_basis = l.original_basis

(* Table M is table L after event e took money from the lots of its purse, *)
(* from none before all the lots ahead of it were empty.                   *)
SpentInOrder(L, M, e) ==
    /\ DOMAIN M = DOMAIN L
    /\ \A l \in DOMAIN L : IF l \in Purse(L, e) THEN SameOrigin(L[l], M[l]) ELSE M[l] = L[l]
    /\ \A l \in DOMAIN L : M[l].remaining_amount < L[l].remaining_amount =>
          \A k \in Purse(L, e) : Precedes(L, k, l) => M[k].remaining_amount = 0

TakenBy(e) == HeldIn(db.lots, Purse(db.lots, e)) - HeldIn(lots, Purse(db.lots, e))

(* What the refinement needs: a running allocation has emptied the purse    *)
(* from its oldest lot on, of exactly what it has drawn so far, and what   *)
(* a finished job is about to commit is a step the pool allows.            *)
PoolInv ==
    /\ IsAllocating =>
         /\ events[event].drawn \in Amounts
         /\ SpentInOrder(db.lots, lots, events[event])
         /\ TakenBy(events[event]) = events[event].drawn - job.left
    /\ job # NoJob /\ ~IsAllocating =>
         PoolOf(lots) = PoolOf(db.lots) \/ Pool!Allowed(PoolOf(db.lots), PoolOf(lots))
=============================================================================
