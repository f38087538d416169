\* Two users and two currencies, backdated events, swaps, rounding, rollbacks.
CONSTANTS
    u1 = u1
    u2 = u2
    USD = USD
    EUR = EUR
    NoBasis = NoBasis
    NoJob = NoJob
    Users = {u1, u2}
    Currencies = {USD, EUR}
    Amounts = {1, 3}
    Costs <- FiveOrUnknown
    Times = {1, 2}
    MaxEvents = 3
SPECIFICATION Spec
SYMMETRY Symmetry
INVARIANTS
    Inductive
    AuditTrail
    StatusTellsContents
    OwnEarlierFunds
    LineageAcyclic
    BasisConserved
    DemandCovered
    SwapCarriesCost
PROPERTIES
    OldestFirst
    GapMeansExhausted
CHECK_DEADLOCK FALSE
