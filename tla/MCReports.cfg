\* Every report over every small history of one user.
CONSTANTS
    u1 = u1
    fund = fund
    NoBasis = NoBasis
    NoAsset = NoAsset
    NoRate = NoRate
    Users = {u1}
    Assets = {fund}
    Times = {1, 2}
    Payloads <- ReportPayloads
    Rates = {3}
    MaxEvents = 3
    MaxKey = 9
    TypeOf <- Funds
    CurrencyOf <- Dollars
    Snapshots <- ReportSnapshots
    RateRows <- ReportRates
    MaxValuations = 1
    MaxRates = 2
SPECIFICATION ReportsSpec
INVARIANTS
    AuditReconciles
    BalancesBackedByLots
    OverviewAddsUp
    SuggestionsNameTheCause
    SurfacesAgree
    RealizedNotHeld
    NoCostShownTwice
PROPERTIES
    PurchasesAreNotGains
CHECK_DEADLOCK FALSE
