\* One user who records events, in any order of their times.
CONSTANTS
    u1 = u1
    u2 = u2
    fund = fund
    other = other
    NoBasis = NoBasis
    NoAsset = NoAsset
    Users = {u1}
    Assets = {fund, other}
    Times = {1, 2}
    Payloads <- RecordPayloads
    Rates = {3}
    MaxEvents = 4
    MaxKey = 9
SPECIFICATION CreateSpec
INVARIANTS
    TypeOK
    AttributedFromConsumed
    CompleteMeansFunded
    CostConserved
    ReplayAgrees
CHECK_DEADLOCK FALSE
