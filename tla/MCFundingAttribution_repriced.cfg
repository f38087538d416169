\* Redeeming an asset that was paid for with free money.
CONSTANTS
    u1 = u1
    u2 = u2
    fund = fund
    other = other
    NoBasis = NoBasis
    NoAsset = NoAsset
    Users = {u1}
    Assets = {fund, other}
    Times = {1}
    Payloads <- FreePayloads
    Rates = {4}
    MaxEvents = 3
    MaxKey = 4
SPECIFICATION CreateSpec
INVARIANTS
    CostConserved
CHECK_DEADLOCK FALSE
