\* Deleting one of two funding events leaves the asset COMPLETE.
CONSTANTS
    u1 = u1
    u2 = u2
    fund = fund
    other = other
    NoBasis = NoBasis
    NoAsset = NoAsset
    Users = {u1}
    Assets = {fund, other}
    Times = {1}
    Payloads <- SplitPayloads
    Rates = {4}
    MaxEvents = 3
    MaxKey = 4
SPECIFICATION Spec
INVARIANTS
    CompleteMeansFunded
CHECK_DEADLOCK FALSE
