\* One user, two currencies: the lots implement the pool, and jobs end.
CONSTANTS
    u1 = u1
    u2 = u2
    USD = USD
    EUR = EUR
    NoBasis = NoBasis
    NoJob = NoJob
    Users = {u1}
    Currencies = {USD, EUR}
    Amounts = {1, 2}
    Costs <- FiveOrUnknown
    Times = {1, 2}
    MaxEvents = 3
SPECIFICATION FairSpec
INVARIANT PoolInv
PROPERTIES
    JobsEnd
    ImplementsPool
CHECK_DEADLOCK FALSE
