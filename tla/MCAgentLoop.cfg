\* The requests that ask outside: exchange rates and the assistant.
SPECIFICATION Spec
CONSTANTS
    Nothing = Nothing
    NoRate = NoRate
    Currencies = {"USD", "EUR", "XAU"}
    Today = 3
    Published <- LivePublished
    StaticTable <- BuiltIn
    Records <- SomeRecords
    Lists <- SomeLists
    MaxRetries = 3
    MaxRows = 2
    Skills <- Registry
    Calls <- SomeCalls
    MaxIterations = 2
INVARIANTS
    ConfirmedRatesOnly
    PricedAsShown
    EveryCallAnswered
PROPERTIES
    RequestsEnd
