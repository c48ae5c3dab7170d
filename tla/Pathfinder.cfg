SPECIFICATION FairSpec
CONSTANTS
    Key = {1, 2, 3}
    Self = 3
    XKey <- Shared
    Place = {p, q}
    MaxFired = 1
    None = none
    Scenarios <- SomeScenarios
INVARIANTS NoneKeptForGood NoneWaits
PROPERTIES PathAdvances KeepsArriving
