CONSTANTS
    Chains <- AllChains
    NoCollator = NoCollator
    PadFrom = 2
    PadTo = 3
    MaxFaults <- Faults

SPECIFICATION Spec
INVARIANTS
    TypeOK
    StakeIsOfTheRoundsStart
    StoredRoundIsComplete
    RewardsUnderTheirCollator
    RowsAddUp
    FailuresHaveACause

\* The rounds are stored, and no block comes after the last: the system stops.
CHECK_DEADLOCK FALSE
