SPECIFICATION FairSpec
CONSTANTS
    CounterMod = 11
    Windows = {0, 4, 8}
    AppSizes = {3}
    Budgets <- MCBudgets
INVARIANTS
    TypeOK
    AckedInTime
    AcksNameWhatArrived
    AcksSoonEnough
PROPERTIES
    Released
    AcksDieOut
CHECK_DEADLOCK FALSE
