SPECIFICATION FairSpec
CONSTANTS
    a = a
    b = b
    NoTab = NoTab
    Tabs <- TwoTabs
    FirstTabs <- OneOrTwo
    ChangeAlone = TRUE
    MaxPairs = 4
    MaxFaults = 1
INVARIANTS
    NoReplay
    SignedOutOnlyWhenOver
PROPERTIES
    CallsSettle
CHECK_DEADLOCK FALSE
