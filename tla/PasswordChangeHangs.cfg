SPECIFICATION FairSpec
CONSTANTS
    a = a
    b = b
    NoTab = NoTab
    Tabs <- TwoTabs
    FirstTabs <- OneOrTwo
    ChangeAlone = TRUE
    MaxPairs = 3
    MaxFaults = 0
PROPERTIES
    ChangeSettles
CHECK_DEADLOCK FALSE
