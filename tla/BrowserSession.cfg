SPECIFICATION FairSpec
CONSTANTS
    a = a
    b = b
    NoOne = NoOne
    Account <- TwoAccounts
    Remembered = {a}
    Grants <- TwoGrants
    MaxLogins = 1
    MaxChanges = 1
    MaxFaults = 1
    Visited = {"dashboard", "users"}
    KeptKey = {}
INVARIANTS
    
    CachesMatchAccount
PROPERTIES
    
    StoreCatchesUp
