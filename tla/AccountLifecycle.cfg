SPECIFICATION FairSpec
CONSTANTS
    Account = {a1}
    Req = {r1}
    Reconciler = Reconciler
    Nightly = Nightly
    None = None
    Op = {"delete", "reactivate", "purge", "login"}
    Batch = 1
    MaxTries = 2
    MaxEvents = 2
    MaxFaults = 1
INVARIANTS
    LastEventMatchesRow
    OneJobPerEvent
    JobsNameTheirAccount
    PurgedAccountsAreSignedOut
PROPERTIES
    EventsAreDelivered
CHECK_DEADLOCK FALSE
