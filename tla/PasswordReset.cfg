SPECIFICATION Spec
CONSTANTS
    Req = {r1, r2}
    Password = {"old", "new"}
    Weak = {"old"}
    First = "old"
    MaxLinks = 2
    MaxAttempts = 1
    Faults = {"valkey", "postgres"}
    Stall = TRUE
SYMMETRY Symmetry
INVARIANTS
    LinkRedeemedOnce
    ResetEndsOlderSessions
