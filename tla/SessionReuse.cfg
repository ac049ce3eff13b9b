SPECIFICATION FairSpec
CONSTANTS
    u1 = u1
    None = None
    User = {u1}
    Chain = {c1}
    Jti = {j1, j2}
    IP = {a1, a2}
    Req = {r1, r2}
    Owner <- OneOwner
    Op = {"login", "refresh"}
    Grace = TRUE
    Faults = FALSE
    MaxVersion = 1
PROPERTIES
    ReuseEndsChain
\* Token ids run out: a run ends when every jti has been minted.
CHECK_DEADLOCK FALSE
