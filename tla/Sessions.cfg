SPECIFICATION Spec
CONSTANTS
    u1 = u1
    None = None
    User = {u1}
    Chain = {c1, c2}
    Jti = {j1, j2, j3}
    IP = {a1}
    Req = {r1, r2}
    Owner <- OneOwner
    Op = {"login", "refresh", "revoke", "logout_all", "password"}
    Grace = TRUE
    Faults = FALSE
    MaxVersion = 1
SYMMETRY Symmetry
INVARIANTS
    SingleUse
    ChildDiesWithParent
    
    RowsKeepTheirChain
PROPERTIES
    RevocationIsFinal
    OnlyTargetsAreRevoked
\* Token ids run out: a run ends when every jti has been minted.
CHECK_DEADLOCK FALSE
