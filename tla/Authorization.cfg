SPECIFICATION FairSpec
CONSTANTS
    root = root
    alice = alice
    S = S
    P = P
    Q = Q
    m = m
    x = x
    c = c
    None = None
    User = {root, alice}
    Policy = {S, P, Q}
    Action = {m, x}
    Cond = {c}
    Req = {r1, r2}
    Manage = m
    BuiltIn = {m}
    Superuser = S
    System = {root}
    Caller = {alice}
    Op = {"assign", "remove", "revoke_action", "bulk_assign", "bulk_remove", "create", "update", "rollback", "delete", "grant", "ungrant"}
    Edits <- MCEdits
    Contexts <- MCContexts
    InitPolicy <- MCPolicy
    InitHeld <- MCHeld
    InitDirect <- MCDirect
    Bounds <- MCBounds
INVARIANTS
    EditsFormAChain
PROPERTIES
    
    CachesCatchUp
CHECK_DEADLOCK FALSE
