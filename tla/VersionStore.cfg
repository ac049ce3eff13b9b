SPECIFICATION Spec
CONSTANTS
    Tx = {t1, t2}
    LegacyStart <- MCLegacyStart
    MaxVersion = 4
INVARIANTS
    NoLostBump
    AcceptedWasCurrent
PROPERTIES
    ImplementsCounter
