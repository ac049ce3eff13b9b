------------------------- MODULE MCCrossTabRefresh -------------------------
EXTENDS CrossTabRefresh

CONSTANTS a, b
TwoTabs  == {a, b}
OneOrTwo == {{a}, {a, b}}
=============================================================================
