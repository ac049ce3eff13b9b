------------------------- MODULE MCBrowserSession --------------------------
EXTENDS BrowserSession

CONSTANTS a, b
OneAccount  == {a}
TwoAccounts == {a, b}

\* Two lists that share no action, and the empty one.
SomeGrants ==
    {{"users:list_all", "policies:read"},
     {"policies:create", "permissions:read", "rate_limits:read", "security_audit:read"},
     {}}
TwoGrants == {{"users:list_all"}, {}}
=============================================================================
