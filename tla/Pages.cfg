SPECIFICATION PagesSpec
CONSTANTS
    Me = "me"
    MaxEvents = 2
    Order <- MCOrder
    SystemUsers = {}
    Found = {"ann"}
    Deactivated = {"ann"}
    Perms = {"policies:read", "policies:assign", "policies:revoke", "permissions:grant", "permissions:revoke", "users:assign_role", "users:reactivate", "users:deactivate_any", "users:delete_any"}
    PageSize = 1
    ChunkSize = 1
    SelectCap = 3
    ListLinks = {"none", "held"}
    Person = {"ann"}
    Locked = {}
    ProtectedPolicies = {"p2"}
    Holdings <- MCHoldings
    AccessCatalog <- MCAccessCatalog
    Contents <- MCContents
    AccessRights = {"read", "edit", "policies:read", "policies:assign", "policies:revoke", "permissions:read", "permissions:grant", "permissions:revoke", "users:manage_passkeys"}
    MaxAccessChanges = 2
    Catalog <- MCCatalog
    StartPolicies <- MCStart
    NewName = "p2"
    ProtectedNames = {}
    Grantable = {"read", "edit", "audit"}
    Mine = {"policies:read", "policies:create", "policies:update", "policies:delete"}
    Texts = {"bad"}
    MaxEdits = 2
    Items = {"i1", "i2"}
    Added = "i3"
    CurrentItem = "i1"
    Labels = {"a", "b"}
    MaxChecks = 1
    SettingsTabs = {"profile", "password", "danger"}
    MaxTyping = 2
    MaxLinks = 2
    Emails = {"x", "y"}
    LinkTokens = {"t1", "t2"}
    Entries <- MCEntries
    Written = 3
    LogSections = {"security"}
    LogPageSize = 2
    LogLinks <- MCLogLinks
    Days = {1, 2}
    Kept <- MCKept
    MaxLogEdits = 1
    MaxLogFaults = 1
    Counters <- MCCounters
    MayReset = TRUE
    MaxSteps = 2
INVARIANTS
    TargetsChosenHere
    OwnChangesShow
    AccessSettles
    FormMatchesServer
    ConfirmedChangesAreDone
    WarnsOfUnsaved
    LiveLinksStayUsable
    DrawerAtItsPlace
    OneResetAtATime
CHECK_DEADLOCK FALSE
