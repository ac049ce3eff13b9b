------------------------------- MODULE Pages -------------------------------
(***************************************************************************)
(* The pages of the browser, of which the router shows one: each behaviour *)
(* is that of one page, with its own server data and its own bounds.  A    *)
(* variable of two pages is declared once, and those of the pages that are *)
(* not shown keep the value "unmounted".                                   *)
(***************************************************************************)
EXTENDS Naturals, Sequences

CONSTANTS
    Me, MaxEvents,      \* of more than one page, as PageSize
    \* the user management page
    Order, SystemUsers, Deactivated, Found, Perms, PageSize, ChunkSize, SelectCap, ListLinks,
    \* its access dialog
    Person, Locked, AccessCatalog, Contents, ProtectedPolicies, AccessRights, Holdings, MaxAccessChanges,
    \* the policies page
    Catalog, StartPolicies, NewName, ProtectedNames, Grantable, Mine, Texts, MaxEdits,
    \* passkeys and active sessions
    Items, Added, CurrentItem, Labels, MaxChecks,
    \* the account settings
    SettingsTabs, MaxTyping, MaxLinks,
    \* the signed-out pages
    Emails, LinkTokens,
    \* the audit log
    Entries, Written, LogSections, LogPageSize, LogLinks, Days, Kept, MaxLogEdits, MaxLogFaults,
    \* the rate limits
    Counters, MayReset, MaxSteps

\* Every policy at first has its fields and grants something (policy_schema.py:40).
ASSUME StartAssumption == \A n \in DOMAIN StartPolicies :
    DOMAIN StartPolicies[n] = {"active", "actions", "type", "text"} /\ StartPolicies[n].actions # {}

\* The log has some of its entries at first, and its pages are not empty.
ASSUME LogAssumption ==
    Len(Entries) \in Nat /\ Written \in Nat /\ Written <= Len(Entries) /\ LogPageSize \in Nat \ {0}

VARIABLES
    mounted,    \* the page that is shown
    \* the user management page
    account, filters, listPage, listCache, checked, all, gather, userDialog, bulkDialog,
    userCount, chosen,
    \* its access dialog
    accessHeld, lists, access, mutations, spent,
    \* the policies page
    policyServer, past, filter, cards, override, policyDialog, deleting, holders, used,
    \* passkeys and active sessions
    card, hasPassword, items, list, cells, selected, ask, requests, parked, checks,
    unlocked, owed, dropped, lost, typed, events,
    \* the account settings
    link, strip, activeTab, visitedTabs, stored, settingsServer, profile, fetching,
    name, password, danger, calls, dirty, typing, links,
    \* the signed-out pages
    linkPage, url, token, manualToken, email, secret, call, resend, cooling, status,
    registered,
    \* the audit log
    place, stores, debounced, mount, view, queries, openIndex, openEntry, log, under,
    uses,
    \* the rate limits
    limits, searched, counters, shown, polled, failed, resetting, submitGuard, rendered,
    resets, took,
    \* of more than one page
    jobs, latest, toasts, out

usersOnly ==
    <<account, filters, listPage, listCache, checked, all, gather, userDialog,
      bulkDialog, userCount, chosen>>
accessOnly ==
    <<accessHeld, lists, access, mutations, spent>>
policiesOnly ==
    <<policyServer, past, filter, cards, override, policyDialog, deleting, holders, used>>
selfOnly ==
    <<card, hasPassword, items, list, cells, selected, ask, requests, parked, checks,
      unlocked, owed, dropped, lost, typed, events>>
settingsOnly ==
    <<link, strip, activeTab, visitedTabs, stored, settingsServer, profile, fetching,
      name, password, danger, calls, dirty, typing, links>>
linksOnly ==
    <<linkPage, url, token, manualToken, email, secret, call, resend, cooling, status,
      registered>>
auditOnly ==
    <<place, stores, debounced, mount, view, queries, openIndex, openEntry, log, under,
      uses>>
limitsOnly ==
    <<limits, searched, counters, shown, polled, failed, resetting, submitGuard,
      rendered, resets, took>>
sharedVars == <<jobs, latest, toasts, out>>

pagesVars == <<mounted, usersOnly, accessOnly, policiesOnly, selfOnly, settingsOnly, linksOnly,
               auditOnly, limitsOnly, sharedVars>>

-----------------------------------------------------------------------------
(* The pages.  A name that two of them declare for something of their own   *)
(* is given here to one of them only.                                      *)
Users == INSTANCE UsersPage WITH
    Links <- ListLinks, page <- listPage, cache <- listCache, selected <- checked,
    dialog <- userDialog, count <- userCount
Access == INSTANCE AccessDialog WITH
    Self <- Me, Protected <- ProtectedPolicies, Catalog <- AccessCatalog,
    Rights <- AccessRights, MaxChanges <- MaxAccessChanges, held <- accessHeld,
    requests <- mutations
Policies == INSTANCE PoliciesPage WITH
    Start <- StartPolicies, server <- policyServer, dialog <- policyDialog
Tables == INSTANCE SelfService WITH Here <- CurrentItem
Settings == INSTANCE AccountSettings WITH Tabs <- SettingsTabs, server <- settingsServer
Mailed == INSTANCE AccountLinks WITH Tokens <- LinkTokens, page <- linkPage
Audit == INSTANCE AuditLog WITH
    May <- LogSections, Links <- LogLinks, PageSize <- LogPageSize,
    MaxEdits <- MaxLogEdits, MaxFaults <- MaxLogFaults
Limits == INSTANCE RateLimits

-----------------------------------------------------------------------------
(* What is not shown keeps nothing.                                          *)
Off(v) == v = "unmounted"

NoUsers ==
    /\ Off(account) /\ Off(filters) /\ Off(listPage) /\ Off(listCache) /\ Off(checked)
    /\ Off(all) /\ Off(gather) /\ Off(userDialog) /\ Off(bulkDialog) /\ Off(userCount)
    /\ Off(chosen)
NoAccess ==
    /\ Off(accessHeld) /\ Off(lists) /\ Off(access) /\ Off(mutations) /\ Off(spent)
NoPolicies ==
    /\ Off(policyServer) /\ Off(past) /\ Off(filter) /\ Off(cards) /\ Off(override)
    /\ Off(policyDialog) /\ Off(deleting) /\ Off(holders) /\ Off(used)
NoSelf ==
    /\ Off(card) /\ Off(hasPassword) /\ Off(items) /\ Off(list) /\ Off(cells)
    /\ Off(selected) /\ Off(ask) /\ Off(requests) /\ Off(parked) /\ Off(checks)
    /\ Off(unlocked) /\ Off(owed) /\ Off(dropped) /\ Off(lost) /\ Off(typed) /\ Off(events)
NoSettings ==
    /\ Off(link) /\ Off(strip) /\ Off(activeTab) /\ Off(visitedTabs) /\ Off(stored)
    /\ Off(settingsServer) /\ Off(profile) /\ Off(fetching) /\ Off(name) /\ Off(password)
    /\ Off(danger) /\ Off(calls) /\ Off(dirty) /\ Off(typing) /\ Off(links)
NoLinks ==
    /\ Off(linkPage) /\ Off(url) /\ Off(token) /\ Off(manualToken) /\ Off(email)
    /\ Off(secret) /\ Off(call) /\ Off(resend) /\ Off(cooling) /\ Off(status)
    /\ Off(registered)
NoAudit ==
    /\ Off(place) /\ Off(stores) /\ Off(debounced) /\ Off(mount) /\ Off(view)
    /\ Off(queries) /\ Off(openIndex) /\ Off(openEntry) /\ Off(log) /\ Off(under)
    /\ Off(uses)
NoLimits ==
    /\ Off(limits) /\ Off(searched) /\ Off(counters) /\ Off(shown) /\ Off(polled)
    /\ Off(failed) /\ Off(resetting) /\ Off(submitGuard) /\ Off(rendered) /\ Off(resets)
    /\ Off(took)

(* One page is mounted, with the server data that it starts from.            *)
PagesInit ==
    \/ /\ mounted = "users" /\ Users!Init
       /\ NoAccess /\ NoPolicies /\ NoSelf /\ NoSettings /\ NoLinks /\ NoAudit /\ NoLimits
       /\ Off(latest) /\ Off(toasts) /\ Off(out)
    \/ /\ mounted = "access" /\ Access!Init
       /\ NoUsers /\ NoPolicies /\ NoSelf /\ NoSettings /\ NoLinks /\ NoAudit /\ NoLimits
       /\ Off(jobs) /\ Off(out)
    \/ /\ mounted = "policies" /\ Policies!Init
       /\ NoUsers /\ NoAccess /\ NoSelf /\ NoSettings /\ NoLinks /\ NoAudit /\ NoLimits
       /\ Off(out)
    \/ /\ mounted = "self" /\ Tables!Init
       /\ NoUsers /\ NoAccess /\ NoPolicies /\ NoSettings /\ NoLinks /\ NoAudit /\ NoLimits
       /\ Off(jobs) /\ Off(latest) /\ Off(toasts)
    \/ /\ mounted = "settings" /\ Settings!Init
       /\ NoUsers /\ NoAccess /\ NoPolicies /\ NoSelf /\ NoLinks /\ NoAudit /\ NoLimits
       /\ Off(jobs) /\ Off(latest) /\ Off(toasts)
    \/ /\ mounted = "links" /\ Mailed!Init
       /\ NoUsers /\ NoAccess /\ NoPolicies /\ NoSelf /\ NoSettings /\ NoAudit /\ NoLimits
       /\ Off(jobs) /\ Off(latest) /\ Off(toasts) /\ Off(out)
    \/ /\ mounted = "audit" /\ Audit!Init
       /\ NoUsers /\ NoAccess /\ NoPolicies /\ NoSelf /\ NoSettings /\ NoLinks /\ NoLimits
       /\ Off(jobs) /\ Off(latest) /\ Off(toasts) /\ Off(out)
    \/ /\ mounted = "limits" /\ Limits!Init
       /\ NoUsers /\ NoAccess /\ NoPolicies /\ NoSelf /\ NoSettings /\ NoLinks /\ NoAudit
       /\ Off(jobs) /\ Off(latest) /\ Off(toasts) /\ Off(out)

(* Only that page, and the server it talks to, takes steps.                  *)
PagesNext ==
    \/ /\ mounted = "users" /\ Users!Next
       /\ UNCHANGED <<mounted, accessOnly, policiesOnly, selfOnly, settingsOnly, linksOnly,
                       auditOnly, limitsOnly, latest, toasts, out>>
    \/ /\ mounted = "access" /\ Access!Next
       /\ UNCHANGED <<mounted, usersOnly, policiesOnly, selfOnly, settingsOnly, linksOnly,
                       auditOnly, limitsOnly, jobs, out>>
    \/ /\ mounted = "policies" /\ Policies!Next
       /\ UNCHANGED <<mounted, usersOnly, accessOnly, selfOnly, settingsOnly, linksOnly,
                       auditOnly, limitsOnly, out>>
    \/ /\ mounted = "self" /\ Tables!Next
       /\ UNCHANGED <<mounted, usersOnly, accessOnly, policiesOnly, settingsOnly, linksOnly,
                       auditOnly, limitsOnly, jobs, latest, toasts>>
    \/ /\ mounted = "settings" /\ Settings!Next
       /\ UNCHANGED <<mounted, usersOnly, accessOnly, policiesOnly, selfOnly, linksOnly,
                       auditOnly, limitsOnly, jobs, latest, toasts>>
    \/ /\ mounted = "links" /\ Mailed!Next
       /\ UNCHANGED <<mounted, usersOnly, accessOnly, policiesOnly, selfOnly, settingsOnly,
                       auditOnly, limitsOnly, sharedVars>>
    \/ /\ mounted = "audit" /\ Audit!Next
       /\ UNCHANGED <<mounted, usersOnly, accessOnly, policiesOnly, selfOnly, settingsOnly,
                       linksOnly, limitsOnly, sharedVars>>
    \/ /\ mounted = "limits" /\ Limits!Next
       /\ UNCHANGED <<mounted, usersOnly, accessOnly, policiesOnly, selfOnly, settingsOnly,
                       linksOnly, auditOnly, sharedVars>>

PagesSpec == PagesInit /\ [][PagesNext]_pagesVars

-----------------------------------------------------------------------------
(* Types, and the shape of what each page keeps.                             *)
PagesTypeOK ==
    /\ mounted = "users" => Users!TypeOK
    /\ mounted = "access" => Access!TypeOK
    /\ mounted = "policies" => Policies!TypeOK
    /\ mounted = "self" => Tables!TypeOK
    /\ mounted = "settings" => Settings!TypeOK
    /\ mounted = "links" => Mailed!TypeOK
    /\ mounted = "audit" => Audit!TypeOK
    /\ mounted = "limits" => Limits!TypeOK

(* What a bulk change is sent for was chosen by the caller under the filters  *)
(* that are on the screen (UsersPage).                                       *)
TargetsChosenHere == mounted = "users" => Users!TargetsChosenHere

(* The list shows the caller's own changes once all is quiet (UsersPage).     *)
OwnChangesShow == mounted = "users" => Users!OwnChangesShow

(* The access dialog ends up showing what the account holds (AccessDialog).   *)
AccessSettles == mounted = "access" => Access!AccessSettles

(* The editor of a policy ends up showing the policy (PoliciesPage).          *)
FormMatchesServer == mounted = "policies" => Policies!FormMatchesServer

(* The identity check forgets no change of a passkey (SelfService).           *)
ConfirmedChangesAreDone == mounted = "self" => Tables!ConfirmedChangesAreDone

(* The browser warns of unsaved edits exactly while there are some            *)
(* (AccountSettings).                                                        *)
WarnsOfUnsaved == mounted = "settings" => Settings!WarnsOfUnsaved

(* No page gives up a link that can still be redeemed (AccountLinks).         *)
LiveLinksStayUsable == mounted = "links" => Mailed!LiveLinksStayUsable

(* The drawer shows the entry at the position it names (AuditLog).            *)
DrawerAtItsPlace == mounted = "audit" => Audit!DrawerAtItsPlace

(* One confirmation resets one counter, once (RateLimits).                    *)
OneResetAtATime == mounted = "limits" => Limits!OneResetAtATime
=============================================================================
