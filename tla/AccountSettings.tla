-------------------------- MODULE AccountSettings ---------------------------
(***************************************************************************)
(* The Account Settings page: the tab strip, whose selection is the tab    *)
(* component's own; the panel that is shown, which is the page's; and the  *)
(* name, password and deletion cards, which stay mounted once visited.  A  *)
(* link with another ?tab= gives the tab component a new key, and every    *)
(* card is mounted anew.                                                   *)
(***************************************************************************)
EXTENDS Naturals, FiniteSets

CONSTANTS
    Tabs,       \* the tabs; has "profile", "password" and "danger"
    MaxTyping,  \* edits and requests
    MaxLinks    \* links followed, faults and changes made elsewhere

VARIABLES
    link,           \* the ?tab= of the address: {} or {a tab}
    strip,          \* the tab that the strip shows as selected
    activeTab, visitedTabs,
    stored,         \* accountSettingsUiStore: {} or {a tab}
    server,         \* name, whether there is a password, whether the account is there
    profile,        \* the auth store's name and hasPassword
    fetching,       \* /auth/me is under way
    name,           \* ProfileNameCard: the text of its field
    password,       \* ChangePasswordCard: new and current password
    danger,         \* DeleteAccountCard: dialog open, email sent
    calls,          \* requests under way; heard: the card that sent it is still mounted
    dirty,          \* nameDirty, passwordDirty
    out,
    typing, links

settingsVars == <<link, strip, activeTab, visitedTabs, stored, server, profile, fetching, name,
                  password, danger, calls, dirty, out, typing, links>>

Types == typing < MaxTyping /\ typing' = typing + 1
Turn  == links < MaxLinks /\ links' = links + 1

tabs   == <<link, strip, activeTab, visitedTabs, stored>>
cards  == <<name, password, danger, dirty>>
me     == <<server, profile, fetching>>

Names == {"old", "new", "other"}

NoPassword == [new |-> "", current |-> ""]
NoDanger   == [open |-> FALSE, sent |-> FALSE]

isPending(hook) == \E c \in calls : c.hook = hook /\ c.heard
Send(hook, to)  == Types /\ calls' = calls \cup {[hook |-> hook, to |-> to, heard |-> TRUE]}

\* The cards report whether they hold an edit whenever that changes, and on mount.
NameDirty(n, p)  == "profile" \in visitedTabs /\ n # p.name
PasswordDirty(w) == "password" \in visitedTabs /\ w.new # ""

\* Mutant of Report: the name card does not hear of the name that it is given.
ReportTyping(n, w, p) ==
    dirty' = [name |-> IF n = name THEN dirty.name ELSE NameDirty(n, p),
              password |-> PasswordDirty(w)]

Report(n, w, p) == dirty' = [name |-> NameDirty(n, p), password |-> PasswordDirty(w)]

\* useUnsavedChangesWarning: closing or reloading the browser tab asks first.
Warns == dirty.name \/ dirty.password

\* A panel is on the screen if its tab was visited and is the page's.
Panel(t) == ~out /\ t = activeTab /\ t \in visitedTabs

-----------------------------------------------------------------------------
Init ==
    \E t \in SUBSET Tabs, s \in SUBSET Tabs :
        /\ Cardinality(t) <= 1 /\ Cardinality(s) <= 1
        /\ link = t /\ stored = s
        /\ strip = CHOOSE x \in Tabs : IF t # {} THEN x \in t ELSE IF s # {} THEN x \in s ELSE x = "profile"
        /\ activeTab = strip /\ visitedTabs = {strip}
        /\ profile \in [name : {"old"}, hasPassword : BOOLEAN] /\ fetching = FALSE
        /\ server = [name |-> "old", hasPassword |-> profile.hasPassword, there |-> TRUE]
        /\ name = profile.name /\ password = NoPassword /\ danger = NoDanger /\ calls = {}
        /\ dirty = [name |-> FALSE, password |-> FALSE]
        /\ out = FALSE /\ typing = 0 /\ links = 0

Free == ~out /\ ~danger.open

\* A click on a tab that the strip does not show as selected.  The card of a tab
\* that was not visited is mounted now.
handleTabChange(t) ==
    /\ Free /\ t # strip
    /\ strip' = t /\ activeTab' = t /\ stored' = {t} /\ visitedTabs' = visitedTabs \cup {t}
    /\ name' = IF t = "profile" /\ t \notin visitedTabs THEN profile.name ELSE name
    /\ UNCHANGED <<link, me, password, danger, calls, dirty, out, typing, links>>

\* A link to this page from the command palette or the side bar.  The state of
\* the page stays as it is.
FollowLink(t) ==
    /\ Free /\ Turn /\ link' = t
    /\ IF t = link
       THEN UNCHANGED <<strip, cards, calls>>
       ELSE /\ strip' = CHOOSE x \in Tabs : IF t # {} THEN x \in t ELSE IF stored # {} THEN x \in stored ELSE x = "profile"
            /\ name' = profile.name /\ password' = NoPassword /\ danger' = NoDanger
            /\ calls' = {[c EXCEPT !.heard = FALSE] : c \in calls}
            /\ Report(name', password', profile)
    /\ UNCHANGED <<activeTab, visitedTabs, stored, me, out, typing>>

-----------------------------------------------------------------------------
\* The cards.

setEditedName(x) ==
    /\ Free /\ Panel("profile") /\ x # name /\ Types
    /\ name' = x
    /\ Report(name', password, profile)
    /\ UNCHANGED <<tabs, me, password, danger, calls, out, links>>

handleNameSubmit ==
    /\ Free /\ Panel("profile") /\ ~isPending("name") /\ name \notin {"", profile.name}
    /\ Send("name", name)
    /\ UNCHANGED <<tabs, me, cards, out, links>>

setPasswords(new, current) ==
    /\ Free /\ Panel("password") /\ Types
    /\ password' = [new |-> new, current |-> current] /\ password' # password
    /\ Report(name, password', profile)
    /\ UNCHANGED <<tabs, me, name, danger, calls, out, links>>

\* validatePassword, and the current password of an account that has one.
handlePasswordSubmit ==
    /\ Free /\ Panel("password") /\ ~isPending("password")
    /\ password.new = "strong" /\ (profile.hasPassword => password.current # "")
    /\ Send("password", password.current)
    /\ UNCHANGED <<tabs, me, cards, out, links>>

\* An account with a password has typed it.
handleRequestDelete ==
    /\ Free /\ Panel("danger") /\ ~danger.sent
    /\ danger' = [danger EXCEPT !.open = TRUE]
    /\ UNCHANGED <<tabs, me, name, password, calls, dirty, out, typing, links>>

\* The X closes the dialog even while the request is under way.
cancelDelete ==
    /\ danger.open /\ ~out
    /\ danger' = [danger EXCEPT !.open = FALSE]
    /\ UNCHANGED <<tabs, me, name, password, calls, dirty, out, typing, links>>

handleConfirmDelete ==
    /\ danger.open /\ ~isPending("danger") /\ ~out
    /\ Send("danger", IF profile.hasPassword THEN "typed" ELSE "")
    /\ UNCHANGED <<tabs, me, cards, out, links>>

-----------------------------------------------------------------------------
\* The answers; the server's step and its arrival are one, for what comes between
\* is in the rotation and deletion models.  The hooks refetch /auth/me; the cards
\* hear of it if they are still the ones that asked.

CallFails(c) ==
    /\ ~out /\ Turn /\ calls' = calls \ {c}
    /\ danger' = IF c.hook = "danger" /\ c.heard THEN [danger EXCEPT !.open = FALSE] ELSE danger
    /\ UNCHANGED <<tabs, me, name, password, dirty, out, typing>>

NameSaved(c) ==
    /\ c.hook = "name" /\ ~out /\ calls' = calls \ {c}
    /\ server' = [server EXCEPT !.name = c.to] /\ fetching' = TRUE
    /\ name' = IF c.heard THEN c.to ELSE name
    /\ Report(name', password, profile)
    /\ UNCHANGED <<tabs, profile, password, danger, out, typing, links>>

\* The server wants the current password of an account that has one.
PasswordSaved(c) ==
    /\ c.hook = "password" /\ ~out /\ calls' = calls \ {c}
    /\ IF server.hasPassword /\ c.to = ""
       THEN UNCHANGED <<server, fetching, password, dirty>>
       ELSE /\ server' = [server EXCEPT !.hasPassword = TRUE] /\ fetching' = TRUE
            /\ password' = IF c.heard THEN NoPassword ELSE password
            /\ Report(name, password', profile)
    /\ UNCHANGED <<tabs, profile, name, danger, out, typing, links>>

\* Without a password an email is sent first; with one the account is gone, and
\* clearMyAccountSessionCaches and /login follow.
DeleteAnswered(c) ==
    /\ c.hook = "danger" /\ ~out /\ calls' = calls \ {c}
    /\ server' = [server EXCEPT !.there = ~(server.hasPassword /\ c.to # "")]
    /\ out' = (server.hasPassword /\ c.to # "")
    /\ danger' = IF c.heard THEN [open |-> FALSE, sent |-> ~server.hasPassword] ELSE danger
    /\ UNCHANGED <<tabs, profile, fetching, name, password, dirty, typing, links>>

\* The auth store gets what /auth/me says.
ReceiveMe ==
    /\ fetching /\ ~out
    /\ fetching' = FALSE
    /\ profile' = [name |-> server.name, hasPassword |-> server.hasPassword]
    /\ Report(name, password, profile')
    /\ UNCHANGED <<tabs, server, name, password, danger, calls, out, typing, links>>

\* The name is changed in another tab, and an event or a poll brings it here.
ElsewhereRenamed ==
    /\ ~out /\ Turn /\ server.name # "other"
    /\ server' = [server EXCEPT !.name = "other"] /\ fetching' = TRUE
    /\ UNCHANGED <<tabs, profile, cards, calls, out, typing>>

Next ==
    \/ \E t \in Tabs : handleTabChange(t)
    \/ \E t \in SUBSET Tabs : Cardinality(t) <= 1 /\ FollowLink(t)
    \/ \E x \in Names \cup {""} : setEditedName(x)
    \/ \E new \in {"", "weak", "strong"}, current \in {"", "typed"} : setPasswords(new, current)
    \/ handleNameSubmit \/ handlePasswordSubmit
    \/ handleRequestDelete \/ cancelDelete \/ handleConfirmDelete
    \/ \E c \in calls : CallFails(c) \/ NameSaved(c) \/ PasswordSaved(c) \/ DeleteAnswered(c)
    \/ ReceiveMe \/ ElsewhereRenamed

Spec == Init /\ [][Next]_settingsVars

-----------------------------------------------------------------------------
\* Types: the panel that is shown was mounted, and each card waits for at most one
\* answer.
TypeOK ==
    /\ strip \in Tabs /\ activeTab \in visitedTabs /\ visitedTabs \subseteq Tabs
    /\ Cardinality(link) <= 1 /\ Cardinality(stored) <= 1
    /\ name \in Names \cup {""} /\ out = ~server.there
    /\ \A c, d \in calls : c.hook = d.hook /\ c.heard /\ d.heard => c = d

\* Whatever was typed, saved, refetched or mounted anew, the page warns of unsaved
\* edits exactly while one of its cards holds one.
WarnsOfUnsaved ==
    Warns <=> \/ "profile" \in visitedTabs /\ name # profile.name
              \/ "password" \in visitedTabs /\ password.new # ""

\* AccountSettingsPage.tsx:97-99: "Initial tab precedence: (1) a one-shot `?tab=`
\* deep link (the command palette uses it)".  The panel on the screen is the one
\* that the strip shows as selected.
StripMatchesPanel == strip = activeTab

\* AccountSettingsPage.tsx:84-86: "keeps it mounted but hidden, so switching tabs
\* does not discard an edit".  Going to another tab keeps what was typed.
EditsSurviveTabs ==
    [][strip' # strip \/ link' # link => name' = name /\ password'.new = password.new]_settingsVars

\* ProfileNameCard.tsx:15-17: "whether the name field currently differs from the
\* saved value".  A field in which nothing is typed is no unsaved edit.
UntypedIsClean == typing = 0 => ~Warns
=============================================================================
