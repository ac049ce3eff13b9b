---------------------------- MODULE SelfService -----------------------------
(***************************************************************************)
(* The two tables in which a user manages what signs them in: the passkeys *)
(* of Account Settings and the active sessions of the dashboard, of which  *)
(* one is open.  A passkey change that the server refuses for want of a    *)
(* fresh identity check is parked while the user confirms who they are,    *)
(* and then runs again; closing the dialog (its X works even while a       *)
(* confirmation is out) drops it.  The callbacks of these mutations belong *)
(* to the hooks, so they run whatever has been closed since.               *)
(***************************************************************************)
EXTENDS Naturals, FiniteSets, QueryCache

CONSTANTS
    Items,      \* the passkeys or sessions at first
    Added,      \* the passkey that add makes, none of Items
    Here,       \* the one of Items that is the session of this browser
    Labels,     \* names of a passkey
    MaxChecks,  \* identity checks that are out at once
    MaxEvents   \* changes asked for of a name, lost requests, changes made
                \* elsewhere and the end of a window, together

Ids   == Items \cup {Added}

VARIABLES
    card,       \* "passkeys" or "sessions"
    hasPassword,
    items,      \* on the server: the label of each
    list,       \* the list query
    cells,      \* the text in the name field of each row, {} if it is not shown
    selected,   \* selectedIds, selectedSessionIds
    ask,        \* the confirmation that is open: {} or {[hook, ids]}
    requests,   \* under way; last: the latest call of its hook
    parked,     \* stepUpRetry: {} or {a change}
    checks,     \* identity confirmations under way
    unlocked,   \* passkey changes are unlocked on the server
    out,        \* this browser was signed out
    owed,       \* history: changes asked for of which the user has heard nothing since
    dropped,    \* history: changes whose identity check was cancelled
    lost,       \* history: a parked change was displaced, or gone with the page
    typed,      \* history: the rows in which something was typed since they appeared
    events

selfVars == <<card, hasPassword, items, list, cells, selected, ask, requests, parked,
              checks, unlocked, out, owed, dropped, lost, typed, events>>

Rows  == IF Shown(list) THEN DOMAIN Value(list) ELSE {}
Total == IF list.data = {} THEN 0 ELSE Cardinality(DOMAIN Value(list))

isPending(hook) == \E r \in requests : r.hook = hook /\ r.last

\* A modal covers the page; the identity check comes up over a confirmation.
Free == ask = {} /\ parked = {} /\ ~out

-----------------------------------------------------------------------------
Init ==
    /\ card \in {"passkeys", "sessions"} /\ hasPassword \in BOOLEAN
    /\ card = "sessions" => hasPassword
    /\ items = [i \in Items |-> CHOOSE l \in Labels : TRUE]
    /\ list = Opened /\ cells = [i \in Ids |-> {}] /\ selected = {} /\ ask = {}
    /\ requests = {}
    /\ parked = {} /\ checks = {} /\ unlocked = FALSE /\ out = FALSE
    /\ owed = {} /\ dropped = {} /\ lost = FALSE /\ typed = {}
    /\ events = 0

Event == events < MaxEvents /\ events' = events + 1

\* A selection or a question is of no account once no change can follow it.
MayAct == events < MaxEvents

Mutate(c) ==
    requests' = {[r EXCEPT !.last = @ /\ r.hook # c.hook] : r \in requests}
                    \cup {[hook |-> c.hook, ids |-> c.ids, to |-> c.to, last |-> TRUE, result |-> "none"]}

Change(hook, ids, to) == [hook |-> hook, ids |-> ids, to |-> to]

\* A change the user asked for.
Request(c) == Event /\ Mutate(c) /\ owed' = owed \cup {c}

server == <<card, hasPassword, items, unlocked>>
stepUp == <<parked, checks, dropped, lost>>
names  == <<cells, typed>>

\* The row of this device cannot be selected, and a table of one row has no
\* selection.
toggleRow(i) ==
    /\ Free /\ MayAct /\ i \in Rows /\ Total > 1 /\ ~(card = "sessions" /\ i = Here)
    /\ selected' = IF i \in selected THEN selected \ {i} ELSE selected \cup {i}
    /\ UNCHANGED <<server, list, names, ask, requests, stepUp, out, owed, events>>

clearSelection ==
    /\ Free /\ selected # {} /\ Total > 1
    /\ selected' = {}
    /\ UNCHANGED <<server, list, names, ask, requests, stepUp, out, owed, events>>

Open(c) ==
    /\ Free /\ MayAct /\ ask' = {c}
    /\ UNCHANGED <<server, list, names, selected, requests, stepUp, out, owed, events>>

\* The button of a row: on this device's session it means an ordinary logout.
askRow(i) ==
    /\ i \in Rows
    /\ LET hook == IF card = "sessions" /\ i = Here THEN "logout" ELSE "remove"
       IN  /\ hook = "logout" => ~isPending("logout")
           /\ hook = "remove" /\ card = "sessions" =>
                ~\E r \in requests : r.hook = "remove" /\ r.last /\ r.ids = {i}
           /\ Open(Change(hook, {i}, ""))

askSelected == selected # {} /\ Total > 1 /\ Open(Change("bulk", {}, "selected"))
askAll ==
    \/ card = "passkeys" /\ Total > 1 /\ Open(Change("bulk", {}, "all"))
    \/ card = "sessions" /\ ~isPending("everywhere") /\ Open(Change("everywhere", {}, ""))

\* The X, Escape or Cancel of a confirmation; the first two also while its
\* request is under way.
cancelAsk ==
    /\ ask # {} /\ parked = {}
    /\ ask' = {}
    /\ UNCHANGED <<server, list, names, selected, requests, stepUp, out, owed, events>>

\* confirmBulk, handleConfirm, handleBulkConfirm: what is selected is read now,
\* and the logouts close their dialog at once.
confirm ==
    /\ parked = {}
    /\ \E c \in ask :
        /\ ~isPending(c.hook)
        /\ Request(IF c.hook = "bulk" /\ c.to = "selected" THEN [c EXCEPT !.ids = selected] ELSE c)
        /\ ask' = IF c.hook \in {"logout", "everywhere"} THEN {} ELSE ask
    /\ UNCHANGED <<server, list, names, selected, stepUp, out>>

add ==
    /\ card = "passkeys" /\ Free /\ Added \notin DOMAIN items /\ ~isPending("add")
    /\ Request(Change("add", {Added}, ""))
    /\ UNCHANGED <<server, list, names, selected, ask, stepUp, out>>

-----------------------------------------------------------------------------
\* The name field of a row.

typeName(i, l) ==
    /\ card = "passkeys" /\ Free /\ cells[i] \notin {{}, {l}} /\ ~isPending("rename")
    /\ cells' = [cells EXCEPT ![i] = {l}]
    /\ typed' = typed \cup {i} /\ Event
    /\ UNCHANGED <<server, list, selected, ask, requests, stepUp, out, owed>>

\* Focus leaves the field (commit): an empty name goes back, one that differs
\* from the row's is sent.
leaveName(i) ==
    /\ card = "passkeys" /\ Free /\ cells[i] # {} /\ i \in Rows /\ ~isPending("rename")
    /\ IF cells[i] = {""}
       THEN /\ cells' = [cells EXCEPT ![i] = {Value(list)[i]}]
            /\ UNCHANGED <<requests, owed, events>>
       ELSE /\ cells[i] # {Value(list)[i]}
            /\ \E l \in cells[i] : Request(Change("rename", {i}, l))
            /\ UNCHANGED cells
    /\ UNCHANGED <<server, list, typed, selected, ask, stepUp, out>>

-----------------------------------------------------------------------------
\* The server's side.

Targets(r) ==
    IF r.hook = "everywhere" \/ r.to = "all" THEN DOMAIN items ELSE r.ids \cap DOMAIN items

\* Adding and removing passkeys needs a fresh check of the identity, and renaming
\* does not.
needsStepUp(r) == card = "passkeys" /\ r.hook # "rename" /\ ~unlocked

Outcome(r) ==
    IF needsStepUp(r) THEN "stepup"
    ELSE IF r.hook # "add" /\ Targets(r) = {} THEN "error"
    ELSE "ok"

ServerApplies(r) ==
    /\ r.result = "none"
    /\ items' = IF Outcome(r) # "ok" THEN items
                ELSE IF r.hook = "add" THEN [i \in DOMAIN items \cup r.ids |->
                                                IF i \in r.ids THEN CHOOSE l \in Labels : TRUE ELSE items[i]]
                ELSE IF r.hook = "rename" THEN [i \in DOMAIN items |-> IF i \in r.ids THEN r.to ELSE items[i]]
                ELSE [i \in DOMAIN items \ Targets(r) |-> items[i]]
    /\ requests' = (requests \ {r}) \cup {[r EXCEPT !.result = Outcome(r)]}
    /\ UNCHANGED <<card, hasPassword, list, names, selected, ask, stepUp, unlocked, out, owed, events>>

\* The browser's prompt is cancelled, or a request or its answer is lost.
RequestFails(r) ==
    /\ Event
    /\ requests' = (requests \ {r}) \cup {[r EXCEPT !.result = "error"]}
    /\ UNCHANGED <<server, list, names, selected, ask, stepUp, out, owed>>

UnlockEnds ==
    /\ unlocked /\ Event
    /\ unlocked' = FALSE
    /\ UNCHANGED <<card, hasPassword, items, list, names, selected, ask, requests, stepUp, out, owed>>

\* Another tab or device renames a passkey or takes an item away.
ElsewhereChanges(i) ==
    /\ i \in DOMAIN items \ {Here} /\ Event
    /\ \/ items' = [j \in DOMAIN items \ {i} |-> items[j]]
       \/ card = "passkeys" /\ \E l \in Labels \ {items[i]} : items' = [items EXCEPT ![i] = l]
    /\ UNCHANGED <<card, hasPassword, list, names, selected, ask, requests, stepUp, unlocked, out, owed>>

-----------------------------------------------------------------------------
\* What the user asked for and has now heard of.
Told(r) == owed \ {Change(r.hook, r.ids, r.to)}

\* A removal and the logout of this device share one dialog state.
Closed(r) == {c \in ask : c.hook # r.hook /\ ~(r.hook = "remove" /\ c.hook = "logout")}

\* The callbacks of a success.  A single revocation leaves the selection as it
\* is.  A logout signs this browser out, whether it succeeded or not.
succeed(r) ==
    /\ r.result = "ok" /\ r.hook \notin {"logout", "everywhere"}
    /\ list' = Invalidated(list, TRUE)
    /\ ask' = Closed(r)
    /\ selected' = IF r.hook = "bulk" \/ (r.hook = "remove" /\ card = "passkeys") THEN {} ELSE selected
    /\ requests' = requests \ {r} /\ owed' = Told(r)
    /\ UNCHANGED <<server, names, stepUp, out, events>>

\* The callbacks of a failure that is told: its confirmation closes, except that
\* a bulk revocation of sessions always counts as done.
fail(r) ==
    /\ r.result = "error" /\ r.hook \notin {"logout", "everywhere"}
    /\ ask' = Closed(r)
    /\ IF card = "sessions" /\ r.hook = "bulk"
       THEN list' = Invalidated(list, TRUE) /\ selected' = {}
       ELSE UNCHANGED <<list, selected>>
    /\ requests' = requests \ {r} /\ owed' = Told(r)
    /\ UNCHANGED <<server, names, stepUp, out, events>>

\* A refusal for want of a fresh check parks the change: there is one place.
park(r) ==
    /\ r.result = "stepup"
    /\ ask' = Closed(r)
    /\ parked' = {Change(r.hook, r.ids, r.to)}
    /\ lost' = (lost \/ parked # {})
    /\ requests' = requests \ {r}
    /\ UNCHANGED <<server, list, names, selected, checks, dropped, out, owed, events>>

\* clearMyAccountSessionCaches and the way to /login.
signOut(r) ==
    /\ r.result # "none" /\ r.hook \in {"logout", "everywhere"}
    /\ out' = TRUE /\ ask' = {} /\ list' = Unused /\ cells' = [i \in Ids |-> {}]
    /\ requests' = {} /\ owed' = {}
    /\ UNCHANGED <<server, typed, selected, stepUp, events>>

-----------------------------------------------------------------------------
\* The identity check.

busy == \E c \in checks : c.attached

\* The password is asked for if there is one; a passkey if the list has one.
startCheck(by) ==
    /\ parked # {} /\ ~busy /\ Cardinality(checks) < MaxChecks
    /\ by = "password" => hasPassword
    /\ by = "passkey" => Total > 0
    /\ checks' = checks \cup {[attached |-> TRUE, action |-> {}, ok |-> FALSE, at |-> "sent"]}
    /\ UNCHANGED <<server, list, names, selected, ask, requests, parked, dropped, lost, out, owed, events>>

ServerChecks(c) ==
    /\ c.at = "sent"
    /\ \/ unlocked' = TRUE /\ checks' = (checks \ {c}) \cup {[c EXCEPT !.at = "answered", !.ok = TRUE]}
          /\ UNCHANGED events
       \/ Event /\ UNCHANGED unlocked
          /\ checks' = (checks \ {c}) \cup {[c EXCEPT !.at = "answered"]}
    /\ UNCHANGED <<card, hasPassword, items, list, names, selected, ask, requests, parked, dropped, lost, out, owed>>

\* Mutant of Resume: the place is emptied and nothing is run.
ResumeNothing(actions) == parked' = {} /\ UNCHANGED requests

\* resumeAfterStepUp: the change that the closure holds runs again, and the place
\* is emptied whatever is in it.
Resume(actions) ==
    /\ parked' = {}
    /\ IF actions = {} THEN UNCHANGED requests ELSE \E c \in actions : Mutate(c)

\* The callback of a confirmation that is still attached runs what is parked now;
\* one that was reset runs what was parked when the dialog was last drawn.
checkDone(c) ==
    LET actions == IF c.attached THEN parked ELSE c.action IN
    /\ c.at = "answered" /\ c.ok /\ ~out
    /\ Resume(actions)
    /\ lost' = (lost \/ ~(parked \subseteq actions))
    /\ checks' = checks \ {c}
    /\ UNCHANGED <<server, list, names, selected, ask, dropped, out, owed, events>>

checkFailed(c) ==
    /\ c.at = "answered" /\ ~c.ok
    /\ checks' = checks \ {c}
    /\ UNCHANGED <<server, list, names, selected, ask, requests, parked, dropped, lost, out, owed, events>>

\* The X of the dialog: the mutations are reset, which does not stop them, and
\* cancelStepUp drops the change.
cancelStepUp ==
    /\ parked # {}
    /\ checks' = {[c EXCEPT !.attached = FALSE, !.action = IF c.attached THEN parked ELSE @] : c \in checks}
    /\ parked' = {} /\ dropped' = dropped \cup parked /\ owed' = owed \ parked
    /\ UNCHANGED <<server, list, names, selected, ask, requests, lost, out, events>>

\* Without a password: the page is left for Google and loaded anew when it returns.
withGoogle ==
    /\ parked # {} /\ ~hasPassword /\ ~busy
    /\ \/ unlocked' = TRUE /\ UNCHANGED events
       \/ Event /\ UNCHANGED unlocked
    /\ list' = Opened /\ cells' = [i \in Ids |-> {}] /\ selected' = {} /\ ask' = {} /\ typed' = {}
    /\ requests' = {} /\ parked' = {} /\ checks' = {} /\ lost' = TRUE
    /\ UNCHANGED <<card, hasPassword, items, out, owed, dropped>>

-----------------------------------------------------------------------------
\* The list.  The field of a row that appears takes the row's name.

offList == <<server, selected, ask, requests, stepUp, out, owed>>

Fields(e) ==
    /\ cells' = [i \in Ids |-> IF ~Shown(e) \/ i \notin DOMAIN Value(e) THEN {}
                               ELSE IF cells[i] = {} THEN {Value(e)[i]} ELSE cells[i]]
    /\ typed' = {i \in typed : cells'[i] # {}}

ServerLists ==
    /\ list.fetch = "sent" /\ list' = Answered(list, items)
    /\ UNCHANGED <<offList, cells, typed, events>>

ReceiveList ==
    /\ list.fetch = "answered" /\ list' = Received(list) /\ Fields(list')
    /\ UNCHANGED <<offList, events>>

ListFails ==
    /\ Loading(list) /\ Event
    /\ list' = Failed(list) /\ Fields(list')
    /\ UNCHANGED offList

\* The window gets the focus, the sessions are polled, or an event comes.
Revalidate ==
    /\ ~out /\ ~Loading(list) /\ (list.failed \/ list.data # {items})
    /\ list' = Refetch(list)
    /\ UNCHANGED <<offList, cells, typed, events>>

Next ==
    \/ \E i \in Ids : toggleRow(i) \/ askRow(i) \/ leaveName(i) \/ ElsewhereChanges(i)
    \/ \E i \in Ids, l \in Labels \cup {""} : typeName(i, l)
    \/ clearSelection \/ askSelected \/ askAll \/ cancelAsk \/ confirm \/ add
    \/ \E r \in requests : ServerApplies(r) \/ RequestFails(r) \/ succeed(r) \/ fail(r) \/ park(r) \/ signOut(r)
    \/ \E by \in {"password", "passkey"} : startCheck(by)
    \/ \E c \in checks : ServerChecks(c) \/ checkDone(c) \/ checkFailed(c)
    \/ cancelStepUp \/ withGoogle \/ UnlockEnds
    \/ ServerLists \/ ReceiveList \/ ListFails \/ Revalidate

Spec == Init /\ [][Next]_selfVars

-----------------------------------------------------------------------------
\* Types: one confirmation and one parked change at a time, and one call of each
\* hook whose callbacks still count.
TypeOK ==
    /\ DOMAIN items \subseteq Ids /\ IsEntry(list) /\ selected \subseteq Ids
    /\ Cardinality(ask) <= 1 /\ Cardinality(parked) <= 1
    /\ \A r, s \in requests : r.hook = s.hook /\ r.last /\ s.last => r = s
    /\ card = "sessions" => parked = {}

Settled == requests = {} /\ parked = {} /\ checks = {}

\* A change that the user asked for is not forgotten by the identity check: when
\* nothing is under way and nothing is parked, the user has seen every change
\* succeed or fail, or has cancelled it.  Left out are the runs in which a parked
\* change was displaced from the one place, or went with the page to Google.
ConfirmedChangesAreDone == Settled /\ ~lost => owed = {}

\* usePasskeyManagement.ts:33-35: "the action is not lost.  It is parked in
\* `stepUpRetry`, [...] and once the user confirms the same action runs again by
\* itself."
ParkedIsNotLost == Settled => owed = {}

\* usePasskeyManagement.ts:134: "run the parked action, or drop it on cancel".
\* A change that was dropped is not carried out when the user asks for no other.
CancelledIsDropped ==
    [][\A r \in requests' \ requests :
        r.result = "none" /\ Change(r.hook, r.ids, r.to) \in dropped
            => Change(r.hook, r.ids, r.to) \in owed']_selfVars

\* passkeysTable.tsx:29-31: "The name saves itself on Enter or when focus leaves
\* the field [...].  An unchanged or empty name saves nothing."
UnchangedNameSavesNothing ==
    [][\A r \in requests' \ requests : r.result = "none" /\ r.hook = "rename" => r.ids \subseteq typed]_selfVars
=============================================================================
