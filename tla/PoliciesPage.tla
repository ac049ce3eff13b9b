---------------------------- MODULE PoliciesPage ----------------------------
(***************************************************************************)
(* The policy management page: cards over a cached list with an optimistic *)
(* status, the create form, the details dialog with its embedded editor    *)
(* (actions are saved one by one, the other fields by Save), Undo toasts,  *)
(* rollback, and the delete confirmation that waits for the number of      *)
(* holders.  The dialog works on the row it was opened from.  TanStack     *)
(* Query runs the callbacks given to mutate only for the latest call of a  *)
(* hook, and for none that reset has dropped.                              *)
(***************************************************************************)
EXTENDS Naturals, FiniteSets, QueryCache

CONSTANTS
    Catalog,        \* Catalog[t]: the actions of resource type t
    Start,          \* the policies at first, by name
    NewName,        \* the name given to a new policy
    ProtectedNames, \* PROTECTED_POLICY_NAMES
    Grantable,      \* the actions that the caller holds
    Mine,           \* the permissions of the caller
    Texts,          \* what may be typed into the other fields; "bad" is no JSON object
    MaxEdits        \* edits, changes, changes by others and faults, together; the
                    \* actions of a form that is not saved at once are not counted

Types == DOMAIN Catalog
Names == DOMAIN Start \cup {NewName}

VARIABLES
    server,     \* the policies, by name: active, actions, type, text
    past,       \* past[n]: earlier versions of policy n
    filter,     \* status filter; stands for all the filters and the page
    cards,      \* the list query of each filter
    override,   \* optimisticActiveStates: {} or {a status}, by name
    dialog,     \* formOpen, viewingPolicy, the tab, and usePolicyFormState
    deleting,   \* deletingPolicy: {} or {a name}
    holders,    \* the holders query of each policy
    jobs,       \* the mutations under way
    latest,     \* latest[hook]: the last call, 0 if none or reset
    toasts,     \* toasts with an Undo
    used        \* edits, changes, others, faults

policyVars ==
    <<server, past, filter, cards, override, dialog, deleting, holders, jobs, latest, toasts, used>>

Total == used.edits + used.changes + used.others + used.faults
Step(what) == Total < MaxEdits /\ used' = [used EXCEPT ![what] = @ + 1]

Allows(action) == action \in Mine

\* { ...d, ...s }
Over(s, d) == [x \in DOMAIN s \cup DOMAIN d |-> IF x \in DOMAIN s THEN s[x] ELSE d[x]]

-----------------------------------------------------------------------------
\* The list and the cards.

Filters == {"all", "active"}

Row(n) == Over([name |-> n], server[n])

\* GET /policies with the filters of the page.
listPolicies(f) == {Row(n) : n \in {m \in DOMAIN server : f = "all" \/ server[m].active}}

\* The status of a card is the optimistic one, if there is one.  Only a first
\* load that failed hides the cards (displayIsError).
Cards ==
    IF ~Allows("policies:read") \/ cards[filter].data = {} THEN {}
    ELSE {[r EXCEPT !.active = IF override[r.name] = {} THEN @ ELSE CHOOSE b \in override[r.name] : TRUE]
            : r \in Value(cards[filter])}

\* canGrantPolicy
CanManage(r) == r.actions \subseteq Grantable

isPending(hook) == \E j \in jobs : j.hook = hook /\ latest[hook] = j.id
togglingName    == {j.name : j \in {k \in jobs : k.hook = "status" /\ latest["status"] = k.id}}

EditOffered(r)   == Allows("policies:update") /\ r.name \notin ProtectedNames
ToggleOffered(r) == EditOffered(r) /\ CanManage(r) /\ r.name \notin togglingName
DeleteOffered(r) ==
    ~r.active /\ Allows("policies:delete") /\ r.name \notin ProtectedNames /\ CanManage(r)

-----------------------------------------------------------------------------
\* The form.

NoForm   == [actions |-> {}, type |-> "", text |-> ""]
NoDialog == [tab |-> "none", row |-> {}, base |-> NoForm, ask |-> FALSE, fresh |-> TRUE,
             actions |-> {}, type |-> "", text |-> ""]

Fields(d) == [actions |-> d.actions, type |-> d.type, text |-> d.text]
isDirty   == Fields(dialog) # dialog.base

ActionsOf(t) == IF t = "*" THEN UNION {Catalog[s] : s \in Types} ELSE IF t = "" THEN {} ELSE Catalog[t]

\* What the grid offers: what the caller may grant, and what the policy has.
actionOptions == {a \in ActionsOf(dialog.type) : a \in Grantable \cup dialog.actions}

resourceTypeOptions ==
    Types \cup {t \in {"*"} : \E r \in dialog.row : r.type = "*"}

conditionsError == dialog.text = "bad"
canSave  == dialog.type # "" /\ dialog.actions # {} /\ ~conditionsError
isSaving == isPending("create") \/ isPending("save")
Editing  == dialog.tab \in {"create", "edit"} /\ ~dialog.ask

\* The fields are set to the row's when the form opens or mounts.  fresh (a
\* history flag): the row is what the server has.
Opens(tab, row) ==
    LET form == IF tab = "edit" THEN Fields(CHOOSE r \in row : TRUE) ELSE NoForm
    IN  [tab |-> tab, row |-> row, base |-> form, ask |-> FALSE,
         fresh |-> /\ \A j \in jobs : j.hook = "status"
                   /\ \A r \in row : r.name \in DOMAIN server /\ r.actions = server[r.name].actions,
         actions |-> form.actions, type |-> form.type, text |-> form.text]

\* What was given out by the embedded form can no longer reach it.
Unmounted(things) == {[x EXCEPT !.form = IF @ = "edit" THEN "gone" ELSE @] : x \in things}

Show(d) ==
    /\ dialog' = d
    /\ toasts' = IF dialog.tab = "edit" THEN Unmounted(toasts) ELSE toasts
    /\ jobs' = IF dialog.tab = "edit" THEN Unmounted(jobs) ELSE jobs

\* The fields of the form after a callback that belongs to it.
Set(form, fields) ==
    IF fields = {} \/ dialog.tab # form THEN dialog ELSE Over(CHOOSE s \in fields : TRUE, dialog)

-----------------------------------------------------------------------------
Init ==
    /\ server = Start /\ past = [n \in Names |-> {}]
    /\ filter = "all"
    /\ cards = [f \in Filters |-> IF f = "all" THEN Opened ELSE Unused]
    /\ override = [n \in Names |-> {}]
    /\ dialog = NoDialog /\ deleting = {}
    /\ holders = [n \in Names |-> Unused]
    /\ jobs = {} /\ toasts = {}
    /\ latest = [h \in {"create", "save", "actions", "status", "delete", "rollback"} |-> 0]
    /\ used = [edits |-> 0, changes |-> 0, others |-> 0, faults |-> 0]

Free == dialog = NoDialog /\ deleting = {}

\* setStatus, setResourceType, setContainsAction, the tiles, clearAllFilters.
setFilter(f) ==
    /\ Free /\ f # filter /\ Allows("policies:read") /\ Step("edits")
    /\ filter' = f
    /\ \E e \in Observed(cards[f]) : cards' = [cards EXCEPT ![f] = e]
    /\ UNCHANGED <<server, past, override, dialog, deleting, holders, jobs, latest, toasts>>

offForm == <<server, past, filter, cards, override, deleting, holders>>

openCreateForm ==
    /\ Free /\ Allows("policies:create")
    /\ Show(Opens("create", {}))
    /\ UNCHANGED <<offForm, latest, used>>

openView(r) ==
    /\ Free
    /\ Show(Opens("details", {r}))
    /\ UNCHANGED <<offForm, latest, used>>

openEditForm(r) ==
    /\ Free /\ EditOffered(r)
    /\ Show(Opens("edit", {r}))
    /\ UNCHANGED <<offForm, latest, used>>

\* The tabs of the dialog, which do not ask about unsaved fields.
setActiveTab ==
    /\ dialog.tab \in {"details", "edit"} /\ ~dialog.ask
    /\ \A r \in dialog.row : EditOffered(r)
    /\ Show(Opens(IF dialog.tab = "edit" THEN "details" ELSE "edit", dialog.row))
    /\ UNCHANGED <<offForm, latest, used>>

\* The X, Escape or Close of the details dialog: nothing is asked, and the
\* mutations are not reset.
CloseView ==
    /\ dialog.tab \in {"details", "edit"} /\ ~dialog.ask
    /\ Show(NoDialog)
    /\ UNCHANGED <<offForm, latest, used>>

\* createMutation.reset, updateMutation.reset
Reset(l) == [l EXCEPT !["create"] = 0, !["save"] = 0]

\* closeForm, and onView(null) for the editor.
closeForm == Show(NoDialog) /\ latest' = Reset(latest)

\* requestExit: the Close of the editor, and every way out of the create form.
requestClose ==
    /\ Editing /\ (dialog.tab = "edit" => ~isSaving)
    /\ IF isDirty
       THEN dialog' = [dialog EXCEPT !.ask = TRUE] /\ UNCHANGED <<jobs, toasts, latest>>
       ELSE closeForm
    /\ UNCHANGED <<offForm, used>>

DiscardConfirmed == dialog.ask /\ closeForm /\ UNCHANGED <<offForm, used>>

DiscardCancelled ==
    /\ dialog.ask
    /\ dialog' = [dialog EXCEPT !.ask = FALSE]
    /\ UNCHANGED <<offForm, jobs, latest, toasts, used>>

-----------------------------------------------------------------------------
\* Edits.

setText(x) ==
    /\ Editing /\ x # dialog.text /\ Step("edits")
    /\ dialog' = [dialog EXCEPT !.text = x]
    /\ UNCHANGED <<offForm, jobs, latest, toasts>>

Job(hook, name, to) ==
    [id |-> used.changes + 1, hook |-> hook, name |-> name, to |-> to, at |-> "sent", ok |-> TRUE,
     form |-> "gone", undo |-> {}, fail |-> {}]

Mutate(j) ==
    /\ Step("changes")
    /\ jobs' = jobs \cup {j}
    /\ latest' = [latest EXCEPT ![j.hook] = j.id]

\* A click in the grid of actions.
toggle(actions, a) == IF a \in actions THEN actions \ {a} ELSE actions \cup {a}

\* A change of the actions counts as saved at once, with all that is in the other
\* fields, and is sent if a policy is edited.
handleActionsChange(a) ==
    LET next == toggle(dialog.actions, a)
        set  == [Fields(dialog) EXCEPT !.actions = next]
        back == [actions |-> dialog.actions, base |-> dialog.base]
        on   == [actions |-> next, base |-> set]
    IN
    /\ Editing /\ a \in actionOptions
    /\ dialog' = Over(on, [dialog EXCEPT !.fresh = @ /\ ~isPending("actions")])
    /\ IF dialog.tab = "create"
       THEN UNCHANGED <<jobs, latest, used>>
       ELSE \E r \in dialog.row :
            Mutate([Job("actions", r.name, [actions |-> next]) EXCEPT
                    !.form = "edit", !.fail = {back},
                    !.undo = {[to |-> [actions |-> dialog.actions], now |-> back, fail |-> {on}]}])
    /\ UNCHANGED <<offForm, toasts>>

Toast(id, hook, name, undo, form) ==
    [id |-> id, hook |-> hook, name |-> name, undo |-> undo, form |-> form]

\* Actions that the new type does not have are dropped; an Undo brings them and
\* the type back.
handleResourceTypeChange(t) ==
    LET kept == dialog.actions \cap ActionsOf(t) IN
    /\ Editing /\ t \in resourceTypeOptions \ {dialog.type} /\ Step("edits")
    /\ dialog' = [dialog EXCEPT !.type = t, !.actions = kept, !.fresh = FALSE]
    /\ toasts' = toasts \cup
            (IF kept = dialog.actions THEN {}
             ELSE {Toast(100 + used.edits, "none", "", [now |-> [actions |-> dialog.actions, type |-> dialog.type]],
                         dialog.tab)})
    /\ UNCHANGED <<offForm, jobs, latest>>

\* handleSubmit and handleFormSubmit
handleSubmit ==
    /\ Editing /\ canSave /\ ~isSaving
    /\ IF dialog.tab = "create"
       THEN Mutate(Job("create", NewName, Fields(dialog)))
       ELSE \E r \in dialog.row : Mutate(Job("save", r.name, Fields(dialog)))
    /\ dialog' = [dialog EXCEPT !.fresh = @ /\ ~isPending("actions")]
    /\ UNCHANGED <<offForm, toasts>>

\* Confirmed in the history of the details tab.
Rollback(v) ==
    /\ dialog.tab = "details" /\ ~isPending("rollback")
    /\ \E r \in dialog.row : EditOffered(r) /\ v \in past[r.name] /\ Mutate(Job("rollback", r.name, v))
    /\ UNCHANGED <<offForm, dialog, toasts>>

handleToggleActive(r) ==
    /\ Free /\ ToggleOffered(r)
    /\ override' = [override EXCEPT ![r.name] = {~r.active}]
    /\ Mutate([Job("status", r.name, [active |-> ~r.active]) EXCEPT
                !.undo = {[to |-> [active |-> r.active], now |-> NoForm, fail |-> {}]}])
    /\ UNCHANGED <<server, past, filter, cards, dialog, deleting, holders, toasts>>

\* The Undo of a toast: the form it belongs to is set back, and what was there
\* before is sent.  The optimistic status stays.
Undo(t) ==
    /\ toasts' = toasts \ {t}
    /\ IF t.hook = "none"
       THEN dialog' = Set(t.form, {t.undo.now}) /\ UNCHANGED <<jobs, latest, used>>
       ELSE /\ dialog' = [Set(t.form, {t.undo.now}) EXCEPT
                            !.fresh = @ /\ (t.hook = "actions" => t.form = "edit" /\ ~isPending("actions"))]
            /\ Mutate([Job(t.hook, t.name, t.undo.to) EXCEPT !.form = t.form, !.fail = t.undo.fail])
    /\ UNCHANGED offForm

ToastEnds(t) ==
    /\ toasts' = toasts \ {t}
    /\ UNCHANGED <<offForm, dialog, jobs, latest, used>>

-----------------------------------------------------------------------------
\* Deletion.

setDeletingPolicy(r) ==
    /\ Free /\ DeleteOffered(r)
    /\ deleting' = {r.name}
    /\ \E e \in Observed(holders[r.name]) : holders' = [holders EXCEPT ![r.name] = e]
    /\ UNCHANGED <<server, past, filter, cards, override, dialog, jobs, latest, toasts, used>>

CancelDelete ==
    /\ deleting # {}
    /\ deleting' = {}
    /\ UNCHANGED <<server, past, filter, cards, override, dialog, holders, jobs, latest, toasts, used>>

\* Not before the holders are known, and not after they failed to load.
handleDeleteConfirm ==
    \E n \in deleting :
        /\ Shown(holders[n]) /\ ~isPending("delete")
        /\ Mutate(Job("delete", n, NoForm))
        /\ UNCHANGED <<offForm, dialog, toasts>>

-----------------------------------------------------------------------------
\* The server's side.

Legal(j) ==
    IF j.hook = "create" THEN j.name \notin DOMAIN server
    ELSE /\ j.name \in DOMAIN server
         /\ j.hook = "delete" => ~server[j.name].active
         /\ j.hook # "delete" =>
                LET v == Over(j.to, server[j.name])
                IN  v.actions # {} /\ (v.actions \cup server[j.name].actions) \subseteq Grantable

Applied(j) ==
    IF j.hook = "delete" THEN [n \in DOMAIN server \ {j.name} |-> server[n]]
    ELSE IF j.hook = "create" THEN Over([n \in {j.name} |-> Over([active |-> TRUE], j.to)], server)
    ELSE [server EXCEPT ![j.name] = Over(j.to, @)]

ServerApplies(j) ==
    /\ j.at = "sent"
    /\ server' = IF Legal(j) THEN Applied(j) ELSE server
    /\ past' = IF Legal(j) /\ j.name \in DOMAIN server
               THEN [past EXCEPT ![j.name] = @ \cup {server[j.name]}] ELSE past
    /\ jobs' = (jobs \ {j}) \cup {[j EXCEPT !.at = "answered", !.ok = Legal(j)]}
    /\ UNCHANGED <<filter, cards, override, dialog, deleting, holders, latest, toasts, used>>

\* Everything under POLICIES_QUERY_KEY is invalidated, by the hook itself.
invalidatePolicies ==
    /\ cards' = [f \in Filters |-> Invalidated(cards[f], f = filter)]
    /\ holders' = [n \in Names |-> Invalidated(holders[n], n \in deleting)]

Heard(j) == latest[j.hook] = j.id

\* The callbacks of a success: a saved form is closed whatever is open by now, a
\* created one if the create form is open, and so is the confirmation of a delete.
Succeeds(j) ==
    LET closes == \/ j.hook = "save"
                  \/ j.hook = "create" /\ dialog.tab = "create"
        rest   == jobs \ {j}
        gone   == Heard(j) /\ closes /\ dialog.tab = "edit"
    IN
    /\ j.at = "answered" /\ j.ok
    /\ invalidatePolicies
    /\ dialog' = IF Heard(j) /\ closes THEN NoDialog ELSE dialog
    /\ jobs' = IF gone THEN Unmounted(rest) ELSE rest
    /\ LET shown == toasts \cup {Toast(j.id, j.hook, j.name, u, j.form) : u \in IF Heard(j) THEN j.undo ELSE {}}
       IN  toasts' = IF gone THEN Unmounted(shown) ELSE shown
    /\ latest' = IF Heard(j) /\ j.hook \in {"save", "create"} THEN Reset(latest) ELSE latest
    /\ deleting' = IF Heard(j) /\ j.hook = "delete" THEN {} ELSE deleting
    /\ UNCHANGED <<server, past, filter, override, used>>

\* Mutant of Fails: the fields are left as they are.
FailsSilently(j) ==
    /\ jobs' = jobs \ {j}
    /\ UNCHANGED <<dialog, override>>

\* The callbacks of a failure: the fields go back, the optimistic status is
\* dropped (not for an Undo).
Fails(j) ==
    /\ jobs' = jobs \ {j}
    /\ dialog' = IF Heard(j) THEN Set(j.form, j.fail) ELSE dialog
    /\ override' = IF Heard(j) /\ j.hook = "status" /\ j.undo # {}
                   THEN [override EXCEPT ![j.name] = {}] ELSE override

Refused(j) ==
    /\ j.at = "answered" /\ ~j.ok /\ Fails(j)
    /\ UNCHANGED <<server, past, filter, cards, deleting, holders, latest, toasts, used>>

RequestLost(j) ==
    /\ Step("faults") /\ Fails(j)
    /\ UNCHANGED <<server, past, filter, cards, deleting, holders, latest, toasts>>

-----------------------------------------------------------------------------
\* The queries.

offQueries == <<server, past, filter, override, dialog, deleting, jobs, latest, toasts>>

ServerLists(f) ==
    /\ cards[f].fetch = "sent"
    /\ cards' = [cards EXCEPT ![f] = Answered(@, listPolicies(f))]
    /\ UNCHANGED <<offQueries, holders, used>>

ReceiveList(f) ==
    /\ cards[f].fetch = "answered"
    /\ cards' = [cards EXCEPT ![f] = Received(@)]
    /\ UNCHANGED <<offQueries, holders, used>>

ListFails(f) ==
    /\ Loading(cards[f]) /\ Step("faults")
    /\ cards' = [cards EXCEPT ![f] = Failed(@)]
    /\ UNCHANGED <<offQueries, holders>>

\* The retry button of a list that has nothing to show, and of the confirmation.
Retry ==
    \/ /\ cards[filter].failed /\ cards[filter].data = {} /\ ~Loading(cards[filter])
       /\ cards' = [cards EXCEPT ![filter] = Refetch(@)]
       /\ UNCHANGED <<offQueries, holders, used>>
    \/ \E n \in deleting :
       /\ holders[n].failed /\ ~Loading(holders[n])
       /\ holders' = [holders EXCEPT ![n] = Refetch(@)]
       /\ UNCHANGED <<offQueries, cards, used>>

HoldersArrive(n) ==
    /\ Loading(holders[n])
    /\ \/ holders' = [holders EXCEPT ![n] = Received(Answered(@, "count"))] /\ UNCHANGED used
       \/ holders' = [holders EXCEPT ![n] = Failed(@)] /\ Step("faults")
    /\ UNCHANGED <<offQueries, cards>>

\* Another administrator changes a policy's status.
OthersToggle(n) ==
    /\ n \in DOMAIN server /\ Step("others")
    /\ server' = [server EXCEPT ![n].active = ~@]
    /\ past' = [past EXCEPT ![n] = @ \cup {server[n]}]
    /\ UNCHANGED <<filter, cards, override, dialog, deleting, holders, jobs, latest, toasts>>

Next ==
    \/ \E f \in Filters : setFilter(f) \/ ServerLists(f) \/ ReceiveList(f) \/ ListFails(f)
    \/ openCreateForm
    \/ \E r \in Cards : \/ openView(r) \/ openEditForm(r) \/ handleToggleActive(r)
                        \/ setDeletingPolicy(r)
    \/ setActiveTab \/ CloseView \/ requestClose \/ DiscardConfirmed \/ DiscardCancelled
    \/ \E x \in Texts : setText(x)
    \/ \E a \in actionOptions : handleActionsChange(a)
    \/ \E t \in resourceTypeOptions : handleResourceTypeChange(t)
    \/ handleSubmit
    \/ \E n \in Names : \E v \in past[n] : Rollback(v)
    \/ \E t \in toasts : Undo(t) \/ ToastEnds(t)
    \/ CancelDelete \/ handleDeleteConfirm
    \/ \E j \in jobs : ServerApplies(j) \/ Succeeds(j) \/ Refused(j) \/ RequestLost(j)
    \/ Retry
    \/ \E n \in Names : HoldersArrive(n) \/ OthersToggle(n)

Spec == Init /\ [][Next]_policyVars

-----------------------------------------------------------------------------
\* Types: a dialog that shows a row is one of its two tabs, and no policy of the
\* server grants nothing, whatever the form sends.
TypeOK ==
    /\ DOMAIN server \subseteq Names
    /\ \A n \in DOMAIN server : server[n].actions # {} /\ server[n].active \in BOOLEAN
    /\ \A f \in Filters : IsEntry(cards[f])
    /\ dialog.tab \in {"details", "edit"} <=> dialog.row # {}
    /\ \A j, k \in jobs : j.id = k.id => j = k

Quiet == jobs = {} /\ used.others = 0 /\ used.faults = 0

\* The editor shows the actions that the server has, once nothing is under way:
\* after any number of changes, refusals and Undos, in any order, one at a time.
\* Left out is an editor that was mounted from a row which was stale or while a
\* change of more than a status was under way (a policy deleted and made again is
\* another one), one that the Undo of an earlier editor came in under, one in
\* which two saves were out at once, and one in which the type was changed.
FormMatchesServer ==
    Quiet /\ dialog.tab = "edit" /\ dialog.fresh =>
        \A r \in dialog.row : r.name \in DOMAIN server => dialog.actions = server[r.name].actions

\* useOptimisticPolicyActivity.ts:5: "Keeps a policy status switch responsive
\* while its update is in flight."  When none is, the card shows the status that
\* the server has.
StatusIsTrue ==
    Quiet /\ ~Loading(cards[filter]) /\ ~cards[filter].missed =>
        \A r \in Cards : r.name \in DOMAIN server => r.active = server[r.name].active

\* usePolicyFormState.ts:119-121: "retain actions already in the policy so the
\* form can display them without silently dropping state".  A click in the grid
\* changes one action of the policy.
OneActionPerClick ==
    [][\A n \in DOMAIN server \cap DOMAIN server' :
        /\ Quiet
        /\ \E j \in jobs' \ jobs : j.hook = "actions" /\ j.undo # {} /\ j.name = n
        => \E j \in jobs' \ jobs :
                Cardinality((j.to.actions \ server[n].actions) \cup (server[n].actions \ j.to.actions)) <= 1]_policyVars

\* usePolicyFormState.ts:132-134: "to detect unsaved edits before a close discards
\* them".  A form with text that the policy does not have is not closed unasked.
UnsavedTextIsNoticed ==
    [][Editing /\ dialog.text # "" /\ jobs = {} /\ (\A n \in DOMAIN server : server[n].text = "")
        => dialog'.tab = dialog.tab]_policyVars

\* usePolicyFormState.ts:105-108: other actions than those of the resource type
\* "would let an operator pick a combination no route actually matches".
ActionsMatchType == \A n \in DOMAIN server : server[n].actions \subseteq ActionsOf(server[n].type)
=============================================================================
