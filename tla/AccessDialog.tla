---------------------------- MODULE AccessDialog ----------------------------
(***************************************************************************)
(* The dialog of the users page that changes what one account may do: its  *)
(* policies and its direct permissions, with one click for each change and *)
(* an Undo toast.  Several changes may be under way at once.  TanStack     *)
(* Query runs the callbacks that are given to mutate only for the latest   *)
(* call of a hook, and the ones of the hook itself for every call.         *)
(***************************************************************************)
EXTENDS Naturals, FiniteSets, QueryCache

CONSTANTS
    Person,         \* the accounts
    Self,           \* the caller, who holds Rights
    Locked,         \* accounts with the role "system"
    Catalog,        \* the permissions: pairs of an action and a resource type
    Contents,       \* Contents[p]: the permissions of policy p
    Protected,      \* PROTECTED_POLICY_NAMES
    Rights,         \* the actions that the caller may take
    Holdings,       \* the policies that each account may hold at first
    MaxChanges      \* changes by the caller, by others, and faults, together

Policies == DOMAIN Contents
May(action) == action \in Rights

VARIABLES
    held,       \* held[u]: the policies and direct permissions of u
    lists,      \* lists[k]: the query of key k = <<account, list>>
    access,     \* the account that the dialog is open for, {} or one
    requests,   \* the mutations under way
    latest,     \* latest[kind]: the last call of each hook
    toasts,     \* loading toasts and toasts with an Undo
    spent       \* changes, others, faults

accessVars == <<held, lists, access, requests, latest, toasts, spent>>

List  == {"policies", "permissions"}
Key   == Person \X List
Hooks == {"assign", "revoke", "revokeAction", "grant", "ungrant"}

Spent == spent.changes + spent.others + spent.faults
Use(what) == Spent < MaxChanges /\ spent' = [spent EXCEPT ![what] = @ + 1]

-----------------------------------------------------------------------------
\* What the dialog shows.

\* Who may see which list: one's own needs no permission.
Enabled(u, list) ==
    u = Self \/ May(IF list = "policies" THEN "policies:read" ELSE "permissions:read")

\* The tabs of the access dialog: details, and the lists that the caller may see.
\* The queries live in the dialog, so going from one to another, or opening the
\* actions of a policy, changes nothing but what is on screen.
tabValues(u) == {list \in List : Enabled(u, list)}

\* The queries that the dialog observes when it is open for the accounts us.
ObservedFor(us) == {k \in Key : k[1] \in us /\ Enabled(k[1], k[2])}

Data(u, list) == IF lists[<<u, list>>].data = {} THEN {} ELSE Value(lists[<<u, list>>])
assignedPolicies(u) == Data(u, "policies")
directGrants(u)     == Data(u, "permissions")

\* The tab of a list is on screen.  While the list is loading for the first time,
\* or once it failed, it has no rows.
RowsOf(u, list) ==
    /\ access = {u} /\ list \in tabValues(u)
    /\ Shown(lists[<<u, list>>])

buildEffectiveGrantKeySet(u) ==
    directGrants(u) \cup UNION {Contents[p] : p \in assignedPolicies(u)}

\* A permission for the resource type "*" covers its action everywhere.
hasEffectiveGrant(keys, g) == g \in keys \/ <<g[1], "*">> \in keys

policyAddsNothingNew(p, keys) == \A g \in Contents[p] : hasEffectiveGrant(keys, g)

canGrantPolicy(p) == \A g \in Contents[p] : May(g[1])

\* buildUserAccessRows: the policies the caller may list, and those assigned.
policyRows(u) == assignedPolicies(u) \cup (IF May("policies:read") THEN Policies ELSE {})

\* The catalog is read by those who may use it.
permissionRows ==
    IF Rights \cap {"permissions:read", "policies:create", "policies:update", "permissions:grant"} = {}
    THEN {} ELSE Catalog

selfProtected(u, p) == p \in assignedPolicies(u) /\ u = Self /\ p \in Protected

canTogglePolicy(u, p) ==
    LET assigned == p \in assignedPolicies(u) IN
    /\ u \notin Locked /\ ~selfProtected(u, p) /\ canGrantPolicy(p)
    /\ assigned \/ ~policyAddsNothingNew(p, buildEffectiveGrantKeySet(u))
    /\ May(IF assigned THEN "policies:revoke" ELSE "policies:assign")

\* The text of an action's row in an open policy, which does not look at
\* policies:revoke as its switch does.
canToggleAction(u, p) == p \in assignedPolicies(u) /\ u \notin Locked /\ ~selfProtected(u, p)

canTogglePermission(u, g) ==
    LET direct == g \in directGrants(u) IN
    /\ u \notin Locked /\ May(g[1])
    /\ direct \/ ~hasEffectiveGrant(buildEffectiveGrantKeySet(u), g)
    /\ May(IF direct THEN "permissions:revoke" ELSE "permissions:grant")

-----------------------------------------------------------------------------
\* Toasts.  One without an action that ends by itself is left out; all that
\* matters of it is that its creation dismisses the toasts whose Undo runs.

AfterCreate(ts) == {t \in ts : t.type # "acting"}

Toast(id, type, undo) == [id |-> id, type |-> type, undo |-> undo]

\* toaster.update: nothing, if the toast is gone.
Updated(ts, id, undo) ==
    {IF t.id = id THEN Toast(id, "undo", undo) ELSE t : t \in ts}

Dismissed(ts, id) == {t \in ts : t.id # id}

\* toaster.beginAction
beginAction(ts, id) ==
    {IF t.id = id THEN Toast(id, "acting", {}) ELSE t : t \in ts}

-----------------------------------------------------------------------------
Init ==
    /\ \E start \in [Person -> Holdings] :
            held = [u \in Person |-> [policies |-> start[u], permissions |-> {}]]
    /\ lists = [k \in Key |-> Unused]
    /\ access = {}
    /\ requests = {} /\ latest = [h \in Hooks |-> 0] /\ toasts = {}
    /\ spent = [changes |-> 0, others |-> 0, faults |-> 0]

\* setAccessUser, from a row of the table.
OpenAccess(u) ==
    /\ access = {}
    /\ access' = {u}
    /\ \E again \in SUBSET ObservedFor(access') :
            /\ lists' = [k \in Key |-> IF k \in again THEN Refetch(lists[k]) ELSE lists[k]]
            /\ \A k \in ObservedFor(access') : lists'[k] \in Observed(lists[k])
    /\ UNCHANGED <<held, requests, latest, toasts, spent>>

\* onClose.  The dialog stays mounted, and its mutations with it.
CloseAccess ==
    /\ access # {}
    /\ access' = {}
    /\ UNCHANGED <<held, lists, requests, latest, toasts, spent>>

-----------------------------------------------------------------------------
\* Changes.  undo: what the toast of a success offers, {} for none.  toast: the
\* loading toast that the call owns, 0 for none.

Request(n, kind, u, item, undo, toast) ==
    [id |-> n, kind |-> kind, user |-> u, item |-> item, undo |-> undo, toast |-> toast,
     at |-> "sent", ok |-> TRUE]

mutate(kind, u, item, undo, toast) ==
    LET n == spent.changes + 1 IN
    /\ Use("changes")
    /\ requests' = requests \cup {Request(n, kind, u, item, undo, IF toast THEN n ELSE 0)}
    /\ latest' = [latest EXCEPT ![kind] = n]

Opposite(kind) ==
    CASE kind = "assign" -> "revoke" [] kind = "revoke" -> "assign"
      [] kind = "grant" -> "ungrant" [] kind = "ungrant" -> "grant"

togglePolicy(u, p) ==
    LET kind == IF p \in assignedPolicies(u) THEN "revoke" ELSE "assign" IN
    /\ RowsOf(u, "policies") /\ p \in policyRows(u) /\ canTogglePolicy(u, p)
    /\ mutate(kind, u, p, {Opposite(kind)}, FALSE)
    /\ UNCHANGED <<held, lists, access, toasts>>

\* requestRevokePolicyAction: from the text of the row, one request; its switch
\* is inside the row and does not stop the click, so the row sends another one.
requestRevokePolicyAction(u, p, g, switch) ==
    LET n == spent.changes + 1
        R(i) == Request(i, "revokeAction", u, <<p, g>>, {}, 0)
    IN
    /\ RowsOf(u, "policies") /\ p \in policyRows(u) /\ g \in Contents[p] /\ canToggleAction(u, p)
    /\ switch => May("policies:revoke")
    /\ Spent + (IF switch THEN 2 ELSE 1) <= MaxChanges
    /\ requests' = requests \cup {R(i) : i \in n .. (IF switch THEN n + 1 ELSE n)}
    /\ latest' = [latest EXCEPT !["revokeAction"] = IF switch THEN n + 1 ELSE n]
    /\ spent' = [spent EXCEPT !.changes = IF switch THEN n + 1 ELSE n]
    /\ UNCHANGED <<held, lists, access, toasts>>

toggleDirectPermission(u, g) ==
    LET kind == IF g \in directGrants(u) THEN "ungrant" ELSE "grant" IN
    /\ RowsOf(u, "permissions") /\ g \in permissionRows /\ canTogglePermission(u, g)
    /\ mutate(kind, u, g, {Opposite(kind)}, TRUE)
    /\ toasts' = AfterCreate(toasts) \cup {Toast(spent.changes + 1, "loading", {})}
    /\ UNCHANGED <<held, lists, access>>

\* The Undo of a toast: the opposite change, whatever happened since.
Undo(t) ==
    \E r \in t.undo :
        /\ mutate(r.kind, r.user, r.item, {}, FALSE)
        /\ toasts' = beginAction(toasts, t.id)
        /\ UNCHANGED <<held, lists, access>>

\* A toast is closed by hand, or its time ends: a loading toast has no end, and
\* neither has the Undo toast that it becomes.
ToastGone(t) ==
    /\ toasts' = toasts \ {t}
    /\ UNCHANGED <<held, lists, access, requests, latest, spent>>

-----------------------------------------------------------------------------
\* The server's side.

Holds(r) ==
    CASE r.kind = "revoke"       -> r.item \in held[r.user].policies
      [] r.kind = "revokeAction" -> r.item[1] \in held[r.user].policies
      [] r.kind = "ungrant"      -> r.item \in held[r.user].permissions
      [] OTHER                   -> TRUE

After(h, r) ==
    CASE r.kind = "assign"       -> [h EXCEPT !.policies = @ \cup {r.item}]
      [] r.kind = "revoke"       -> [h EXCEPT !.policies = @ \ {r.item}]
      [] r.kind = "revokeAction" -> [h EXCEPT !.policies = @ \ {r.item[1]},
                                        !.permissions = @ \cup (Contents[r.item[1]] \ {r.item[2]})]
      [] r.kind = "grant"        -> [h EXCEPT !.permissions = @ \cup {r.item}]
      [] r.kind = "ungrant"      -> [h EXCEPT !.permissions = @ \ {r.item}]

ServerDoes(r) ==
    /\ r.at = "sent"
    /\ held' = IF Holds(r) THEN [held EXCEPT ![r.user] = After(@, r)] ELSE held
    /\ requests' = (requests \ {r}) \cup {[r EXCEPT !.at = "answered", !.ok = Holds(r)]}
    /\ UNCHANGED <<lists, access, latest, toasts, spent>>

\* Mutant of Lists: the direct permissions that a split policy leaves are forgotten.
OneList(kind) ==
    IF kind \in {"grant", "ungrant"} THEN {"permissions"} ELSE {"policies"}

\* The lists that a hook invalidates when its call succeeds, of the account and
\* of the caller.
Lists(kind) ==
    CASE kind \in {"assign", "revoke"} -> {"policies"}
      [] kind = "revokeAction"         -> {"policies", "permissions"}
      [] kind \in {"grant", "ungrant"} -> {"permissions"}

Invalidates(r) == {r.user, Self} \X Lists(r.kind)

\* The toasts after the answer, if the callbacks of mutate run.
Reported(r) ==
    IF latest[r.kind] # r.id THEN toasts
    ELSE IF r.toast # 0
    THEN IF r.ok THEN Updated(toasts, r.toast, {[kind |-> k, user |-> r.user, item |-> r.item] : k \in r.undo})
         ELSE AfterCreate(Dismissed(toasts, r.toast))
    ELSE AfterCreate(toasts) \cup
            {Toast(r.id, "undo", {[kind |-> k, user |-> r.user, item |-> r.item]}) : k \in IF r.ok THEN r.undo ELSE {}}

Succeeds(r) ==
    /\ r.at = "answered" /\ r.ok
    /\ requests' = requests \ {r}
    /\ lists' = [k \in Key |-> IF k \in Invalidates(r) THEN Invalidated(lists[k], k \in ObservedFor(access))
                               ELSE lists[k]]
    /\ toasts' = Reported(r)
    /\ UNCHANGED <<held, access, latest, spent>>

\* Refused by the server: a toast.
Refused(r) ==
    /\ r.at = "answered" /\ ~r.ok
    /\ requests' = requests \ {r}
    /\ toasts' = Reported(r)
    /\ UNCHANGED <<held, lists, access, latest, spent>>

\* The answer is lost, and the change counts as failed.
AnswerLost(r) ==
    /\ Use("faults")
    /\ requests' = requests \ {r}
    /\ toasts' = Reported([r EXCEPT !.ok = FALSE])
    /\ UNCHANGED <<held, lists, access, latest>>

-----------------------------------------------------------------------------
\* The queries.

ServerReads(k) ==
    /\ lists[k].fetch = "sent"
    /\ lists' = [lists EXCEPT ![k] = Answered(@, held[k[1]][k[2]])]
    /\ UNCHANGED <<held, access, requests, latest, toasts, spent>>

ReceiveRows(k) ==
    /\ lists[k].fetch = "answered"
    /\ lists' = [lists EXCEPT ![k] = Received(@)]
    /\ UNCHANGED <<held, access, requests, latest, toasts, spent>>

RowsFail(k) ==
    /\ Loading(lists[k]) /\ Use("faults")
    /\ lists' = [lists EXCEPT ![k] = Failed(@)]
    /\ UNCHANGED <<held, access, requests, latest, toasts>>

\* Another administrator assigns or revokes a policy.
OthersAssign(u, p) ==
    /\ Use("others")
    /\ held' = [held EXCEPT ![u].policies = IF p \in @ THEN @ \ {p} ELSE @ \cup {p}]
    /\ UNCHANGED <<lists, access, requests, latest, toasts>>

Next ==
    \/ \E u \in Person : OpenAccess(u)
    \/ CloseAccess
    \/ \E u \in Person, p \in Policies :
            \/ togglePolicy(u, p) \/ OthersAssign(u, p)
            \/ \E g \in Contents[p], switch \in BOOLEAN : requestRevokePolicyAction(u, p, g, switch)
    \/ \E u \in Person, g \in Catalog : toggleDirectPermission(u, g)
    \/ \E t \in toasts : Undo(t) \/ ToastGone(t)
    \/ \E r \in requests : ServerDoes(r) \/ Succeeds(r) \/ Refused(r) \/ AnswerLost(r)
    \/ \E k \in Key : ServerReads(k) \/ ReceiveRows(k) \/ RowsFail(k)

Spec == Init /\ [][Next]_accessVars

-----------------------------------------------------------------------------
\* Types: what is kept of queries, tabs, requests and toasts.
TypeOK ==
    /\ \A u \in Person : held[u].policies \subseteq Policies /\ held[u].permissions \subseteq Catalog
    /\ \A k \in Key : IsEntry(lists[k])
    /\ Cardinality(access) <= 1
    /\ \A r, s \in requests : r.id = s.id => r = s
    /\ \A t \in toasts : t.type = "undo" => t.undo # {}

\* Nothing is under way for the dialog, and nobody else changed anything.
Settled(k) ==
    /\ k \in ObservedFor(access) /\ requests = {} /\ ~Loading(lists[k])
    /\ spent.others = 0 /\ spent.faults = 0

\* Once nothing is under way, the dialog shows what the account holds, after any
\* changes and any Undo, one after the other or at once (policyMutations.ts:97-98,
\* 149-155: a split policy changes both lists).  Left out is a list whose request
\* was out, for the first time or off screen, when a change was confirmed.
AccessSettles ==
    \A k \in Key : Settled(k) /\ ~lists[k].missed => Data(k[1], k[2]) = held[k[1]][k[2]]

\* policyMutations.ts:97-98: "Invalidates UserPoliciesDialog's cached policy list
\* on success so it reflects the backend's confirmed state."
AccessAlwaysSettles ==
    \A k \in Key : Settled(k) => Data(k[1], k[2]) = held[k[1]][k[2]]

\* A toast that says a change is under way belongs to a call that will end it
\* (userAccessDialogHandlers.ts:131-133: "reports the result immediately").
LoadingToastsEnd ==
    \A t \in toasts : t.type = "loading" => \E r \in requests : r.toast = t.id /\ latest[r.kind] = r.id
=============================================================================
