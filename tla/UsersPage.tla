------------------------------ MODULE UsersPage ------------------------------
(***************************************************************************)
(* The user management page: filters from three places (typed and          *)
(* debounced, the session UI store, the address bar), a cached query for   *)
(* each view, the selection with "select all matching", the confirmations  *)
(* of a single change, and bulk changes sent in chunks.  Other             *)
(* administrators change the same accounts meanwhile.                      *)
(***************************************************************************)
EXTENDS Naturals, Sequences, FiniteSets, SequencesExt, FiniteSetsExt, QueryCache

CONSTANTS
    Order,          \* the accounts, in the order of the list
    Me,             \* the caller
    SystemUsers,    \* accounts with the role "system"
    Deactivated,    \* accounts that are deactivated at first
    Found,          \* the accounts that the search term finds
    Perms,          \* the actions that the caller may take
    PageSize,       \* rows of a page (PAGE_SIZE)
    ChunkSize,      \* BULK_REQUEST_CHUNK_SIZE
    SelectCap,      \* SELECT_ALL_MATCHING_MAX
    Links,          \* policy parameters the page may be opened with
    MaxEvents       \* edits of the view, changes by the caller and by other
                    \* administrators, and faults, together

User == ToSet(Order)
None == "none"

VARIABLES
    account,    \* account[u]: status ("active", "deleted", "gone"), role, holds
    filters,    \* typed, search (debounced), the store's status, policy and sort, url
    page,
    cache,      \* the query cache, by view
    selected,   \* selectedUserIds
    all,        \* selectAllMatching with allMatchingEmails
    gather,     \* handleSelectAllMatching under way
    dialog,     \* deletingUser, purgingUser, pendingRoleChange
    bulkDialog, \* BulkUserAccessDialog: its tab, last action and report
    jobs,       \* the mutations under way
    count,      \* edits, changes, others and faults so far
    chosen      \* chosen[u]: the view under which u was last checked, as a set

picking == <<selected, all, gather, chosen>>
vars    == <<account, filters, page, cache, picking, dialog, bulkDialog, jobs, count>>

can(action) == action \in Perms

Events == count.edits + count.changes + count.others + count.faults
Spend(what) == Events < MaxEvents /\ count' = [count EXCEPT ![what] = @ + 1]

-----------------------------------------------------------------------------
\* Filters.

\* While the address bar names a policy, that is the filter.
Policy(f) == IF f.url # None THEN f.url ELSE f.policy

\* filterResetKey, as data.
FilterKey(f) == [search |-> f.search, status |-> f.status, policy |-> Policy(f), sort |-> f.sort]
Key  == FilterKey(filters)
View == [key |-> Key, page |-> page]

\* activeFilters: a policy is only sent by a caller who may read policies.
Active(k) == [k EXCEPT !.policy = IF can("policies:read") THEN k.policy ELSE "all"]

\* One chip for each filter that is set.
chips(f) ==
    {c \in {"search", "status", "policy"} :
        CASE c = "search" -> f.typed # ""
          [] c = "status" -> f.status # "all"
          [] c = "policy" -> can("policies:read") /\ Policy(f) # "all"}

hasActiveFilters(f) == f.typed # "" \/ f.status # "all" \/ Policy(f) # "all"

\* One column can be sorted; at first it is not.
nextSortState(s) == IF s = "asc" THEN "desc" ELSE "asc"

-----------------------------------------------------------------------------
\* The server's list (GET /users).

Match(k, u) ==
    /\ account[u].status # "gone"
    /\ k.search # "" => u \in Found
    /\ k.status # "all" => account[u].status = k.status
    /\ k.policy # "all" => account[u].holds

Matching(k) == {u \in User : Match(Active(k), u)}
InOrder(us) == SelectSeq(Order, LAMBDA u : u \in us)

\* The accounts of a list up to u, in the order of the list.
UpTo(u, us, sort) ==
    LET place(w) == CHOOSE i \in DOMAIN Order : Order[i] = w
    IN  {w \in us : IF sort = "desc" THEN place(w) >= place(u) ELSE place(w) <= place(u)}

Shot(u) == [user |-> u, status |-> account[u].status, role |-> account[u].role]

listUsers(v) ==
    LET hits == Matching(v.key)
        shown == {u \in hits : LET n == Cardinality(UpTo(u, hits, v.key.sort))
                              IN  (v.page - 1) * PageSize < n /\ n <= v.page * PageSize}
    IN  [total |-> Cardinality(hits), rows |-> {Shot(u) : u \in shown}]

-----------------------------------------------------------------------------
\* The query of each view.  A view without data counts as an empty list.

query      == IF cache[View].data = {} THEN [total |-> 0, rows |-> {}] ELSE Value(cache[View])
Rows       == query.rows
OnScreen   == {r.user : r \in Rows}
TableShown == Shown(cache[View])

totalPages == Max({1, (query.total + PageSize - 1) \div PageSize})

\* useUsersQuery shows another view.
useUsersQuery(v) ==
    IF v \notin DOMAIN cache
    THEN cache' = [w \in DOMAIN cache \cup {v} |-> IF w = v THEN Opened ELSE cache[w]]
    ELSE cache' \in {[cache EXCEPT ![v] = e] : e \in Observed(cache[v])}

invalidateUsers == [v \in DOMAIN cache |-> Invalidated(cache[v], v = View)]

-----------------------------------------------------------------------------
NotGathering == [at |-> "idle", key |-> None, emails |-> <<>>]
NoDialog     == [kind |-> None, user |-> None]
NoReport     == [asked |-> <<>>, results |-> <<>>]
NoBulkDialog == [tab |-> None, last |-> None, report |-> NoReport]

Init ==
    /\ account = [u \in User |-> [status |-> IF u \in Deactivated THEN "deleted" ELSE "active",
                                  role |-> IF u \in SystemUsers THEN "system" ELSE "user",
                                  holds |-> u = Me]]
    /\ filters \in {[typed |-> "", search |-> "", status |-> "all", policy |-> "all",
                      sort |-> "no", url |-> u] : u \in Links}
    /\ page = 1
    /\ cache = [v \in {View} |-> Opened]
    /\ selected = {} /\ all = [on |-> FALSE, emails |-> <<>>] /\ gather = NotGathering
    /\ dialog = NoDialog /\ bulkDialog = NoBulkDialog /\ jobs = {}
    /\ count = [edits |-> 0, changes |-> 0, others |-> 0, faults |-> 0]
    /\ chosen = [u \in User |-> {}]

-----------------------------------------------------------------------------
\* Changing the view.  A render that finds another key resets the page and the
\* selection; the selection also goes with the page.

\* Mutant of ResetSelection: only the mode is reset, not the checked rows.
ResetMode(changed) ==
    /\ all' = [all EXCEPT !.on = @ /\ ~changed]
    /\ UNCHANGED selected

ResetSelection(changed) ==
    /\ all' = [all EXCEPT !.on = @ /\ ~changed]
    /\ selected' = IF changed THEN {} ELSE selected

Rerender(f) ==
    /\ filters' = f
    /\ IF FilterKey(f) # Key
       THEN page' = 1 /\ useUsersQuery([key |-> FilterKey(f), page |-> 1])
       ELSE UNCHANGED <<page, cache>>
    /\ ResetSelection(FilterKey(f) # Key)
    /\ UNCHANGED <<account, gather, chosen, dialog, bulkDialog, jobs>>

\* No dialog covers the page.
Bare == dialog = NoDialog /\ bulkDialog.tab = None

\* A key is pressed in the search box; the debounce timer starts over.
Type(q) ==
    /\ Bare /\ q # filters.typed /\ Spend("edits")
    /\ Rerender([filters EXCEPT !.typed = q])

\* useDebouncedValue's timer ends.
useDebouncedValue ==
    /\ filters.search # filters.typed
    /\ Rerender([filters EXCEPT !.search = filters.typed])
    /\ UNCHANGED count

\* setRole, setVerified, setStatus and setLastLogin (the status stands for all).
setStatus(s) ==
    /\ Bare /\ s # filters.status /\ Spend("edits")
    /\ Rerender([filters EXCEPT !.status = s])

\* The address bar follows the store if it names a policy, and keeps out
\* otherwise (setPermission does the same).
WithPolicy(f, p) ==
    [f EXCEPT !.policy = p, !.url = IF @ = None \/ p = "all" THEN None ELSE p]

setPolicy(p) ==
    /\ Bare /\ can("policies:read") /\ p # Policy(filters) /\ Spend("edits")
    /\ Rerender(WithPolicy(filters, p))

toggleSort ==
    /\ Bare /\ TableShown /\ Spend("edits")
    /\ Rerender([filters EXCEPT !.sort = nextSortState(@)])

\* clearFilters: the search box is emptied here, the debounced value later.
clearFilters ==
    /\ Bare /\ chips(filters) # {} /\ Spend("edits")
    /\ Rerender(WithPolicy([filters EXCEPT !.typed = "", !.status = "all"], "all"))

\* A tile of UserStatsCard: one status and nothing else.
FilterTile(s) ==
    /\ Bare /\ (filters.status # s \/ hasActiveFilters([filters EXCEPT !.status = "all"]))
    /\ Spend("edits")
    /\ Rerender(WithPolicy([filters EXCEPT !.typed = "", !.status = s], "all"))

\* Pagination: previous, next, or a page of buildPageList.
buildPageList(p, n) == {1, n} \cup ((p - 1 .. p + 1) \cap (2 .. n))

setPage(p) ==
    /\ Bare /\ p # page /\ Spend("edits")
    /\ p \in buildPageList(page, totalPages) \cup (IF page > 1 THEN {page - 1} ELSE {})
    /\ page' = p
    /\ useUsersQuery([View EXCEPT !.page = p])
    /\ ResetSelection(TRUE)
    /\ UNCHANGED <<account, filters, gather, chosen, dialog, bulkDialog, jobs>>

-----------------------------------------------------------------------------
\* The queries, also the ones of views that are no longer on screen.

offPage == <<account, filters, page, picking, dialog, bulkDialog, jobs>>

ServerLists(v) ==
    /\ cache[v].fetch = "sent"
    /\ cache' = [cache EXCEPT ![v] = Answered(@, listUsers(v))]
    /\ UNCHANGED <<offPage, count>>

ReceiveList(v) ==
    /\ cache[v].fetch = "answered"
    /\ cache' = [cache EXCEPT ![v] = Received(@)]
    /\ UNCHANGED <<offPage, count>>

\* The request fails: the table shows an error in place of its rows, also of
\* rows that it has from before.
ListFails(v) ==
    /\ Loading(cache[v]) /\ Spend("faults")
    /\ cache' = [cache EXCEPT ![v] = Failed(@)]
    /\ UNCHANGED offPage

\* An administrator elsewhere deactivates, reactivates or removes an account.
OthersChange(u, s) ==
    /\ Spend("others")
    /\ account[u].status # "gone" /\ s # account[u].status
    /\ s = "gone" => account[u].status = "deleted"
    /\ account' = [account EXCEPT ![u].status = s]
    /\ UNCHANGED <<filters, page, cache, picking, dialog, bulkDialog, jobs>>

\* The window gets the focus again after the data has become stale.
Refocus ==
    /\ count.others > 0 /\ ~Loading(cache[View])
    /\ cache' = [cache EXCEPT ![View] = Refetch(@)]
    /\ UNCHANGED <<offPage, count>>

-----------------------------------------------------------------------------
\* The selection.

\* useDataTableSelection: a row, or the header box.
Toggled(sel, us) == IF us \subseteq sel THEN sel \ us ELSE sel \cup us

handleSelectionChange(sel) ==
    /\ selected' = sel
    /\ all' = [all EXCEPT !.on = FALSE]
    /\ chosen' = [u \in User |-> IF u \in sel \ selected THEN {View} ELSE chosen[u]]
    /\ UNCHANGED <<account, filters, page, cache, gather, dialog, bulkDialog, jobs, count>>

toggleRow(u) ==
    /\ Bare /\ TableShown /\ u \in OnScreen
    /\ handleSelectionChange(Toggled(selected, {u}))

toggleAll ==
    /\ Bare /\ TableShown /\ Rows # {}
    /\ handleSelectionChange(Toggled(selected, OnScreen))

\* The accounts that a bulk change would be sent for, and the number shown.
Checked == OnScreen \cap selected
selectedUserEmails == IF all.on THEN all.emails ELSE InOrder(Checked)
selectedCount == IF all.on THEN query.total ELSE Cardinality(selected)

clearSelection ==
    /\ Bare /\ selectedCount > 0
    /\ selected' = {} /\ all' = [all EXCEPT !.on = FALSE]
    /\ UNCHANGED <<account, filters, page, cache, gather, chosen, dialog, bulkDialog, jobs, count>>

canOfferSelectAllMatching ==
    /\ ~all.on /\ Rows # {}
    /\ Cardinality(selected) = Cardinality(Rows)
    /\ query.total > Cardinality(Rows)

\* handleSelectAllMatching: the filters are those of the render it was pressed in.
handleSelectAllMatching ==
    /\ Bare /\ canOfferSelectAllMatching /\ gather.at = "idle"
    /\ gather' = [at |-> "sent", key |-> Key, emails |-> <<>>]
    /\ UNCHANGED <<account, filters, page, cache, selected, all, chosen, dialog, bulkDialog, jobs, count>>

\* GET /users, page by page, without the sort.
fetchAllMatchingUserEmails ==
    /\ gather.at = "sent"
    /\ gather' = [gather EXCEPT !.at = "answered",
                    !.emails = InOrder(Matching(gather.key))]
    /\ UNCHANGED <<account, filters, page, cache, selected, all, chosen, dialog, bulkDialog, jobs, count>>

\* The answer is taken in whatever the page shows by now; too many are an error.
SelectAllAnswered ==
    /\ gather.at = "answered"
    /\ gather' = NotGathering
    /\ all' = IF Len(gather.emails) > SelectCap THEN all
              ELSE [on |-> TRUE, emails |-> gather.emails]
    /\ UNCHANGED <<account, filters, page, cache, selected, chosen, dialog, bulkDialog, jobs, count>>

-----------------------------------------------------------------------------
\* Mutations.  A job is a sequence of requests, one for each chunk of accounts;
\* a single change is a job with one chunk of one account.

Job(kind, chunks) ==
    [id |-> count.changes, kind |-> kind, rest |-> chunks, at |-> "sent",
     asked |-> FlattenSeq(chunks), results |-> <<>>, ok |-> TRUE, watched |-> TRUE]

Start(kind, chunks) ==
    /\ Spend("changes")
    /\ jobs' = jobs \cup {Job(kind, chunks)}

isPending(kind) == \E j \in jobs : j.kind = kind /\ j.watched

\* Which rows offer which change (the role column and the row menu).
RoleOffered(r) ==
    can("users:assign_role") /\ r.user # Me /\ r.role # "system"

MenuOffers(kind, r) ==
    /\ r.role # "system"
    /\ CASE kind = "reactivate" -> can("users:reactivate") /\ r.status = "deleted"
         [] kind = "deactivate" -> can("users:deactivate_any") /\ r.status # "deleted" /\ r.user # Me
         [] kind = "purge"      -> can("users:delete_any") /\ r.status = "deleted" /\ r.user # Me

RowOffers(kind, r) == IF kind = "role" THEN RoleOffered(r) ELSE MenuOffers(kind, r)

\* setDeletingUser, setPurgingUser, setPendingRoleChange
Ask(kind, r) ==
    /\ Bare /\ TableShown /\ RowOffers(kind, r)
    /\ dialog' = [kind |-> kind, user |-> r.user]
    /\ UNCHANGED <<account, filters, page, cache, picking, bulkDialog, jobs, count>>

\* The dialog is left, by Escape also while the change is under way.
Cancel ==
    /\ dialog # NoDialog
    /\ dialog' = NoDialog
    /\ UNCHANGED <<account, filters, page, cache, picking, bulkDialog, jobs, count>>

\* handleDeleteConfirm, handlePurgeConfirm, handleRoleChangeConfirm
Confirm ==
    /\ dialog # NoDialog /\ ~isPending(dialog.kind)
    /\ Start(dialog.kind, <<<<dialog.user>>>>)
    /\ UNCHANGED <<account, filters, page, cache, picking, dialog, bulkDialog>>

\* handleReactivate: the item is off only for the account of the latest call.
handleReactivate(r) ==
    /\ Bare /\ TableShown /\ RowOffers("reactivate", r)
    /\ ~\E j \in jobs : /\ j.kind = "reactivate" /\ j.asked = <<r.user>>
                        /\ \A k \in jobs : k.kind = "reactivate" => k.id <= j.id
    /\ Start("reactivate", <<<<r.user>>>>)
    /\ UNCHANGED <<account, filters, page, cache, picking, dialog, bulkDialog>>

-----------------------------------------------------------------------------
\* Bulk changes.

Bulk == {"assign", "remove", "grant", "revoke", "bulkRole"}

TabPermission ==
    [policies |-> "policies:assign", permissions |-> "permissions:grant", roles |-> "users:assign_role"]

\* setBulkDialog
OpenBulk(tab) ==
    /\ Bare /\ selectedCount > 0 /\ can(TabPermission[tab])
    /\ bulkDialog' = [NoBulkDialog EXCEPT !.tab = tab]
    /\ UNCHANGED <<account, filters, page, cache, picking, dialog, jobs, count>>

\* activateTab: any tab of the dialog may be opened from any other.
activateTab(tab) ==
    /\ bulkDialog.tab \notin {None, tab} /\ Events < MaxEvents
    /\ bulkDialog' = [NoBulkDialog EXCEPT !.tab = tab]
    /\ UNCHANGED <<account, filters, page, cache, picking, dialog, jobs, count>>

\* onClose, and the effect that resets the five mutations: what is under way
\* goes on, and nothing shows how it ends.
CloseBulk ==
    /\ bulkDialog.tab # None
    /\ bulkDialog' = NoBulkDialog
    /\ jobs' = {[j EXCEPT !.watched = @ /\ j.kind \notin Bulk] : j \in jobs}
    /\ UNCHANGED <<account, filters, page, cache, picking, dialog, count>>

\* chunk
chunk(items, size) ==
    [i \in 1 .. (Len(items) + size - 1) \div size |->
        SubSeq(items, (i - 1) * size + 1, Min({i * size, Len(items)}))]

\* The job is sent for the accounts selected now.
RunBulk(kind) ==
    /\ ~isPending(kind)
    /\ Start(kind, chunk(selectedUserEmails, ChunkSize))
    /\ bulkDialog' = [bulkDialog EXCEPT !.last = kind, !.report = NoReport]
    /\ UNCHANGED <<account, filters, page, cache, picking, dialog>>

runPolicy(remove) ==
    /\ bulkDialog.tab = "policies"
    /\ remove => can("policies:revoke")
    /\ RunBulk(IF remove THEN "remove" ELSE "assign")

\* runPermission: conditions that are not JSON end it before any request.
runPermission(remove) ==
    /\ bulkDialog.tab = "permissions"
    /\ remove => can("permissions:revoke")
    /\ RunBulk(IF remove THEN "revoke" ELSE "grant")

runRole == bulkDialog.tab = "roles" /\ RunBulk("bulkRole")

-----------------------------------------------------------------------------
\* The server's side of a request, and the answer.

Allowed(kind, u) ==
    CASE kind = "deactivate"              -> account[u].status = "active"
      [] kind \in {"purge", "reactivate"} -> account[u].status = "deleted"
      [] OTHER                            -> account[u].status # "gone" /\ account[u].role # "system"

Changed(kind, a) ==
    CASE kind = "deactivate"            -> [a EXCEPT !.status = "deleted"]
      [] kind = "purge"                 -> [a EXCEPT !.status = "gone"]
      [] kind = "reactivate"            -> [a EXCEPT !.status = "active"]
      [] kind \in {"role", "bulkRole"}  -> [a EXCEPT !.role = "manager"]
      [] kind \in {"assign", "remove"}  -> [a EXCEPT !.holds = kind = "assign"]
      [] OTHER                          -> a

ServerChanges(j) ==
    /\ j.at = "sent"
    /\ IF j.rest = <<>>
       THEN UNCHANGED account /\ jobs' = (jobs \ {j}) \cup {[j EXCEPT !.at = "answered"]}
       ELSE LET us == ToSet(Head(j.rest))
                do == {u \in us : Allowed(j.kind, u)}
            IN  /\ account' = [u \in User |-> IF u \in do THEN Changed(j.kind, account[u]) ELSE account[u]]
                /\ jobs' = (jobs \ {j}) \cup
                        {[j EXCEPT !.at = "answered", !.rest = Tail(@),
                                   !.results = @ \o Head(j.rest), !.ok = j.kind \in Bulk \/ do = us]}
    /\ UNCHANGED <<filters, page, cache, picking, dialog, bulkDialog, count>>

\* runChunkedBulk: the chunks go out one after the other.
NextChunk(j) ==
    /\ j.at = "answered" /\ j.rest # <<>>
    /\ jobs' = (jobs \ {j}) \cup {[j EXCEPT !.at = "sent"]}
    /\ UNCHANGED <<account, filters, page, cache, picking, dialog, bulkDialog, count>>

\* Changes after which the list is asked for again.
ChangesList == {"deactivate", "purge", "reactivate", "role", "bulkRole"}

\* The callbacks of the page, for a change of one account: the dialog of this
\* kind is closed, for whomever it is open by now.
CloseDialogOf(kind) == IF dialog.kind = kind THEN NoDialog ELSE dialog

\* The report is shown in the dialog it was asked for in.
Report(j) ==
    IF j.watched /\ bulkDialog.last = j.kind
    THEN [bulkDialog EXCEPT !.report = [asked |-> j.asked, results |-> j.results]]
    ELSE bulkDialog

ChangeSucceeds(j) ==
    /\ j.at = "answered" /\ j.rest = <<>> /\ j.ok
    /\ jobs' = jobs \ {j}
    /\ cache' = IF j.kind \in ChangesList THEN invalidateUsers ELSE cache
    /\ dialog' = CloseDialogOf(j.kind)
    /\ bulkDialog' = IF j.kind \in Bulk THEN Report(j) ELSE bulkDialog
    /\ UNCHANGED <<account, filters, page, picking, count>>

\* The server refuses: a toast, and nothing else.
ChangeRefused(j) ==
    /\ j.at = "answered" /\ ~j.ok
    /\ jobs' = jobs \ {j}
    /\ UNCHANGED <<account, filters, page, cache, picking, dialog, bulkDialog, count>>

\* A request or its answer is lost: what earlier chunks changed is not reported,
\* and the list is not asked for again.
ChangeLost(j) ==
    /\ Spend("faults")
    /\ jobs' = jobs \ {j}
    /\ UNCHANGED <<account, filters, page, cache, picking, dialog, bulkDialog>>

-----------------------------------------------------------------------------
Next ==
    \/ \E q \in {"", "term"} : Type(q)
    \/ useDebouncedValue
    \/ \E s \in {"all", "active"} : setStatus(s)
    \/ \E p \in {"all", "held"} : setPolicy(p)
    \/ toggleSort \/ clearFilters
    \/ \E s \in {"all", "deleted"} : FilterTile(s)
    \/ \E p \in 1 .. Len(Order) : setPage(p)
    \/ \E v \in DOMAIN cache : ServerLists(v) \/ ReceiveList(v) \/ ListFails(v)
    \/ \E u \in User, s \in {"active", "deleted", "gone"} : OthersChange(u, s)
    \/ Refocus
    \/ \E u \in User : toggleRow(u)
    \/ toggleAll \/ clearSelection
    \/ handleSelectAllMatching \/ fetchAllMatchingUserEmails \/ SelectAllAnswered
    \/ \E r \in Rows, kind \in {"deactivate", "purge", "role"} : Ask(kind, r)
    \/ Cancel \/ Confirm
    \/ \E r \in Rows : handleReactivate(r)
    \/ \E tab \in DOMAIN TabPermission : OpenBulk(tab) \/ activateTab(tab)
    \/ CloseBulk
    \/ \E remove \in BOOLEAN : runPolicy(remove) \/ runPermission(remove)
    \/ runRole
    \/ \E j \in jobs : \/ ServerChanges(j) \/ NextChunk(j) \/ ChangeSucceeds(j)
                       \/ ChangeRefused(j) \/ ChangeLost(j)

Spec == Init /\ [][Next]_vars

-----------------------------------------------------------------------------
\* Types: what is kept of queries, selections, dialogs and requests.
TypeOK ==
    /\ account \in [User -> [status : {"active", "deleted", "gone"}, role : STRING, holds : BOOLEAN]]
    /\ View \in DOMAIN cache
    /\ \A v \in DOMAIN cache : IsEntry(cache[v])
    /\ selected \subseteq User
    /\ \A j, k \in jobs : j.id = k.id => j = k
    /\ ToSet(selectedUserEmails) \subseteq User
    /\ ~all.on => ToSet(selectedUserEmails) = Checked

\* A bulk change that is not for "all matching" goes to accounts that were
\* checked under the page, filters and sort that are on screen
\* (useUsersPageState.ts:124-126: "Clears selection on any page or filter
\* change").
TargetsChosenHere ==
    ~all.on => \A u \in Checked : chosen[u] = {View}

\* Nothing is under way, and nobody else changed anything.
Quiet == jobs = {} /\ ~Loading(cache[View]) /\ count.others = 0 /\ count.faults = 0

\* Once nothing is under way, the rows on screen are those that the server has:
\* no answer that was computed before the caller's own change survives it
\* (userMutations.ts:16-20).  Left out are a list filtered by policy, which no
\* policy change refreshes, and a view whose request was out, off screen or for
\* the first time, when the change was confirmed.
OwnChangesShow ==
    Quiet /\ Policy(filters) = "all" /\ ~cache[View].missed => query = listUsers(View)

\* What the comment of userMutations.ts:17-19 promises: "a management action
\* here is reflected everywhere that list is rendered".
OwnChangesShowEverywhere ==
    Quiet /\ Policy(filters) = "all" => query = listUsers(View)

\* "All matching" stands for accounts that match the filters on screen
\* (useUsersPageState.ts:124-125: "so a bulk action can't apply to users no
\* longer on screen"), as long as nobody changed an account meanwhile.
SelectAllMatchesFilters ==
    all.on /\ count.others = 0 /\ count.changes = 0 =>
        \A u \in ToSet(all.emails) : Match(Active(Key), u)
=============================================================================
