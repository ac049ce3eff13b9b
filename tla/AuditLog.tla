------------------------------ MODULE AuditLog ------------------------------
(***************************************************************************)
(* The audit log page: two categories of entries, each shown for the       *)
(* caller or for all users, so four sections of which one is mounted.      *)
(* A section keeps its filters in a store that outlives it; its page, its  *)
(* pending debounces and its drawer go with it.  The drawer remembers a    *)
(* position in the list and steps through it, across pages, while pages    *)
(* load, fail and are fetched again.  Entries are written meanwhile.       *)
(***************************************************************************)
EXTENDS Naturals, Sequences, FiniteSets, FiniteSetsExt, QueryCache

CONSTANTS
    Entries,    \* the log, oldest first: [user, kind, group, ip, ok, day]
    Written,    \* how many of them are in the log at first
    Me,         \* the caller's address
    May,        \* the categories the caller may read for all users
    PageSize,   \* PAGE_SIZE
    Links,      \* the addresses that the page may be opened with
    Days,       \* the dates the custom range offers; the last one is today
    Kept,       \* filters that an earlier visit may have left in every store
    MaxEdits,   \* changes of a filter and of the section
    MaxFaults   \* refetches on focus, failures and new entries

Categories == {"authorization", "security"}
Scopes     == {"mine", "all"}
Section    == Categories \X Scopes

VARIABLES
    place,      \* the address's and the store's category and scope
    stores,     \* stores[s]: the filters of section s
    debounced,  \* the mounted section's delayed text filters
    mount,      \* its number, and nowMs as the number of entries by then
    view,       \* the list and the page that the query observes
    queries,    \* the query cache, by view
    openIndex,  \* openGlobalIndex, {} when the drawer is closed
    openEntry,  \* {} or one entry
    log,        \* how many entries have been written
    under,      \* the list that openIndex counts in (a history variable)
    uses        \* how many edits and faults there were

drawer    == <<openIndex, openEntry, under>>
auditVars == <<place, stores, debounced, mount, view, queries, drawer, log, uses>>

SpendEdit  == uses.edits < MaxEdits /\ uses' = [uses EXCEPT !.edits = @ + 1]
SpendFault == uses.faults < MaxFaults /\ uses' = [uses EXCEPT !.faults = @ + 1]

-----------------------------------------------------------------------------
\* Which section is mounted: the address decides, then the store, then the default.

Pick(field, default) ==
    IF place.url[field] # "" THEN place.url[field]
    ELSE IF place.stored[field] # "" THEN place.stored[field] ELSE default

initialCategory == Pick("category", "authorization")

\* "all" is for callers who may read that category for all users.
initialScope ==
    LET requested == Pick("scope", "mine")
    IN  IF requested # "all" \/ initialCategory \in May THEN requested ELSE "mine"

Here == <<initialCategory, initialScope>>

-----------------------------------------------------------------------------
\* Filters.  The fields that a section has, besides the range and the sort order.

AllSecurityLogSection     == {"search", "kind", "ip", "result"}
MySecurityLogSection      == {"kind", "ip", "result"}
AllAuthorizationLogSection == {"search", "kind", "group", "result"}
MyAuthorizationLogSection == {"kind", "group", "result"}

Fields(s) ==
    CASE s = <<"security", "all">>      -> AllSecurityLogSection
      [] s = <<"security", "mine">>     -> MySecurityLogSection
      [] s = <<"authorization", "all">> -> AllAuthorizationLogSection
      [] s = <<"authorization", "mine">> -> MyAuthorizationLogSection

Typed == {"search", "ip"}     \* the fields that are debounced

DefaultRange == [range |-> "14", from |-> 0, to |-> 0]
Unset        == [f \in {"search", "kind", "group", "ip", "result"} |-> ""]
defaults     == [set |-> Unset, sortDir |-> "desc", time |-> DefaultRange]

Store == stores[Here]
Delay(s) == [f \in Typed |-> stores[s].set[f]]

hasNonRangeFilters == \E f \in Fields(Here) : Store.set[f] # ""
isRangeActive      == Store.time.range # "14"

\* One chip for each filter; the two of the action picker share one.
securityChips ==
    (IF isRangeActive THEN {"range"} ELSE {}) \cup {f \in Fields(Here) : Store.set[f] # ""}
authorizationChips ==
    securityChips \ (IF Store.set.kind # "" THEN {"group"} ELSE {})
chips == IF initialCategory = "security" THEN securityChips ELSE authorizationChips

\* timeRangeToApiParams: which entries are within the range.  A preset ends at
\* the moment the section was mounted, a custom range with its last day.
InRange(i, t, bound) ==
    IF t.range = "custom" THEN t.from <= Entries[i].day /\ Entries[i].day <= t.to
    ELSE i <= bound /\ (t.range = "14" => Entries[i].day > 0)

daysOf(t) ==
    CASE t.range = "14" -> 14
      [] t.range = "90" -> 90
      [] t.range = "custom" -> t.to - t.from + 1

-----------------------------------------------------------------------------
\* The query: its key, and what the server answers.

FiltersNow ==
    [section |-> Here,
     set     |-> [f \in DOMAIN Unset |-> IF f \in Typed THEN debounced[f] ELSE Store.set[f]],
     sortDir |-> Store.sortDir, time |-> Store.time,
     mount   |-> IF Store.time.range = "custom" THEN [number |-> 0, now |-> 0] ELSE mount]
Key  == view.key
page == view.page

Matches(k, i) ==
    LET e == Entries[i]
        want(f, v) == f \in Fields(k.section) => k.set[f] \in {"", v}
    IN  /\ InRange(i, k.time, k.mount.now)
        /\ k.section[2] = "mine" => e.user = Me
        /\ want("search", e.user) /\ want("kind", e.kind) /\ want("group", e.group)
        /\ want("ip", e.ip) /\ want("result", e.ok)

Hits(k) == {i \in 1 .. log : Matches(k, i)}

\* The n-th entry of a list is the one that n entries, itself included, come up to.
Nth(hits, dir, n) ==
    CHOOSE i \in hits : Cardinality({j \in hits : IF dir = "desc" THEN j >= i ELSE j <= i}) = n
Sorted(hits, dir) == [n \in 1 .. Cardinality(hits) |-> Nth(hits, dir, n)]
Listing(k) == Sorted(Hits(k), k.sortDir)

\* limit and offset, and the total of the answer's header.
listAuditLog(v) ==
    LET hits == Listing(v.key)
    IN  [rows  |-> SubSeq(hits, (v.page - 1) * PageSize + 1, Min({v.page * PageSize, Len(hits)})),
         total |-> Len(hits)]

Query      == queries[view]
isFetching == Loading(Query)
isLoading  == isFetching /\ Query.data = {}
Data       == IF Query.data = {} THEN [rows |-> <<>>, total |-> 0] ELSE Value(Query)
RowAt(i)   == IF i \in DOMAIN Data.rows THEN {Data.rows[i]} ELSE openEntry

totalPagesFor(total) == Max({1, (total + PageSize - 1) \div PageSize})

\* The rows can be clicked, and the pages turned, when there are some to show.
TableShown == ~isLoading /\ Shown(Query) /\ Data.rows # <<>>

isEmpty        == ~isLoading /\ ~Query.failed /\ Data.rows = <<>>
showRangeEmpty == isEmpty /\ ~hasNonRangeFilters

-----------------------------------------------------------------------------
\* The drawer is modal.  Within its own page, and unless that is being fetched,
\* it shows the row at its position, and otherwise the entry it had.

openPage(i) == (i \div PageSize) + 1

drawerEntry ==
    IF \E i \in openIndex : openPage(i) = page /\ ~isFetching
    THEN UNION {RowAt((i % PageSize) + 1) : i \in openIndex}
    ELSE openEntry

DrawerShown  == drawerEntry # {}
PositionShown == openIndex # {} /\ Query.data # {}

canGoPrevious == \E i \in openIndex : i > 0
canGoNext     == Query.data # {} /\ \E i \in openIndex : i + 1 < Data.total

Closed == openIndex' = {} /\ openEntry' = {} /\ under' = {}

-----------------------------------------------------------------------------
Init ==
    /\ place \in {[url |-> l, stored |-> [category |-> "", scope |-> ""]] : l \in Links}
    /\ stores \in {[s \in Section |-> k] : k \in Kept \cup {defaults}}
    /\ debounced = Delay(Here)
    /\ mount = [number |-> 1, now |-> Written]
    /\ view = [key |-> FiltersNow, page |-> 1] /\ queries = [v \in {view} |-> Opened]
    /\ openIndex = {} /\ openEntry = {} /\ under = {}
    /\ log = Written /\ uses = [edits |-> 0, faults |-> 0]

\* useQuery shows a view.
Observe(v) ==
    /\ view' = v
    /\ IF v \notin DOMAIN queries
       THEN queries' = [w \in DOMAIN queries \cup {v} |-> IF w = v THEN Opened ELSE queries[w]]
       ELSE queries' \in {[queries EXCEPT ![v] = e] : e \in Observed(queries[v])}

\* usePageResetOn: another list starts on its first page.
Render ==
    LET key == FiltersNow'
    IN  IF key = Key THEN UNCHANGED <<view, queries>> ELSE Observe([key |-> key, page |-> 1])

Edit(store) ==
    /\ ~DrawerShown /\ SpendEdit
    /\ stores' = [stores EXCEPT ![Here] = store]
    /\ UNCHANGED <<place, debounced, mount, drawer, log>> /\ Render

With(f, v) == [Store EXCEPT !.set[f] = v]

-----------------------------------------------------------------------------
\* The filter bars.

Logged == {Entries[i] : i \in DOMAIN Entries}

Values(f) ==
    CASE f = "search" -> {e.user : e \in Logged}
      [] f = "ip"     -> {e.ip : e \in Logged}
      [] f = "kind"   -> {e.kind : e \in Logged}
      [] f = "group"  -> {e.group : e \in Logged}
      [] f = "result" -> {"true", "false"}

\* Each control sets its own field.
SecurityFilterBar ==
    /\ initialCategory = "security"
    /\ \E f \in Fields(Here) : \E v \in Values(f) \cup {""} : v # Store.set[f] /\ Edit(With(f, v))

\* A group's header picks the whole group and drops the action.
AuthorizationFilterBar ==
    /\ initialCategory = "authorization"
    /\ \/ \E f \in Fields(Here) \ {"group"} : \E v \in Values(f) \cup {""} :
            v # Store.set[f] /\ Edit(With(f, v))
       \/ \E g \in Values("group") :
            Edit([Store EXCEPT !.set.group = g, !.set.kind = ""])

\* Presets, a custom range of two dates in order, and the reset.
TimeRangeControl ==
    \/ \E r \in {"14", "90"} :
        Store.time.range # r /\ Edit([Store EXCEPT !.time = [DefaultRange EXCEPT !.range = r]])
    \/ \E from, to \in Days : from <= to /\
        Edit([Store EXCEPT !.time = [range |-> "custom", from |-> from, to |-> to]])

toggleSort ==
    Edit([Store EXCEPT !.sortDir = IF @ = "asc" THEN "desc" ELSE "asc"])

onClearChip == \E c \in chips :
    Edit(IF c = "range" THEN [Store EXCEPT !.time = DefaultRange] ELSE With(c, ""))

clearAll == chips # {} /\ Edit([Store EXCEPT !.set = Unset, !.time = DefaultRange])

\* What an empty table offers.
emptyAction ==
    IF showRangeEmpty
    THEN daysOf(Store.time) < 90 /\ Edit([Store EXCEPT !.time = [DefaultRange EXCEPT !.range = "90"]])
    ELSE isEmpty /\ hasNonRangeFilters /\ Edit([Store EXCEPT !.set = Unset, !.time = DefaultRange])

\* A text filter has not changed for 300 ms.
useDebouncedValue(f) ==
    /\ debounced[f] # Store.set[f]
    /\ debounced' = [debounced EXCEPT ![f] = Store.set[f]]
    /\ UNCHANGED <<place, stores, mount, drawer, log, uses>> /\ Render

Turn(p) ==
    /\ Observe([view EXCEPT !.page = p])
    /\ UNCHANGED <<place, stores, debounced, mount, log, uses>>

Pagination ==
    /\ TableShown /\ ~DrawerShown
    /\ \E p \in 1 .. totalPagesFor(Data.total) : p # page /\ Turn(p)
    /\ UNCHANGED drawer

-----------------------------------------------------------------------------
\* The drawer.

onRowClick(r) ==
    /\ TableShown /\ ~DrawerShown
    /\ openEntry' = {Data.rows[r]}
    /\ openIndex' = {(page - 1) * PageSize + r - 1}
    /\ under' = {Key}
    /\ UNCHANGED <<place, stores, debounced, mount, view, queries, log, uses>>

\* Mutant of StepTo: the position moves, the page does not.
StepWithinPage(next) ==
    /\ openIndex' = {next} /\ UNCHANGED under
    /\ openEntry' = RowAt((next % PageSize) + 1)
    /\ UNCHANGED <<place, stores, debounced, mount, view, queries, log, uses>>

\* To another position: on this page its row is known, another page is turned
\* to, and the entry stays until that has come.
StepTo(next) ==
    /\ openIndex' = {next} /\ UNCHANGED under
    /\ IF openPage(next) # page
       THEN openEntry' = openEntry /\ Turn(openPage(next))
       ELSE /\ openEntry' = RowAt((next % PageSize) + 1)
            /\ UNCHANGED <<place, stores, debounced, mount, view, queries, log, uses>>

onPrevious == DrawerShown /\ canGoPrevious /\ \E i \in openIndex : StepTo(i - 1)
onNext     == DrawerShown /\ canGoNext /\ \E i \in openIndex : StepTo(i + 1)

onClose ==
    /\ DrawerShown /\ Closed
    /\ UNCHANGED <<place, stores, debounced, mount, view, queries, log, uses>>

\* The drawer's shortcuts: the list of this entry's user, address or kind.
SecurityDetailsDrawer(e) ==
    {<<"ip", e.ip>>, <<"kind", e.kind>>}
        \cup (IF initialScope = "all" THEN {<<"search", e.user>>} ELSE {})
AuthorizationDetailsDrawer(e) ==
    {<<"kind", e.kind>>} \cup (IF initialScope = "all" THEN {<<"search", e.user>>} ELSE {})

onFilter ==
    /\ DrawerShown /\ SpendEdit /\ Closed
    /\ \E i \in drawerEntry :
        \E f \in IF initialCategory = "security" THEN SecurityDetailsDrawer(Entries[i])
                 ELSE AuthorizationDetailsDrawer(Entries[i]) :
            stores' = [stores EXCEPT ![Here] = With(f[1], f[2])]
    /\ UNCHANGED <<place, debounced, mount, log>> /\ Render

-----------------------------------------------------------------------------
\* Another section is mounted: its filters are the store's, all else is new.
\* A preset's key is never used again once its section is gone.

Mount ==
    /\ mount' = [number |-> mount.number + 1, now |-> log]
    /\ debounced' = Delay(Here')
    /\ Closed
    /\ LET key  == FiltersNow'
           v    == [key |-> key, page |-> 1]
           kept == {w \in DOMAIN queries : w.key.time.range = "custom"}
       IN  /\ view' = v
           /\ \E e \in IF v \in kept THEN Observed(queries[v]) ELSE {Opened} :
                queries' = [w \in kept \cup {v} |-> IF w = v THEN e ELSE queries[w]]

SetTab(field, v) ==
    /\ ~DrawerShown /\ SpendEdit
    /\ place' = [url |-> [place.url EXCEPT ![field] = v], stored |-> [place.stored EXCEPT ![field] = v]]
    /\ UNCHANGED <<stores, log>>
    /\ Mount

setCategory == SetTab("category", CHOOSE c \in Categories : c # initialCategory)
setScope    == \/ initialScope = "mine" /\ initialCategory \in May /\ SetTab("scope", "all")
               \/ initialScope = "all" /\ SetTab("scope", "mine")

\* The caller leaves the page and comes back to it.
AuditLogPage == \E l \in Links :
    /\ ~DrawerShown /\ SpendEdit
    /\ place' = [place EXCEPT !.url = l]
    /\ UNCHANGED <<stores, log>>
    /\ Mount

-----------------------------------------------------------------------------
\* The network, the browser and everyone else.

Cached(v, e) ==
    /\ queries' = [queries EXCEPT ![v] = e]
    /\ UNCHANGED <<place, stores, debounced, mount, view, drawer, log>>

\* An answer, which holds what the log holds when it arrives.
Receive(v) ==
    /\ Loading(queries[v]) /\ UNCHANGED uses
    /\ Cached(v, Received(Answered(queries[v], listAuditLog(v))))
Fail(v) ==
    Loading(queries[v]) /\ SpendFault /\ Cached(v, Failed(queries[v]))

\* The window comes into focus again and the page is stale by now.
Refocus ==
    ~isFetching /\ SpendFault /\ Cached(view, Refetch(Query))

Write ==
    /\ log < Len(Entries) /\ SpendFault /\ log' = log + 1
    /\ UNCHANGED <<place, stores, debounced, mount, view, queries, drawer>>

Next ==
    \/ SecurityFilterBar \/ AuthorizationFilterBar \/ TimeRangeControl
    \/ toggleSort \/ onClearChip \/ clearAll \/ emptyAction
    \/ \E f \in Typed \cap Fields(Here) : useDebouncedValue(f)
    \/ Pagination
    \/ \E r \in DOMAIN Data.rows : onRowClick(r)
    \/ onPrevious \/ onNext \/ onClose \/ onFilter
    \/ setCategory \/ setScope \/ AuditLogPage
    \/ \E v \in DOMAIN queries : Receive(v) \/ Fail(v)
    \/ Refocus \/ Write

Spec == Init /\ [][Next]_auditVars

-----------------------------------------------------------------------------
(* Types; the page always has its query, and the drawer's position and its   *)
(* entry come and go together.                                               *)
TypeOK ==
    /\ Here \in Section /\ page \in Nat \ {0} /\ log \in Written .. Len(Entries)
    /\ Key = FiltersNow /\ view \in DOMAIN queries
    /\ \A v \in DOMAIN queries : IsEntry(queries[v])
    /\ openEntry \subseteq 1 .. log
    /\ (openIndex = {}) = (openEntry = {})

(* No new entry can come into the list: a preset ends when the section was   *)
(* mounted, a custom range before the day of every entry still to be written. *)
Immutable(k) ==
    k.time.range = "custom" => \A i \in Written + 1 .. Len(Entries) : ~(Entries[i].day <= k.time.to)

(* Once nothing is loading, the entry in the drawer is the one that the log   *)
(* has at the position the drawer names, however many pages were turned,      *)
(* failed or were fetched again on the way (AllSecurityLogSection, 72-80 and  *)
(* 179-194).  It is asked of lists that no new entry joins, and not after a   *)
(* debounce replaced the list under an open drawer.                           *)
DrawerAtItsPlace ==
    \A i \in openIndex :
        PositionShown /\ ~isFetching /\ under = {Key} /\ Immutable(Key)
            => drawerEntry = {Listing(Key)[i + 1]}

(* The position the drawer names is one of the list it is shown over.  It is  *)
(* not: a debounce that fires after the click replaces the list.              *)
PositionIsOfThisList == PositionShown => under = {Key}

(* Every filter that narrows the list has a chip (AuthorizationFilterBar.tsx, *)
(* 46: "then active-filter chips and Clear filters").  An action picked after *)
(* a group hides the chip of the group, which goes on narrowing the list.     *)
FiltersHaveChips == {f \in Fields(Here) : Store.set[f] # ""} \subseteq chips
=============================================================================
