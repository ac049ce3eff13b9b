----------------------------- MODULE RateLimits -----------------------------
(***************************************************************************)
(* The rate limits page: a list of live counters, polled, filtered by      *)
(* endpoint, identifier, scope and kind, of which one counter at a time    *)
(* can be reset after a confirmation.  A click is handled with the values  *)
(* of the last render, which may be one step behind; a ref is not.         *)
(***************************************************************************)
EXTENDS Naturals, FiniteSets, FiniteSetsExt

CONSTANTS
    Counters,   \* the counters, numbered: [endpoint, identifier, scope, full]
    PageSize,   \* PAGE_SIZE
    MayReset,   \* the caller holds rate_limits:reset
    MaxSteps    \* filter edits, expiries and faults

Endpoints == {Counters[k].endpoint : k \in DOMAIN Counters} \cup {"login_lock"}

VARIABLES
    limits,     \* the store: endpoint, identifier, scope, kind and sort order
    searched,   \* debouncedIdentifier
    counters,   \* the server's live counters
    shown,      \* the list and the page that the query observes
    polled,     \* its last answer, {} while the first one is awaited
    failed,     \* its last request failed
    resetting,  \* resettingEntry, {} or one key
    submitGuard, \* resetSubmitGuard.current
    rendered,   \* resetMutation.isPending and resettingEntry as last rendered
    resets,     \* the DELETE requests under way: [key, heard]
    took        \* steps so far

limitVars == <<limits, searched, counters, shown, polled, failed, resetting, submitGuard, rendered, resets, took>>

Spend == took < MaxSteps /\ took' = took + 1
NoFilters == [endpoint |-> "", identifier |-> "", scope |-> "", kind |-> "all"]
Cleared   == [f \in DOMAIN limits |-> IF f \in DOMAIN NoFilters THEN NoFilters[f] ELSE limits[f]]
Filters   == [limits EXCEPT !.identifier = searched]

-----------------------------------------------------------------------------
\* The list (GET /rate-limits): the counters that match, in a fixed order.

Match(f, k) ==
    LET c == Counters[k]
    IN  /\ f.endpoint \in {"", c.endpoint} /\ f.identifier \in {"", c.identifier}
        /\ f.scope \in {"", c.scope}
        /\ f.kind = "at_limit" => c.full
        /\ f.kind = "login_lockouts" => c.endpoint = "login_lock"

listRateLimits(v) ==
    LET hits    == {k \in counters : Match(v.filters, k)}
        before(k) == {j \in hits : IF v.filters.sort = "asc" THEN j < k ELSE j > k}
    IN  [rows  |-> {k \in hits : Cardinality(before(k)) \div PageSize = v.page - 1},
         total |-> Cardinality(hits)]

Answer  == CHOOSE a \in polled : TRUE
entries == IF polled = {} THEN {} ELSE Answer.rows
TableShown == polled # {} /\ ~failed
PaginationShown == TableShown /\ entries # {}
totalPagesFor(total) == Max({1, (total + PageSize - 1) \div PageSize})

useRateLimitsQuery(v) == shown' = v /\ polled' = {} /\ failed' = FALSE

\* usePageResetOn: the key leaves out the sort order, so sorting keeps the page.
ShowList ==
    LET new == Filters'
        same == [new EXCEPT !.sort = ""] = [shown.filters EXCEPT !.sort = ""]
    IN  IF new = shown.filters THEN UNCHANGED <<shown, polled, failed>>
        ELSE useRateLimitsQuery([filters |-> new, page |-> IF same THEN shown.page ELSE 1])

isPending == resets # {}

\* A render: what the next click's handler will see.  An effect clears the
\* guard when the entry of the dialog has changed.
Render ==
    /\ rendered # [pending |-> isPending, entry |-> resetting]
    /\ rendered' = [pending |-> isPending, entry |-> resetting]
    /\ submitGuard' = IF rendered.entry # resetting THEN FALSE ELSE submitGuard
    /\ UNCHANGED <<limits, searched, counters, shown, polled, failed, resetting, resets, took>>
Current == rendered = [pending |-> isPending, entry |-> resetting]

Init ==
    /\ limits = [endpoint |-> "", identifier |-> "", scope |-> "", kind |-> "all", sort |-> "asc"]
    /\ searched = "" /\ counters = DOMAIN Counters
    /\ shown = [filters |-> limits, page |-> 1] /\ polled = {} /\ failed = FALSE
    /\ resetting = {} /\ submitGuard = FALSE
    /\ rendered = [pending |-> FALSE, entry |-> {}]
    /\ resets = {} /\ took = 0

-----------------------------------------------------------------------------
\* Filters.

Update(next) ==
    /\ resetting = {} /\ Current /\ next # limits /\ Spend
    /\ limits' = next
    /\ UNCHANGED <<searched, counters, resetting, submitGuard, rendered, resets>> /\ ShowList

\* The lockout view and the lockout endpoint go together.
WithEndpoint(f, e) ==
    [f EXCEPT !.endpoint = e,
              !.kind = IF e = "login_lock" THEN "login_lockouts"
                       ELSE IF @ = "login_lockouts" THEN "all" ELSE @]

RateLimitsFilterBar ==
    \/ \E e \in Endpoints \cup {""} : Update(WithEndpoint(limits, e))
    \/ \E s \in {"ip", "account", "account_ip"} :
        Update([limits EXCEPT !.scope = IF @ = s THEN "" ELSE s])
    \/ \E i \in {Counters[k].identifier : k \in DOMAIN Counters} \cup {""} :
        Update([limits EXCEPT !.identifier = i])
    \/ Update([WithEndpoint(limits, "") EXCEPT !.scope = "", !.identifier = ""])

toggleSort == Update([limits EXCEPT !.sort = IF @ = "asc" THEN "desc" ELSE "asc"])

\* The identifier has not changed for 300 ms.
useDebouncedValue ==
    /\ searched # limits.identifier /\ searched' = limits.identifier
    /\ UNCHANGED <<limits, counters, resetting, submitGuard, rendered, resets, took>> /\ ShowList

\* The tiles: all counters, those at their limit, the lockouts; each toggles.
RateLimitsStatsCard ==
    \/ Update(Cleared)
    \/ Update([Cleared EXCEPT !.kind = IF limits.kind = "at_limit" THEN "all" ELSE "at_limit"])
    \/ Update(IF limits.kind = "login_lockouts" THEN Cleared
              ELSE [Cleared EXCEPT !.kind = "login_lockouts", !.endpoint = "login_lock"])

Pagination == PaginationShown /\ resetting = {} /\ \E p \in 1 .. totalPagesFor(Answer.total) :
    /\ p # shown.page
    /\ useRateLimitsQuery([shown EXCEPT !.page = p])
    /\ UNCHANGED <<limits, searched, counters, resetting, submitGuard, rendered, resets, took>>

-----------------------------------------------------------------------------
\* Resetting a counter.

\* A row's button; it is disabled while that row's reset runs.
requestReset(k) ==
    /\ MayReset /\ k \in entries /\ TableShown /\ resetting = {} /\ Current
    /\ k \notin {r.key : r \in resets}
    /\ resetting' = {k}
    /\ UNCHANGED <<limits, searched, counters, shown, polled, failed, submitGuard, rendered, resets, took>>

onCancel ==
    /\ resetting # {} /\ resetting' = {}
    /\ UNCHANGED <<limits, searched, counters, shown, polled, failed, submitGuard, rendered, resets, took>>

\* Mutant of MaySubmit: only what was rendered is asked.
MaySubmitRendered == ~rendered.pending

\* The handler's own early return.
MaySubmit == ~submitGuard /\ ~rendered.pending

\* A click in the dialog that is on the screen.  A newer mutation of the same
\* hook takes the callbacks of the older one.
handleConfirmReset ==
    /\ rendered.entry # {} /\ MaySubmit
    /\ submitGuard' = TRUE
    /\ resets' = {[r EXCEPT !.heard = FALSE] : r \in resets}
                    \cup {[key |-> k, heard |-> TRUE] : k \in rendered.entry}
    /\ UNCHANGED <<limits, searched, counters, shown, polled, failed, resetting, rendered, took>>

\* The counter is gone for the next list, whether or not the answer arrives.
ResetServed(r) ==
    /\ r.key \in counters
    /\ counters' = counters \ {r.key}
    /\ UNCHANGED <<limits, searched, shown, polled, failed, resetting, submitGuard, rendered, resets, took>>

\* The answer: both outcomes close the dialog.  The list and the summary that a
\* success has fetched again arrive like those of a poll.
ResetAnswered(r, ok) ==
    /\ ok => r.key \notin counters
    /\ resets' = resets \ {r}
    /\ resetting' = IF r.heard THEN {} ELSE resetting
    /\ UNCHANGED <<limits, searched, counters, shown, polled, failed, submitGuard, rendered, took>>

-----------------------------------------------------------------------------
\* The network, and time.

\* An answer to the poll of every five seconds, or to any other request for the
\* page.  The server reads its counters at most a moment earlier.
Receive ==
    /\ polled' = {listRateLimits(shown)} /\ failed' = FALSE
    /\ <<polled, failed>>' # <<polled, failed>>
    /\ UNCHANGED <<limits, searched, counters, shown, resetting, submitGuard, rendered, resets, took>>

Fail ==
    /\ ~failed /\ Spend /\ failed' = TRUE
    /\ UNCHANGED <<limits, searched, counters, shown, polled, resetting, submitGuard, rendered, resets>>

\* A window closes on its own.
Expire == \E k \in counters :
    /\ Spend /\ counters' = counters \ {k}
    /\ UNCHANGED <<limits, searched, shown, polled, failed, resetting, submitGuard, rendered, resets>>

Next ==
    \/ Render \/ RateLimitsFilterBar \/ toggleSort \/ useDebouncedValue \/ RateLimitsStatsCard \/ Pagination
    \/ (\E k \in entries : requestReset(k)) \/ onCancel \/ handleConfirmReset
    \/ \E r \in resets : ResetServed(r) \/ \E ok \in BOOLEAN : ResetAnswered(r, ok)
    \/ Receive \/ Fail \/ Expire

Spec == Init /\ [][Next]_limitVars

-----------------------------------------------------------------------------
(* Types.                                                                    *)
TypeOK ==
    /\ limits.endpoint \in Endpoints \cup {""} /\ limits.kind \in {"all", "at_limit", "login_lockouts"}
    /\ shown.filters = Filters
    /\ Cardinality(polled) <= 1 /\ failed \in BOOLEAN
    /\ Cardinality(resetting) <= 1 /\ rendered.pending \in BOOLEAN
    /\ (limits.kind = "login_lockouts") = (limits.endpoint = "login_lock")

(* However fast the clicks are, one confirmation sends one DELETE and no     *)
(* second one starts before the first is answered (RateLimitsPage, 57-67 and *)
(* 88-101: the guard covers the gap before isPending is rendered).           *)
OneResetAtATime == Cardinality(resets) <= 1

(* A dialog closes when its own entry was reset or the caller cancels: the   *)
(* answer to another entry's reset leaves it open.  It does not.             *)
DialogClosesForItself ==
    [][\A r \in resets : r \notin resets' /\ resetting # {} /\ resetting' = {} => resetting = {r.key}]_limitVars

(* Whoever sees an empty page has nothing to list, or can turn back.  It is  *)
(* not so once the last entry of the last page is gone.                      *)
NotStranded ==
    TableShown /\ entries = {} => Answer.total = 0
=============================================================================
