--------------------------- MODULE BrowserSession ---------------------------
(***************************************************************************)
(* What one tab believes about its session: the auth store, the query of   *)
(* GET /auth/me that feeds it, the session event stream, the login and     *)
(* logout mutations, the queries scoped to the account, and the route      *)
(* guard that turns the store into a page.  The server is a set of live    *)
(* sessions and the actions each account is granted; how the interceptor   *)
(* refreshes a session between tabs is CrossTabRefresh's subject, and is   *)
(* here one attempt after a 401.                                           *)
(***************************************************************************)
EXTENDS Naturals, Sequences, FiniteSets

CONSTANTS
    Account,        \* accounts that use this browser
    NoOne,          \* no account
    Remembered,     \* whose cookies the browser may hold at first
    Grants,         \* the sets of actions an account may hold
    MaxLogins,      \* logins in this tab
    MaxChanges,     \* changes of an account's policies
    MaxFaults,      \* failed requests, lost streams and changes of sessions
    Visited,        \* the pages that are opened by a link
    KeptKey         \* queries scoped to the caller that sign-out leaves alone

ASSUME AccountAssumption == NoOne \notin Account /\ Grants # {}
                            /\ Remembered \subseteq Account \cup {NoOne}
                            /\ "sessions" \notin KeptKey
ASSUME LimitAssumption ==
    MaxLogins \in Nat /\ MaxChanges \in Nat /\ MaxFaults \in Nat

-----------------------------------------------------------------------------
\* Pages and what it takes to open them.

Protected == {"dashboard", "users", "policies", "permissions", "rate-limits",
              "audit-log", "account-settings"}
Route     == Protected \cup {"login", "not-authorized"}

\* The permission prop of a route's ProtectedRoute: any of these, or none.
RoutePermission ==
    [r \in Protected |->
        CASE r = "users"       -> {"users:list_all"}
          [] r = "policies"    -> {"policies:read", "policies:create"}
          [] r = "permissions" -> {"permissions:read"}
          [] r = "rate-limits" -> {"rate_limits:read"}
          [] OTHER             -> {}]

Link(r, any) == [to |-> r, any |-> any]

\* The sidebar, which the command palette lists as well.
NAV_ITEMS ==
    {Link("dashboard", {}), Link("users", {"users:list_all"}),
     Link("policies", {"policies:read", "policies:create"}),
     Link("permissions", {"permissions:read"}),
     Link("rate-limits", {"rate_limits:read"}),
     Link("audit-log", {}), Link("account-settings", {})}

\* What the palette finds inside the pages.
SEARCH_ITEMS ==
    {Link("account-settings", {}), Link("dashboard", {}), Link("audit-log", {}),
     Link("audit-log", {"policies:read"}), Link("audit-log", {"security_audit:read"})}

\* What it finds on the server: permissions, users and policies.
ServerMatches ==
    {Link("permissions", {"permissions:read"}), Link("users", {"users:list_all"}),
     Link("policies", {"policies:read"})}

\* The shortcut tiles of the dashboard.
OperationsShortcuts ==
    {Link("users", {"users:list_all"}), Link("policies", {"policies:read"}),
     Link("permissions", {"permissions:read"}),
     Link("rate-limits", {"rate_limits:read"}),
     Link("audit-log", {"security_audit:read"})}

-----------------------------------------------------------------------------
\* The queries scoped to the caller that sign-out removes (sessions, own
\* policies, own audit logs) stand for one; KeptKey are the others (passkeys,
\* own permissions).
DroppedKey == {"sessions"}
Key        == DroppedKey \cup KeptKey

VARIABLES
    jar,        \* the account whose cookies the browser holds
    alive,      \* accounts whose session the server honours
    granted,    \* granted[a]: the actions that a's policies grant
    epoch,      \* epoch[a]: changes of granted[a] so far
    store,      \* useAuthStore
    fetch,      \* the request of the ["currentUser"] query
    loaded,     \* that query has data (a profile, or null after sign-out)
    login,      \* useLoginMutation, usePasskeyLoginMutation
    logout,     \* useLogoutMutation and its siblings
    own,        \* a policy change of this tab on its own account
    mark,       \* lastSelfMutationAt is within its window
    stream,     \* the EventSource: whose, and what is on its way
    cache,      \* cache[k]: whose data the query k holds
    route,      \* the page shown
    was,        \* wasEverAllowed of the mounted ProtectedRoute
    count,      \* logins, changes and faults so far
    seen,       \* the last change told of (and not skipped) since the login
    removed,    \* removed[a]: actions ever taken away from a
    mixed       \* a login was sent over another account's cookies

server == <<alive, granted, epoch, removed>>
ghosts == <<seen, mixed>>
page   == <<route, was>>
vars   == <<jar, server, store, fetch, loaded, login, logout, own, mark, stream,
            cache, page, count, ghosts>>

Actions == UNION Grants

Profile(a) == [who |-> a, perms |-> granted[a], asOf |-> epoch[a]]
NoProfile  == [who |-> NoOne, perms |-> {}, asOf |-> 0]

NoFetch == [at |-> "idle", retried |-> FALSE, status |-> "none", body |-> NoProfile]
Sent(retried) == [NoFetch EXCEPT !.at = "sent", !.retried = retried]

-----------------------------------------------------------------------------
\* The store: setProfile with setAuthenticated(true), setAuthenticated(false)
\* and dropPermissions.

Belief(auth, p) == [auth |-> auth, pending |-> FALSE,
                    who |-> p.who, perms |-> p.perms, asOf |-> p.asOf]
SignedIn(p) == Belief("in", p)
SignedOut   == Belief("out", NoProfile)
Unchecked   == Belief("unknown", NoProfile)
dropPermissions(s) == [s EXCEPT !.perms = {}, !.pending = TRUE]

\* useAuthorization().can, with "any of"; nothing asked is nothing to hold.
can(s, any)   == s.auth = "in" /\ any \cap s.perms # {}
Allowed(s, r) == s.auth = "in" /\ (RoutePermission[r] = {} \/ can(s, RoutePermission[r]))
Shows(s, l)   == l.any = {} \/ can(s, l.any)

\* The side bar and the groups of the palette, by the permissions of the moment.
Sidebar(s) == {l \in NAV_ITEMS : Shows(s, l)}
PaletteResults(s) == {l \in NAV_ITEMS \cup SEARCH_ITEMS \cup ServerMatches : Shows(s, l)}

\* Mutant of ProtectedRoute: an empty list is taken as the verdict.
ProtectedRouteImpatient(s, r, w) ==
    IF s.auth = "unknown" \/ Allowed(s, r) THEN r
    ELSE IF s.auth = "out" THEN "login"
    ELSE IF w THEN "dashboard" ELSE "not-authorized"

\* The page after a render of ProtectedRoute for r: the page itself (its
\* content, or the loader) or where Navigate leads.
ProtectedRoute(s, r, w) ==
    IF s.auth = "unknown" \/ Allowed(s, r) \/ (s.auth = "in" /\ w /\ s.pending) THEN r
    ELSE IF s.auth = "out" THEN "login"
    ELSE IF w THEN "dashboard" ELSE "not-authorized"

\* The store changes and the page renders; LoginPage sends a signed-in caller
\* to the dashboard.  React keeps the state of ProtectedRoute from one
\* protected route to the next.
Render(s, r) ==
    LET w    == was \/ (r \in Protected /\ Allowed(s, r))
        next == IF r \in Protected THEN ProtectedRoute(s, r, w)
                ELSE IF r = "login" /\ s.auth = "in" THEN "dashboard" ELSE r
    IN  /\ store' = s
        /\ route' = next
        /\ was' = (next \in Protected /\ (w \/ Allowed(s, next)))

-----------------------------------------------------------------------------
Init ==
    /\ jar \in Remembered
    /\ alive = Account \cap {jar}
    /\ granted \in {[x \in Account |-> g] : g \in Grants}
    /\ epoch = [a \in Account |-> 0]
    /\ removed = [a \in Account |-> {}]
    /\ store = Unchecked
    /\ fetch = Sent(FALSE)
    /\ loaded = FALSE
    /\ login = [at |-> "idle", who |-> NoOne, body |-> NoProfile]
    /\ logout = "idle" /\ own = "idle" /\ mark = FALSE
    /\ stream = [of |-> NoOne, queue |-> <<>>]
    /\ cache = [k \in Key |-> NoOne]
    /\ route = "users"
    /\ was = FALSE
    /\ count = [logins |-> 0, changes |-> 0, faults |-> 0]
    /\ seen = 0 /\ mixed = FALSE

\* useSessionEventsStream opens a stream when the store is signed in and closes
\* it when it is not.
Streamed(s) ==
    IF s.auth # "in" THEN [of |-> NoOne, queue |-> <<>>]
    ELSE IF store.auth = "in" THEN stream
    ELSE [of |-> jar, queue |-> <<>>]

\* Mutant of clearMyAccountSessionCaches: the queries are left to go stale.
keepCaches == cache

\* removeQueries of the keys that are dropped at sign-out.
clearMyAccountSessionCaches == [k \in Key |-> IF k \in DroppedKey THEN NoOne ELSE cache[k]]

\* What the interceptor does once a refresh has failed, and logout in any case.
EndSession(s) ==
    /\ Render(s, route)
    /\ stream' = Streamed(s)
    /\ cache' = clearMyAccountSessionCaches
    /\ loaded' = TRUE
    /\ seen' = 0

-----------------------------------------------------------------------------
\* The ["currentUser"] query.

\* Mutant of Poll: no polling while the stream is open.
PollWithoutStream ==
    /\ fetch.at = "idle" /\ stream.of = NoOne
    /\ fetch' = Sent(FALSE)
    /\ UNCHANGED <<jar, server, store, loaded, login, logout, own, mark, stream,
                   cache, page, count, ghosts>>

\* refetchInterval, in the background too, and the refetch on focus.
Poll ==
    /\ fetch.at = "idle"
    /\ fetch' = Sent(FALSE)
    /\ UNCHANGED <<jar, server, store, loaded, login, logout, own, mark, stream,
                   cache, page, count, ghosts>>

Answers(ok, p) == [fetch EXCEPT !.at = "answered", !.body = p,
                                !.status = IF ok THEN "ok" ELSE "unauthorized"]

\* GET /auth/me.
ServerAnswersMe ==
    /\ fetch.at = "sent"
    /\ fetch' = IF jar \in alive THEN Answers(TRUE, Profile(jar))
                                 ELSE Answers(FALSE, NoProfile)
    /\ UNCHANGED <<jar, server, store, loaded, login, logout, own, mark, stream,
                   cache, page, count, ghosts>>

\* A 500, a timeout or a lost connection.
MeFails ==
    /\ fetch.at \in {"sent", "answered"} /\ count.faults < MaxFaults
    /\ count' = [count EXCEPT !.faults = @ + 1]
    /\ fetch' = [fetch EXCEPT !.at = "answered", !.status = "error", !.body = NoProfile]
    /\ UNCHANGED <<jar, server, store, loaded, login, logout, own, mark, stream,
                   cache, page, ghosts>>

\* The answer arrives: useAuthSession mirrors a profile into the store and
\* takes any error for signed out; a first 401 is refreshed.
ReceiveMe ==
    /\ fetch.at = "answered"
    /\ \/ /\ fetch.status = "ok"
          /\ fetch' = NoFetch
          /\ loaded' = TRUE
          /\ Render(SignedIn(fetch.body), route)
          /\ stream' = Streamed(SignedIn(fetch.body))
          /\ seen' = IF store.who = fetch.body.who THEN seen ELSE 0
          /\ UNCHANGED cache
       \/ /\ fetch.status = "error"
          /\ fetch' = NoFetch
          /\ Render(SignedOut, route)
          /\ stream' = Streamed(SignedOut)
          /\ seen' = 0
          /\ UNCHANGED <<loaded, cache>>
       \/ /\ fetch.status = "unauthorized" /\ ~fetch.retried
          /\ fetch' = [fetch EXCEPT !.at = "renewing"]
          /\ UNCHANGED <<store, page, stream, loaded, cache, seen>>
       \/ /\ fetch.status = "unauthorized" /\ fetch.retried
          /\ fetch' = NoFetch
          /\ EndSession(SignedOut)
    /\ UNCHANGED <<jar, server, login, logout, own, mark, count, mixed>>

\* POST /auth/refresh with the cookies of the moment.
ServerRenews ==
    /\ fetch.at = "renewing"
    /\ fetch' = [fetch EXCEPT !.at = "renewed",
                              !.status = IF jar \in alive THEN "ok" ELSE "unauthorized"]
    /\ UNCHANGED <<jar, server, store, loaded, login, logout, own, mark, stream,
                   cache, page, count, ghosts>>

\* The retry, or the end of the session as far as this tab can tell.
ReceiveRenewal ==
    /\ fetch.at = "renewed"
    /\ \/ /\ fetch.status = "ok"
          /\ fetch' = Sent(TRUE)
          /\ UNCHANGED <<store, page, stream, loaded, cache, seen>>
       \/ /\ fetch.status = "unauthorized"
          /\ fetch' = NoFetch
          /\ EndSession(SignedOut)
    /\ UNCHANGED <<jar, server, login, logout, own, mark, count, mixed>>

\* invalidateQueries: a running request is replaced if the query has data,
\* and joined if it has none.
invalidateMe == IF loaded \/ fetch.at = "idle" THEN Sent(FALSE) ELSE fetch

-----------------------------------------------------------------------------
\* Login and logout.

\* The form is submitted: cancelQueries, then POST /auth/login (or the passkey
\* ceremony).  Logged in or not, the form shows until the store says so.
Login(a) ==
    /\ route = "login" /\ store.auth # "in" /\ login.at = "idle" /\ logout = "idle"
    /\ count.logins < MaxLogins
    /\ count' = [count EXCEPT !.logins = @ + 1]
    /\ login' = [login EXCEPT !.at = "posting", !.who = a]
    /\ fetch' = NoFetch
    /\ mixed' = (mixed \/ jar \notin {NoOne, a})
    /\ UNCHANGED <<jar, server, store, loaded, logout, own, mark, stream, cache,
                   page, seen>>

\* The credentials are right, the cookies arrive and GET /auth/me is sent; or
\* they are not, and the form shows an error.
ServerLogsIn ==
    /\ login.at = "posting"
    /\ \/ /\ login' = [login EXCEPT !.at = "profile"]
          /\ alive' = alive \cup {login.who}
          /\ jar' = login.who
       \/ /\ login' = [login EXCEPT !.at = "idle", !.who = NoOne]
          /\ UNCHANGED <<alive, jar>>
    /\ UNCHANGED <<granted, epoch, removed, store, fetch, loaded, logout, own, mark,
                   stream, cache, page, count, ghosts>>

ServerSendsProfile ==
    /\ login.at = "profile"
    /\ login' = IF jar \in alive
                THEN [login EXCEPT !.at = "loaded", !.body = Profile(jar)]
                ELSE [login EXCEPT !.at = "refused"]
    /\ UNCHANGED <<jar, server, store, fetch, loaded, logout, own, mark, stream,
                   cache, page, count, ghosts>>

\* onSuccess, or the interceptor's sign-out if the session is gone already.
LoginDone ==
    /\ login.at \in {"loaded", "refused"}
    /\ login' = [at |-> "idle", who |-> NoOne, body |-> NoProfile]
    /\ IF login.at = "loaded"
       THEN /\ Render(SignedIn(login.body), IF route = "login" THEN "dashboard" ELSE route)
            /\ stream' = Streamed(SignedIn(login.body))
            /\ loaded' = TRUE
            /\ seen' = 0
            /\ UNCHANGED cache
       ELSE EndSession(SignedOut)
    /\ UNCHANGED <<jar, server, fetch, logout, own, mark, count, mixed>>

\* Logout, logout-all and the two ways to delete one's own account.
Logout ==
    /\ store.auth = "in" /\ logout = "idle"
    /\ logout' = "sent"
    /\ UNCHANGED <<jar, server, store, fetch, loaded, login, own, mark, stream,
                   cache, page, count, ghosts>>

ServerLogsOut ==
    /\ logout = "sent"
    /\ \/ alive' = alive \ {jar} /\ logout' = "done" /\ UNCHANGED count
       \/ /\ count.faults < MaxFaults
          /\ count' = [count EXCEPT !.faults = @ + 1]
          /\ logout' = "failed"
          /\ UNCHANGED alive
    /\ UNCHANGED <<jar, granted, epoch, removed, store, fetch, loaded, login, own,
                   mark, stream, cache, page, ghosts>>

\* onSettled, whatever the outcome; the cookies go only with an answer.
ReceiveLogout ==
    /\ logout \in {"done", "failed"}
    /\ logout' = "idle"
    /\ jar' = IF logout = "done" THEN NoOne ELSE jar
    /\ EndSession(SignedOut)
    /\ UNCHANGED <<server, fetch, login, own, mark, count, mixed>>

-----------------------------------------------------------------------------
\* Permissions and the event stream.

\* Bound: at most one event of each kind is on its way.
Push(a, e) ==
    IF stream.of # a \/ e \in {stream.queue[i] : i \in DOMAIN stream.queue} THEN stream
    ELSE [stream EXCEPT !.queue = Append(@, e)]

ChangeGrants(a, g) ==
    /\ count.changes < MaxChanges /\ g # granted[a]
    /\ count' = [count EXCEPT !.changes = @ + 1]
    /\ granted' = [granted EXCEPT ![a] = g]
    /\ epoch' = [epoch EXCEPT ![a] = @ + 1]
    /\ removed' = [removed EXCEPT ![a] = @ \cup (granted[a] \ g)]
    /\ stream' = Push(a, "permissions_changed")

\* An administrator changes the policies of an account in use here.
PoliciesChange(a, g) ==
    /\ a \in {jar, login.who}
    /\ ChangeGrants(a, g)
    /\ UNCHANGED <<jar, alive, store, fetch, loaded, login, logout, own, mark, cache,
                   page, ghosts>>

\* This tab grants or revokes on its own account: the request, the server, and
\* the answer, whose order with the event is open.
SendOwnChange ==
    /\ store.auth = "in" /\ route \in {"users", "policies"} /\ ~store.pending
    /\ own = "idle" /\ count.changes < MaxChanges
    /\ own' = "sent"
    /\ UNCHANGED <<jar, server, store, fetch, loaded, login, logout, mark, stream,
                   cache, page, count, ghosts>>

ServerMakesOwnChange ==
    /\ own = "sent"
    /\ \/ /\ jar \in alive /\ own' = "made"
          /\ \E g \in Grants : ChangeGrants(jar, g)
       \/ own' = "refused" /\ UNCHANGED <<granted, epoch, removed, stream, count>>
    /\ UNCHANGED <<jar, alive, store, fetch, loaded, login, logout, mark, cache,
                   page, ghosts>>

\* onSuccess: invalidates ["currentUser"] and calls markSelfPermissionMutation.
ReceiveOwnChange ==
    /\ own \in {"made", "refused"}
    /\ own' = "idle"
    /\ IF own = "made" THEN mark' = TRUE /\ fetch' = invalidateMe
                       ELSE UNCHANGED <<mark, fetch>>
    /\ UNCHANGED <<jar, server, store, loaded, login, logout, stream, cache, page,
                   count, ghosts>>

\* RECENT_SELF_MUTATION_WINDOW_MS has passed.
MarkExpires ==
    /\ mark
    /\ mark' = FALSE
    /\ UNCHANGED <<jar, server, store, fetch, loaded, login, logout, own, stream,
                   cache, page, count, ghosts>>

\* Another session of the account is opened or revoked; this one may be.
SessionsChange(a) ==
    /\ count.faults < MaxFaults
    /\ count' = [count EXCEPT !.faults = @ + 1]
    /\ alive' \in {alive, alive \ {a}}
    /\ stream' = Push(a, "sessions")
    /\ UNCHANGED <<jar, granted, epoch, removed, store, fetch, loaded, login, logout,
                   own, mark, cache, page, ghosts>>

\* Mutant of resetQueries: the request that is out is left to answer.
resetIdleQueries == IF fetch.at = "idle" THEN Sent(FALSE) ELSE fetch

\* resetQueries drops the data and the running request, and starts over.
resetQueries == Sent(FALSE)

\* source.onmessage
ReceiveEvent ==
    /\ stream.queue # <<>>
    /\ IF Head(stream.queue) = "permissions_changed"
       THEN /\ Render(IF mark THEN store ELSE dropPermissions(store), route)
            /\ mark' = FALSE
            /\ seen' = IF mark \/ store.who # stream.of THEN seen ELSE epoch[stream.of]
            /\ fetch' = resetQueries
            /\ loaded' = FALSE
            /\ cache' = [k \in Key |-> NoOne]
       ELSE /\ fetch' = invalidateMe
            /\ UNCHANGED <<store, page, mark, seen, loaded, cache>>
    /\ stream' = [stream EXCEPT !.queue = Tail(@)]
    /\ UNCHANGED <<jar, server, login, logout, own, count, mixed>>

\* The connection is lost with what was on its way, and comes back by itself.
StreamDrops ==
    /\ stream.of # NoOne /\ count.faults < MaxFaults
    /\ count' = [count EXCEPT !.faults = @ + 1]
    /\ stream' = [of |-> NoOne, queue |-> <<>>]
    /\ UNCHANGED <<jar, server, store, fetch, loaded, login, logout, own, mark,
                   cache, page, ghosts>>

StreamReturns ==
    /\ store.auth = "in" /\ stream.of = NoOne /\ jar \in alive
    /\ stream' = [of |-> jar, queue |-> <<>>]
    /\ UNCHANGED <<jar, server, store, fetch, loaded, login, logout, own, mark,
                   cache, page, count, ghosts>>

-----------------------------------------------------------------------------
\* Pages.

\* The links on screen: the sidebar and the palette are on every page, the
\* tiles on the dashboard.
Offered ==
    Sidebar(store) \cup PaletteResults(store)
        \cup {l \in OperationsShortcuts : route = "dashboard" /\ Shows(store, l)}

\* One of them is followed.
Navigate(l) ==
    /\ store.auth = "in" /\ l.to # route /\ l.to \in Visited
    /\ Render(store, l.to)
    /\ UNCHANGED <<jar, server, fetch, loaded, login, logout, own, mark, stream,
                   cache, count, ghosts>>

\* A page shows a query of the caller's: it is loaded, or loaded again when it
\* is stale.  A page call that finds the session gone ends it here, too.
LoadQuery(k) ==
    /\ store.auth = "in" /\ route \in {"dashboard", "account-settings"}
    /\ IF jar \in alive
       THEN /\ cache' = [cache EXCEPT ![k] = jar]
            /\ UNCHANGED <<store, page, stream, loaded, seen>>
       ELSE EndSession(SignedOut)
    /\ UNCHANGED <<jar, server, fetch, login, logout, own, mark, count, mixed>>

-----------------------------------------------------------------------------
\* What runs on by itself once it has begun.
Network ==
    \/ ServerAnswersMe \/ ReceiveMe \/ ServerRenews \/ ReceiveRenewal
    \/ ServerLogsIn \/ ServerSendsProfile \/ LoginDone
    \/ ServerLogsOut \/ ReceiveLogout
    \/ ServerMakesOwnChange \/ ReceiveOwnChange

Next ==
    \/ Network \/ Poll \/ MeFails
    \/ ReceiveEvent \/ StreamDrops \/ StreamReturns \/ MarkExpires
    \/ Logout \/ SendOwnChange
    \/ \E a \in Account :
          \/ Login(a) \/ SessionsChange(a)
          \/ \E g \in Grants : PoliciesChange(a, g)
    \/ \E l \in Offered : Navigate(l)
    \/ \E k \in Key : LoadQuery(k)

Spec == Init /\ [][Next]_vars

\* The server answers, scripts run, and the poll comes round every two minutes,
\* also in a tab in the background.  Nothing else has to happen: no event has
\* to arrive and no user has to act.
FairSpec == Spec /\ WF_vars(Poll) /\ WF_vars(ServerAnswersMe \/ ServerRenews)
                 /\ WF_vars(ReceiveMe \/ ReceiveRenewal)

-----------------------------------------------------------------------------
Profiles == [who: Account \cup {NoOne}, perms: SUBSET Actions, asOf: 0..MaxChanges]

\* Types.
TypeOK ==
    /\ jar \in Account \cup {NoOne} /\ alive \subseteq Account
    /\ granted \in [Account -> Grants] /\ epoch \in [Account -> 0..MaxChanges]
    /\ removed \in [Account -> SUBSET Actions]
    /\ store.auth \in {"unknown", "in", "out"} /\ store.pending \in BOOLEAN
    /\ store.auth = "in" <=> store.who # NoOne
    /\ fetch.at \in {"idle", "sent", "answered", "renewing", "renewed"}
    /\ fetch.body \in Profiles /\ login.body \in Profiles
    /\ logout \in {"idle", "sent", "done", "failed"}
    /\ own \in {"idle", "sent", "made", "refused"}
    /\ stream.of \in Account \cup {NoOne} /\ Len(stream.queue) <= 2
    /\ cache \in [Key -> Account \cup {NoOne}]
    /\ route \in Route /\ was \in BOOLEAN /\ was => route \in Protected

\* Once the stream has told of a change of the caller's permissions, the store
\* holds none that were read before that change, whatever poll was out at the
\* time: dropPermissions and resetQueries fail closed.  Only the profile of a
\* login is applied unseen, so the claim begins again with a login.
FailsClosed ==
    store.auth = "in" /\ store.perms # {} => store.asOf >= seen

\* An open page is left for the dashboard only if one of the actions that open
\* it was really taken away; an unrelated change, an error or a slow answer
\* does not bounce the caller.  (The profile of a login
\* and that of a poll may overtake each other, and the older one win.)
NoFalseBounce ==
    [][ (/\ store.auth = "in" /\ store'.auth = "in" /\ store # store'
         /\ store.who = store'.who /\ store.asOf <= store'.asOf
         /\ route \in Protected /\ was /\ route' # route)
        => RoutePermission[route] \cap removed[store.who] # {} ]_vars

\* As long as no login is sent over another account's cookies, the queries that
\* sign-out removes never show one account the data of another.
CachesMatchAccount ==
    store.auth = "in" /\ ~mixed => \A k \in DroppedKey : cache[k] \in {NoOne, store.who}

\* What the server would say of the store.
Accurate == store.who = jar /\ jar \in alive /\ store.perms = granted[jar]

\* A tab that shows permissions it does not hold, or a session that is over,
\* finds out: the poll makes up for events that were lost or swallowed.
StoreCatchesUp ==
    (store.auth = "in" /\ ~Accurate) ~> (store.auth # "in" \/ Accurate)

\* What clearMyAccountSessionCaches says of every query scoped to the caller: a
\* stale one never shows for whoever uses this browser next.
NextAccountSeesNothingOld ==
    store.auth = "in" => \A k \in Key : cache[k] \in {NoOne, store.who}

\* What authStore says of sign-out: nothing of a session outlives it.  A tab
\* that has signed out shows the account again only after a login.
SignedOutStaysOut ==
    [][ (store.auth = "out" /\ store'.auth = "in") => jar # NoOne ]_vars

\* What authStore says of authenticatedAt: a 401 from before the login does not
\* end the session that the login established.
OldRefusalIsIgnored ==
    [][ (store.auth = "in" /\ store'.auth = "out" /\ logout = "idle")
        => (~(jar \in alive) \/ count.faults > 0) ]_vars
=============================================================================
