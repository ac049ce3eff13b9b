--------------------------- MODULE CrossTabRefresh ---------------------------
(***************************************************************************)
(* The silent refresh of the browser client: the 401 interceptor, the      *)
(* refresh that tabs share (Web Locks, or a lease in localStorage), and    *)
(* the guard around a request that rotates the cookies itself.  Every      *)
(* request of a tab is a stack of frames, one per nested run of the        *)
(* interceptor: a retry is a new request made from inside the handler of   *)
(* the old one.  The server is reduced to the pair of cookies it accepts.  *)
(***************************************************************************)
EXTENDS Naturals, Sequences, FiniteSets, FiniteSetsExt

CONSTANTS
    Tabs,           \* open tabs of one browser profile
    FirstTabs,      \* the sets of tabs a behaviour may start with
    ChangeAlone,    \* bound: the password form is only used in a lone tab,
                    \* before anything goes wrong
    MaxPairs,       \* token pairs the server may issue
    MaxFaults,      \* tab crashes, lost answers and late heartbeats
    NoTab           \* owner of a free lock or lease

ASSUME TabAssumption   == NoTab \notin Tabs /\ FirstTabs \subseteq SUBSET Tabs
ASSUME BoundAssumption == MaxPairs \in Nat \ {0} /\ MaxFaults \in Nat
ASSUME FlagAssumption  == ChangeAlone \in BOOLEAN

\* What a tab may have in flight: an ordinary API call, the password change
\* (PUT /users/me), and the refresh that the first two wait for.
Kind == {"call", "change", "refresh"}

VARIABLES
    locks,      \* navigator.locks exists in this browser
    jar,        \* the pair of cookies the browser holds, shared by the tabs
    newest,     \* the last pair the server issued
    minPair,    \* pairs below it carry an outdated account version
    stale,      \* access tokens of the pairs up to it have expired
    alive,      \* the login has not been revoked
    req,        \* req[t][k]: the stack of frames of a request
    phase,      \* phase[t]: where runCrossTabRefresh is
    before,     \* before[t]: rotationBefore, the epoch read when it started
    holder,     \* the tab that holds the Web Lock
    lease,      \* the lease in localStorage: its owner, and whether it runs
    result,     \* ROTATION_RESULT_KEY: epoch and success
    pending,    \* pendingRotation # null, per tab
    recent,     \* wasSessionRecentlyRotated, per tab
    signedIn,   \* useAuthStore.isAuthenticated = true, per tab
    open,       \* tabs that have not crashed
    faults,
    replayed,   \* the server saw a pair that a refresh had used up already
    refused,    \* refused[t]: a retry was answered with an error other than 401
    changed     \* tabs whose password change the server carried out

server  == <<newest, minPair, stale, alive, replayed, changed>>
storage == <<holder, lease, result>>
guard   == <<pending, recent>>
vars    == <<locks, jar, server, req, phase, before, storage, guard,
             signedIn, open, faults, refused>>

Phase  == {"none", "queued", "read", "waiting", "claim", "verify", "running"}
At     == {"sent", "answered", "refreshing", "refreshed", "failed",
           "retrying", "rotating", "rotated", "again"}
Status == {"none", "ok", "unauthorized", "error"}

Frame == [refresh: BOOLEAN, rotation: BOOLEAN, at: At, pair: 0..MaxPairs,
          status: Status, cookies: 0..MaxPairs]

\* A request leaves with the cookies of the moment.  refresh and rotation are
\* the flags _retriedAfterRefresh and _retriedAfterRotation of its config.
Send(refresh, rotation, cookies) ==
    [refresh |-> refresh, rotation |-> rotation, at |-> "sent",
     pair |-> cookies, status |-> "none", cookies |-> 0]

Top(s)     == s[Len(s)]
Below(s)   == SubSeq(s, 1, Len(s) - 1)

\* Stack s after its top frame has become f, and after f has sent g besides.
WithTop(s, f)    == Below(s) \o <<f>>
Sending(s, f, g) == Below(s) \o <<f, g>>

Idle(t, k)     == req[t][k] = <<>>
Becomes(t, k, s) == req' = [req EXCEPT ![t][k] = s]

\* The server accepts the access token, or the refresh token, of pair p.
AccessOk(p)  == alive /\ p >= minPair /\ p > stale
RefreshOk(p) == alive /\ p >= minPair /\ p = newest

Init ==
    /\ locks \in BOOLEAN
    /\ jar = 1 /\ newest = 1 /\ minPair = 1 /\ stale = 0 /\ alive = TRUE
    /\ req = [t \in Tabs |-> [k \in Kind |-> <<>>]]
    /\ phase = [t \in Tabs |-> "none"]
    /\ before = [t \in Tabs |-> 0]
    /\ holder = NoTab
    /\ lease = [owner |-> NoTab, live |-> FALSE]
    /\ result = [epoch |-> 0, success |-> FALSE]
    /\ pending = [t \in Tabs |-> FALSE]
    /\ recent = [t \in Tabs |-> FALSE]
    /\ signedIn = [t \in Tabs |-> TRUE]
    /\ open \in FirstTabs
    /\ faults = 0
    /\ replayed = FALSE
    /\ refused = [t \in Tabs |-> FALSE]
    /\ changed = {}

-----------------------------------------------------------------------------
\* The interceptor.

\* AUTH_ENDPOINTS_EXCLUDED_FROM_REFRESH
isEligibleForRefresh(k) == k # "refresh"

\* Mutant of RotationMayExplain: no grace window after the rotation.
RotationMustBePending(t) == pending[t]

\* getPendingSessionRotation() || wasSessionRecentlyRotated()
RotationMayExplain(t) == pending[t] \/ recent[t]

\* A frame that still has its one retry after a rotation.
MayWaitForRotation(t, f) == ~f.rotation /\ RotationMayExplain(t)

\* The frame enters the rotation branch: it awaits the rotating request, or,
\* when that has just settled, sends the same request again at once.
TakeRotationBranch(t, s) ==
    LET f == [Top(s) EXCEPT !.rotation = TRUE,
                            !.at = IF pending[t] THEN "rotating" ELSE "again"]
    IN  IF pending[t] THEN WithTop(s, f)
        ELSE Sending(s, f, Send(f.refresh, TRUE, jar))

\* The frames under the top that catch its rejection and try once more.
Catchers(t, s) ==
    {i \in 1..Len(s) - 1 : s[i].at = "retrying" /\ MayWaitForRotation(t, s[i])}

\* The stack after the top frame rejects: the rejection climbs through the
\* catch blocks until one of them tries again.
Unwound(t, s) ==
    IF Catchers(t, s) = {} THEN <<>>
    ELSE TakeRotationBranch(t, SubSeq(s, 1, Max(Catchers(t, s))))

\* Every catch block it climbs through without trying again signs the tab out.
SignsOut(t, s, topToo) ==
    topToo \/ Len(s) > 1 + (IF Catchers(t, s) = {} THEN 0 ELSE Max(Catchers(t, s)))

\* Mutant of Wake: only a refresh that succeeds tells those who await it.
WakeOnSuccess(t, k, ok) ==
    [j \in Kind |->
        IF j = k THEN <<>>
        ELSE IF k = "refresh" /\ ok /\ ~Idle(t, j) /\ Top(req[t][j]).at = "refreshing"
        THEN WithTop(req[t][j], [Top(req[t][j]) EXCEPT !.at = "refreshed"])
        ELSE req[t][j]]

\* The refresh (k = "refresh") or the password change of a tab has settled:
\* whoever awaits that promise goes on.
Wake(t, k, ok) ==
    LET awaited == IF k = "refresh" THEN "refreshing" ELSE "rotating"
        then    == IF k # "refresh" THEN "rotated"
                   ELSE IF ok THEN "refreshed" ELSE "failed"
    IN  [j \in Kind |->
            IF j = k THEN <<>>
            ELSE IF k # "call" /\ ~Idle(t, j) /\ Top(req[t][j]).at = awaited
            THEN WithTop(req[t][j], [Top(req[t][j]) EXCEPT !.at = then])
            ELSE req[t][j]]

\* The end of runCrossTabRefresh: refreshInFlight = null, the lock or lease is
\* let go (the lease only by its owner), and the result is published.
releaseLease(t) ==
    IF lease.owner = t THEN [owner |-> NoTab, live |-> FALSE] ELSE lease

publishRotationResult(success) ==
    [epoch |-> result.epoch + 1, success |-> success]

SettleRefresh(t, published) ==
    /\ phase' = [phase EXCEPT ![t] = "none"]
    /\ before' = [before EXCEPT ![t] = 0]
    /\ holder' = IF holder = t THEN NoTab ELSE holder
    /\ lease' = releaseLease(t)
    /\ result' = published

\* trackSessionRotatingRequest(...).finally
SettleChange(t) ==
    /\ pending' = [pending EXCEPT ![t] = FALSE]
    /\ recent' = [recent EXCEPT ![t] = TRUE]

\* The request of kind k has the stack s after this step; if it is empty, the
\* promise has settled and so has whatever awaits it.
Settle(t, k, s, ok) ==
    /\ IF s = <<>> THEN req' = [req EXCEPT ![t] = Wake(t, k, ok)]
                   ELSE Becomes(t, k, s)
    /\ IF s = <<>> /\ k = "refresh"
       THEN SettleRefresh(t, publishRotationResult(ok))
       ELSE UNCHANGED <<phase, before, storage>>
    /\ IF s = <<>> /\ k = "change" THEN SettleChange(t) ELSE UNCHANGED guard

\* Sign-out: setAuthenticated(false) and the caches of the account.
SignOut(t, out) ==
    signedIn' = IF out THEN [signedIn EXCEPT ![t] = FALSE] ELSE signedIn

-----------------------------------------------------------------------------
\* Requests.

\* A page or the password form of a signed-in tab sends its request.
Issue(t, k) ==
    /\ t \in open /\ signedIn[t] /\ k # "refresh" /\ Idle(t, k)
    /\ k = "change" /\ ChangeAlone => open = {t} /\ faults = 0
    /\ Becomes(t, k, <<Send(FALSE, FALSE, jar)>>)
    /\ pending' = IF k = "change" THEN [pending EXCEPT ![t] = TRUE] ELSE pending
    /\ UNCHANGED <<locks, jar, server, phase, before, storage, recent, signedIn,
                   open, faults, refused>>

Answer(t, k, status, cookies) ==
    Becomes(t, k, WithTop(req[t][k], [Top(req[t][k]) EXCEPT
        !.at = "answered", !.status = status, !.cookies = cookies]))

Sent(t, k) == t \in open /\ ~Idle(t, k) /\ Top(req[t][k]).at = "sent"

\* An API call, or a password change that is turned down: 401 without a valid
\* access token, otherwise an answer, which settles the call wherever it is
\* nested, or any other error.
ServerAnswersCall(t, k) ==
    /\ Sent(t, k) /\ k # "refresh"
    /\ IF AccessOk(Top(req[t][k]).pair)
       THEN \/ k = "call" /\ Becomes(t, k, <<>>)
            \/ Answer(t, k, "error", 0)
       ELSE Answer(t, k, "unauthorized", 0)
    /\ UNCHANGED <<locks, jar, server, phase, before, storage, guard, signedIn,
                   open, faults, refused>>

\* The password change outdates every older pair and answers with a new one.
\* Bound: the password is changed once.
ServerChangesPassword(t) ==
    /\ Sent(t, "change") /\ AccessOk(Top(req[t]["change"]).pair)
    /\ newest < MaxPairs /\ changed = {}
    /\ newest' = newest + 1
    /\ minPair' = newest + 1
    /\ Answer(t, "change", "ok", newest + 1)
    /\ changed' = {t}
    /\ UNCHANGED <<locks, jar, stale, alive, replayed, phase, before, storage,
                   guard, signedIn, open, faults, refused>>

\* POST /auth/refresh: a pair is used once.
ServerRefreshes(t) ==
    /\ Sent(t, "refresh")
    /\ LET p == Top(req[t]["refresh"]).pair IN
       IF RefreshOk(p)
       THEN /\ newest < MaxPairs
            /\ newest' = newest + 1
            /\ Answer(t, "refresh", "ok", newest + 1)
            /\ UNCHANGED replayed
       ELSE /\ Answer(t, "refresh", "unauthorized", 0)
            /\ replayed' = (replayed \/ (alive /\ p >= minPair /\ p < newest))
            /\ UNCHANGED newest
    /\ UNCHANGED <<locks, jar, minPair, stale, alive, changed, phase, before, storage,
                   guard, signedIn, open, faults, refused>>

\* The answer arrives and the browser stores its cookies.  A 401 that may be
\* refreshed waits for the tab's refresh, starting one if there is none; a
\* 401 that a rotation may explain waits for it; every other error climbs up.
Receive(t, k) ==
    /\ t \in open /\ ~Idle(t, k) /\ Top(req[t][k]).at = "answered"
    /\ jar' = IF Top(req[t][k]).cookies = 0 THEN jar ELSE Top(req[t][k]).cookies
    /\ LET s == req[t][k]
           f == Top(s)
           denied == f.status = "unauthorized"
           starts == denied /\ isEligibleForRefresh(k) /\ ~f.refresh
           waits  == denied /\ ~starts /\ MayWaitForRotation(t, f)
       IN  /\ refused' = IF f.refresh /\ f.status = "error"
                         THEN [refused EXCEPT ![t] = TRUE] ELSE refused
           /\ IF starts
              THEN /\ Becomes(t, k, WithTop(s, [f EXCEPT !.at = "refreshing"]))
                   /\ IF phase[t] # "none" THEN UNCHANGED <<phase, before>>
                      ELSE /\ phase' = [phase EXCEPT ![t] =
                                          IF locks THEN "queued" ELSE "read"]
                           /\ before' = [before EXCEPT ![t] = result.epoch]
                   /\ UNCHANGED <<storage, guard, signedIn>>
              ELSE IF waits
              THEN /\ Becomes(t, k, TakeRotationBranch(t, s))
                   /\ UNCHANGED <<phase, before, storage, guard, signedIn>>
              ELSE IF f.status = "ok"
              THEN Settle(t, k, <<>>, TRUE) /\ UNCHANGED signedIn
              ELSE /\ Settle(t, k, Unwound(t, s), FALSE)
                   /\ SignOut(t, SignsOut(t, s, denied))
    /\ UNCHANGED <<locks, server, open, faults>>

\* refreshAndRetry after a refresh that succeeded: the one retry.
RetryAfterRefresh(t, k) ==
    /\ t \in open /\ ~Idle(t, k) /\ Top(req[t][k]).at = "refreshed"
    /\ LET f == Top(req[t][k]) IN
       Becomes(t, k, Sending(req[t][k], [f EXCEPT !.at = "retrying", !.refresh = TRUE],
                             Send(TRUE, f.rotation, jar)))
    /\ UNCHANGED <<locks, jar, server, phase, before, storage, guard, signedIn,
                   open, faults, refused>>

\* The catch block after a refresh that failed.
RefreshFailed(t, k) ==
    /\ t \in open /\ ~Idle(t, k) /\ Top(req[t][k]).at = "failed"
    /\ LET s == req[t][k] IN
       IF MayWaitForRotation(t, Top(s))
       THEN /\ Becomes(t, k, TakeRotationBranch(t, s))
            /\ UNCHANGED <<phase, before, storage, guard, signedIn>>
       ELSE /\ Settle(t, k, Unwound(t, s), FALSE)
            /\ SignOut(t, TRUE)
    /\ UNCHANGED <<locks, jar, server, open, faults, refused>>

\* The awaited rotation has settled: the same request once more.
RetryAfterRotation(t, k) ==
    /\ t \in open /\ ~Idle(t, k) /\ Top(req[t][k]).at = "rotated"
    /\ LET f == Top(req[t][k]) IN
       Becomes(t, k, Sending(req[t][k], [f EXCEPT !.at = "again"],
                             Send(f.refresh, TRUE, jar)))
    /\ UNCHANGED <<locks, jar, server, phase, before, storage, guard, signedIn,
                   open, faults, refused>>

-----------------------------------------------------------------------------
\* runCrossTabRefresh.

\* Another tab has rotated since this tab started waiting, successfully.
rotationCompletedAfter(t) == result.epoch # before[t] /\ result.success

StartRequest(t) ==
    /\ phase' = [phase EXCEPT ![t] = "running"]
    /\ Becomes(t, "refresh", <<Send(FALSE, FALSE, jar)>>)

\* The refresh ends as a success without a request of its own.
alreadyRotatedResponse(t) ==
    /\ SettleRefresh(t, result)
    /\ req' = [req EXCEPT ![t] = Wake(t, "refresh", TRUE)]

\* Mutant of LockGranted: the refresh does not wait for its turn.
LockIgnored(t) ==
    /\ t \in open /\ phase[t] = "queued"
    /\ IF rotationCompletedAfter(t)
       THEN alreadyRotatedResponse(t)
       ELSE StartRequest(t) /\ UNCHANGED <<before, storage>>
    /\ UNCHANGED <<locks, jar, server, guard, signedIn, open, faults, refused>>

\* The browser grants the Web Lock.
LockGranted(t) ==
    /\ t \in open /\ phase[t] = "queued" /\ holder = NoTab
    /\ IF rotationCompletedAfter(t)
       THEN alreadyRotatedResponse(t)
       ELSE /\ holder' = t
            /\ StartRequest(t)
            /\ UNCHANGED <<before, lease, result>>
    /\ UNCHANGED <<locks, jar, server, guard, signedIn, open, faults, refused>>

\* Reads the lease: waits while another tab's lease runs.
readLease(t) ==
    /\ t \in open /\ phase[t] = "read"
    /\ phase' = [phase EXCEPT ![t] =
         IF lease.owner \notin {NoTab, t} /\ lease.live THEN "waiting" ELSE "claim"]
    /\ UNCHANGED <<locks, jar, server, req, before, storage, guard, signedIn,
                   open, faults, refused>>

\* waitForAnotherTab resolves: a broadcast, a storage event or the timer.
waitForAnotherTab(t) ==
    /\ t \in open /\ phase[t] = "waiting"
    /\ lease.owner = NoTab \/ ~lease.live \/ rotationCompletedAfter(t)
    /\ IF rotationCompletedAfter(t)
       THEN alreadyRotatedResponse(t)
       ELSE /\ phase' = [phase EXCEPT ![t] = "read"]
            /\ UNCHANGED <<req, before, storage>>
    /\ UNCHANGED <<locks, jar, server, guard, signedIn, open, faults, refused>>

\* writeLease: setItem, and then getItem to verify it.  localStorage takes no
\* lock, so a tab in another process may write in between.
writeLease(t) ==
    /\ t \in open /\ phase[t] = "claim"
    /\ lease' = [owner |-> t, live |-> TRUE]
    /\ phase' = [phase EXCEPT ![t] = "verify"]
    /\ UNCHANGED <<locks, jar, server, req, before, holder, result, guard,
                   signedIn, open, faults, refused>>

verifyLease(t) ==
    /\ t \in open /\ phase[t] = "verify"
    /\ IF lease.owner # t
       THEN /\ phase' = [phase EXCEPT ![t] = "read"]
            /\ UNCHANGED <<req, before, storage>>
       ELSE IF rotationCompletedAfter(t)
       THEN alreadyRotatedResponse(t)
       ELSE StartRequest(t) /\ UNCHANGED <<before, storage>>
    /\ UNCHANGED <<locks, jar, server, guard, signedIn, open, faults, refused>>

\* The heartbeat renews the lease of a running refresh.
Heartbeat(t) ==
    /\ t \in open /\ phase[t] = "running" /\ ~locks
    /\ lease.owner = t /\ ~lease.live
    /\ lease' = [lease EXCEPT !.live = TRUE]
    /\ UNCHANGED <<locks, jar, server, req, phase, before, holder, result,
                   guard, signedIn, open, faults, refused>>

-----------------------------------------------------------------------------
\* The environment.

\* The access token in use expires.  It lives for minutes, so it outlives the
\* retries that were made as soon as it was issued.
AccessExpires ==
    /\ stale < newest /\ newest < MaxPairs
    /\ \A t \in Tabs : phase[t] = "none"
    /\ \A t \in Tabs, k \in Kind :
          ~Idle(t, k) => Top(req[t][k]).at = "sent" /\ Len(req[t][k]) = 1
    /\ stale' = newest
    /\ UNCHANGED <<locks, jar, newest, minPair, alive, replayed, changed, req, phase,
                   before, storage, guard, signedIn, open, faults, refused>>

\* The login is revoked from another device.
RevokedElsewhere ==
    /\ alive /\ alive' = FALSE
    /\ UNCHANGED <<locks, jar, newest, minPair, stale, replayed, changed, req, phase,
                   before, storage, guard, signedIn, open, faults, refused>>

\* A request of t that left with outdated cookies is still on its way.
Straggler(t) ==
    \E k \in Kind : /\ ~Idle(t, k) /\ Top(req[t][k]).pair < minPair
                    /\ Top(req[t][k]).at \in {"sent", "answered"}

\* RECENTLY_ROTATED_GRACE_MS has passed; it counts as a fault when a straggler
\* takes longer than that.
GraceEnds(t) ==
    /\ recent[t]
    /\ recent' = [recent EXCEPT ![t] = FALSE]
    /\ IF Straggler(t) THEN faults < MaxFaults /\ faults' = faults + 1
                       ELSE UNCHANGED faults
    /\ UNCHANGED <<locks, jar, server, req, phase, before, storage, pending,
                   signedIn, open, refused>>

\* A lease that nobody renews any more runs out.
LeaseExpires ==
    /\ lease.live /\ lease.owner # NoTab
    /\ lease.owner \in open => phase[lease.owner] \notin {"verify", "running"}
    /\ lease' = [lease EXCEPT !.live = FALSE]
    /\ UNCHANGED <<locks, jar, server, req, phase, before, holder, result,
                   guard, signedIn, open, faults, refused>>

\* A throttled background tab misses its heartbeats.
HeartbeatLate(t) ==
    /\ faults < MaxFaults /\ faults' = faults + 1
    /\ lease.live /\ lease.owner = t /\ phase[t] = "running"
    /\ lease' = [lease EXCEPT !.live = FALSE]
    /\ UNCHANGED <<locks, jar, server, req, phase, before, holder, result,
                   guard, signedIn, open, refused>>

\* A request or its answer is lost, or the client's timeout fires first.
AnswerLost(t, k) ==
    /\ faults < MaxFaults /\ faults' = faults + 1
    /\ t \in open /\ ~Idle(t, k) /\ Top(req[t][k]).at \in {"sent", "answered"}
    /\ Answer(t, k, "error", 0)
    /\ UNCHANGED <<locks, jar, server, phase, before, storage, guard, signedIn,
                   open, refused>>

\* A tab is closed or dies: its Web Lock is freed, its lease stays.
TabDies(t) ==
    /\ faults < MaxFaults /\ faults' = faults + 1
    /\ t \in open
    /\ open' = open \ {t}
    /\ req' = [req EXCEPT ![t] = [k \in Kind |-> <<>>]]
    /\ phase' = [phase EXCEPT ![t] = "none"]
    /\ before' = [before EXCEPT ![t] = 0]
    /\ holder' = IF holder = t THEN NoTab ELSE holder
    /\ pending' = [pending EXCEPT ![t] = FALSE]
    /\ recent' = [recent EXCEPT ![t] = FALSE]
    /\ refused' = [refused EXCEPT ![t] = FALSE]
    /\ UNCHANGED <<locks, jar, server, lease, result, signedIn>>

-----------------------------------------------------------------------------
\* A request that is out runs on by itself.
Step(t, k) ==
    \/ ServerAnswersCall(t, k) \/ Receive(t, k) \/ RetryAfterRefresh(t, k)
    \/ RefreshFailed(t, k) \/ RetryAfterRotation(t, k)

\* So does the refresh that it waits for.
RefreshStep(t) ==
    \/ ServerRefreshes(t)
    \/ LockGranted(t) \/ readLease(t) \/ waitForAnotherTab(t)
    \/ writeLease(t) \/ verifyLease(t)

Next ==
    \/ \E t \in Tabs :
          \/ RefreshStep(t) \/ ServerChangesPassword(t) \/ Heartbeat(t)
          \/ \E k \in Kind : Issue(t, k) \/ Step(t, k) \/ AnswerLost(t, k)
          \/ GraceEnds(t) \/ HeartbeatLate(t) \/ TabDies(t)
    \/ AccessExpires \/ RevokedElsewhere \/ LeaseExpires

Spec == Init /\ [][Next]_vars

\* Scripts and timers run, the server answers (axios gives up after 15 s), and
\* leases run out.  Nobody has to send a request and no token has to expire.
FairSpec ==
    /\ Spec
    /\ \A t \in Tabs : WF_vars(RefreshStep(t)) /\ WF_vars(GraceEnds(t))
    /\ \A t \in Tabs, k \in Kind : WF_vars(Step(t, k))
    /\ WF_vars(LeaseExpires)

-----------------------------------------------------------------------------
\* The interceptor never nests deeper than three requests: the original, its
\* retry after a refresh, and one after a rotation.
StacksOK ==
    \A t \in Tabs, k \in Kind :
        /\ Len(req[t][k]) <= 3
        /\ \A i \in 1..Len(req[t][k]) : req[t][k][i] \in Frame

TypeOK ==
    /\ locks \in BOOLEAN /\ alive \in BOOLEAN /\ replayed \in BOOLEAN
    /\ newest \in 1..MaxPairs /\ jar \in 1..newest
    /\ minPair \in 1..newest /\ stale \in 0..newest
    /\ StacksOK
    /\ phase \in [Tabs -> Phase] /\ before \in [Tabs -> Nat]
    /\ holder \in Tabs \cup {NoTab}
    /\ lease \in [owner: Tabs \cup {NoTab}, live: BOOLEAN]
    /\ result \in [epoch: Nat, success: BOOLEAN]
    /\ pending \in [Tabs -> BOOLEAN] /\ recent \in [Tabs -> BOOLEAN]
    /\ signedIn \in [Tabs -> BOOLEAN] /\ refused \in [Tabs -> BOOLEAN]
    /\ open \subseteq Tabs /\ faults \in 0..MaxFaults /\ changed \subseteq Tabs

\* Where the browser has Web Locks and nothing is lost, the tabs never present
\* a refresh token that another tab has used up: what setupAuthInterceptor
\* single-flights within a tab, runCrossTabRefresh serializes between tabs.
NoReplay == locks /\ faults = 0 => ~replayed

\* The answer of a password change that was carried out is on its way to t.
ChangeUnderWay(t) ==
    /\ ~Idle(t, "change") /\ Top(req[t]["change"]).at = "answered"
    /\ Top(req[t]["change"]).cookies # 0

\* The password change has been received, and yet the jar holds an older pair:
\* a refresh answered before the change arrived after it and overwrote its
\* cookies.
Overtaken == jar < minPair /\ \A t \in Tabs : ~ChangeUnderWay(t)

\* Where the browser has Web Locks and nothing is lost, a tab shows the session
\* as expired only when it is, unless its retry ran into an error other than
\* 401, another tab changed the password, or the cookies of the change were
\* overtaken.  However else the password change of the tab itself races the
\* other requests and the refresh, it never does.
SignedOutOnlyWhenOver ==
    locks /\ faults = 0 /\ alive =>
        \A t \in open :
            signedIn[t] \/ refused[t] \/ changed \ {t} # {} \/ Overtaken

\* The password change awaits its own promise: directly in the rotation branch,
\* or through the refresh it has started.
WaitsForItself(t) ==
    \/ ~Idle(t, "change") /\ Top(req[t]["change"]).at = "rotating"
    \/ /\ ~Idle(t, "change") /\ Top(req[t]["change"]).at = "refreshing"
       /\ ~Idle(t, "refresh") /\ Top(req[t]["refresh"]).at = "rotating"

\* Every call settles, in whichever tab and whatever crashes or is lost, unless
\* a password change waits for itself.  (At MaxPairs the server issues no more
\* pairs.)
CallsSettle ==
    \A t \in Tabs :
        ~Idle(t, "call") ~> (Idle(t, "call") \/ newest = MaxPairs
                             \/ \E u \in Tabs : WaitsForItself(u))

\* What axiosInstance and sessionRotationGuard promise of the password change:
\* it settles, and a terminal 401 is never suppressed.
ChangeSettles ==
    \A t \in Tabs : ~Idle(t, "change") ~> (Idle(t, "change") \/ newest = MaxPairs)

\* What sessionRotationGuard says of its grace window: a request that raced the
\* password change of its own tab finds fresh cookies and succeeds when it is
\* sent again, so the change never signs its tab out.
OwnChangeKeepsTheSession ==
    locks /\ faults = 0 /\ alive =>
        \A t \in open : signedIn[t] \/ refused[t] \/ changed \ {t} # {}

\* What setupAuthInterceptor says of 403: an answer that is not a 401 does not
\* log out a session that is alive.
ErrorsKeepTheSession ==
    locks /\ faults = 0 /\ alive /\ changed = {} => \A t \in Tabs : signedIn[t]

\* What crossTabRefresh says of its lease: of two live tabs only one refreshes.
LeaseIsExclusive ==
    faults = 0 => Cardinality({t \in open : phase[t] = "running"}) <= 1
=============================================================================
