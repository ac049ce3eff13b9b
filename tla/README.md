# MysticAuth: a TLA+ verification project

MysticAuth is a FastAPI/React authentication and authorization system over
Postgres, Valkey (Redis) and the procrastinate job queue. Most of what can go
wrong in it happens between two requests: a handler awaits Postgres or Valkey
several times, and any other request may run in between. The modules here model
those handlers with one action per awaited statement, TLC explores the
interleavings on small instances, and TLAPS proves the main results for any
number of users, tokens, links and concurrent requests. The browser client has
the same problem the other way round: answers, clicks, timers and other tabs
come in any order, over queries that are cached. Its modules have one action per
event that the client handles.

`PROJECT.json` holds the machine-readable side: components, runs, mutants, the
map from definitions to source lines, findings, hazards and theorems. Paths
below are relative to `src/backend/mystic_auth/` unless they start with `src/`.

## 1. Inventory

| Component | State | Operations | What makes it correct |
|---|---|---|---|
| Revocation version store (`auth/token_logic/token_version_store.py`) | `token_revocation_versions`: a version per account and per login chain, in an old and a new key format | bump (transaction), read one / both, migrate the key format | no bump is lost; the version only grows; a token accepted by two reads was acceptable at one instant |
| Refresh rotation (`auth/refresh_token_logic/`) | `consumed_refresh_tokens` claims | check, claim, grace-window duplicate, reuse, recheck, mint, sweep | one pair per refresh token; a child never outlives its parent's revocation; reuse ends the chain |
| Login, logout, Manage Sessions (`auth/login`, `auth/logout`, `auth/logout_all`, `user_session/`) | `user_sessions` rows | create, rotate/backfill, revoke one, revoke all | what is revoked stays revoked, nothing else is; a row stays with its login |
| Password change (`api/user_routes/user_self_service_routes.py`) | versions, rows | bump account, delete other rows, re-mint own chain | the same, without reviving a revoked chain |
| Password reset (`auth/password_logic/password_reset_service.py`, `auth/password_reset_confirm`) | active link, link marker, reservation, attempt counter in Valkey; password in Postgres | issue, consume, restore (Lua), reserve, release, write, revoke | a link writes one password; a confirmed reset has ended the sessions before it; one confirmation at a time |
| Login protection (`auth/security/login_protection_service.py`, `account_cooldown_service.py`) | lockout counter per account/address, failure counter and cool-down slot per account | check, count, expire, reset | a burst gets a bounded number of answers; counters and lockouts end |
| Password hashing gate (`auth/password_logic/password_service.py`) | running/waiting counts | enter, leave, refuse | bounded, nothing leaks when a waiter is cancelled |
| Account deletion, reactivation, purge (`user_lifecycle/`, `user/user_crud_modules/user_lifecycle_crud.py`, `procrastinate_tasks/account_purge_tasks.py`) | `users.deleted_at`, `is_active` | soft delete, reactivate, purge by route and by nightly batch | a reactivated account is never purged; the flags agree; a purge leaves no session |
| Lifecycle outbox (`user_lifecycle/account_lifecycle_events.py`, `procrastinate_tasks/account_lifecycle_tasks.py`) | outbox rows, jobs | insert with the transition, claim and defer, reconcile, deliver, redact | every transition is delivered at least once |
| Rate limiter (`auth/security/rate_limiting/`) | INCR/EXPIRE windows | count, refuse | windows close |
| Verification, deletion and OAuth2 one-time keys (`auth/verify_account`, `user_lifecycle/account_deletion_service.py`, `auth/oauth2`) | GETDEL keys, reservation | issue, consume, act | used once; a takeover does not race the owner |
| Passkeys (`auth/passkeys/`) | challenges, signature counters | register, authenticate, step up | a challenge is used once |
| PBAC evaluation and cache (`authorization/services`, `evaluators`, `caching`) | per user a cached list of policies and one of direct grants, 60 s each | read or select and fill, match, invalidate, flush | what is cached catches up with the tables |
| Policies, permissions, assignments (`authorization/repositories`, `api/pbac_routes/`) | policies with a version, their history, assignments, direct grants | assign, remove, revoke one action, two batches, create, update, roll back, delete, grant, revoke | nobody hands out more than they hold; concurrent edits leave one chain of versions |
| Session events and leases (`user_session/session_event_leases.py`, `session_events.py`) | ZSET leases, pub/sub | acquire, refresh, release, publish | caps hold; a lost message is repaired by polling |
| Background jobs (`procrastinate_tasks/`) | jobs | sweep, recover stalled, retry | nothing is lost, side effects tolerate repetition |
| Cross-tab refresh and interceptor (`src/frontend/src/mystic_auth/auth/session_lifecycle/`) | refresh lock or lease, last result, pending rotation | refresh, wait, retry, publish, sign out | a refresh token is sent once; no needless sign-out; every request settles |
| Browser session (`auth/current_user`, `auth/session_lifecycle`, `store/authStore.ts`, route guards) | auth store, the `/auth/me` query, event stream, the account's queries | poll, receive, event, log in and out, guard | fails closed; nobody sees another's data; nobody is bounced without cause |
| User management page (`users/`) | filters, page, selection, jobs | filter, select, change, bulk in chunks | a bulk change goes to what was chosen; the list is true afterwards |
| User access dialog (`users/dialogs/`) | two lists, changes and toasts under way | assign, revoke, convert, grant, remove, undo | it ends up true |
| Policies page (`policies/`) | cards, optimistic status, form, dialogs | create, edit, toggle, roll back, delete, undo | the editor ends up true |
| Passkeys and active sessions (`passkeys/`, `active_sessions/`) | selection, confirmation, parked change | rename, remove, sign out, confirm identity | no confirmed change is forgotten |
| Account settings (`account_settings/`) | tabs, three cards | type, save, delete, leave | unsaved edits are noticed |
| Links by mail (`auth/signup`, `auth/verify_account`, `auth/password_reset_*`, `account_deletion/`) | token, call, resend with its cool-down | open, submit, resend | a live link is not given up |
| Audit log pages (`audit_log/`) | filters by section, page, drawer | filter, sort, page, step | the drawer shows what its position says |
| Rate limits page (`rate_limits/`) | filters, poll, reset | filter, poll, reset | one confirmation resets once |
| Audit log, mail, alerts, middleware, charts, layout, deployment | append-only rows, output, configuration | | never read back by the logic above |

The browser's paths are below `src/frontend/src/mystic_auth/`.

How they interact:

- Every route that ends sessions (logout, logout-all, Manage Sessions, reuse
  detection, password change and reset, deactivation, deletion, purge) goes
  through a version bump, followed by best-effort row deletion. Every
  authenticated request compares its token's two stamped versions with the store.
- Claims, versions and rows are separate transactions, so a handler is a
  sequence of commits with other handlers in between. Version bumps use their
  own database session; the caller's transaction may commit before or after.
- Every authorized route reads two cached lists (policies, direct grants) and
  falls back to Postgres; every management route changes the tables, commits, and
  then deletes those keys, one after the other and best effort.
- In the browser the auth store is written by `/auth/me`, by login and logout, by
  the interceptor after a failed refresh and by the session event stream; pages
  read it for what they offer, and share one cache of queries. A mutation reports
  through callbacks and invalidates the queries that show what it changed.
- Links, reservations and counters live in Valkey, and a handler that uses them
  also writes Postgres: neither store sees the other's failures.

What is hard: two requests of one browser or two browsers interleaving at every
await; commits whose acknowledgement is lost; versions or rows read before an
await and used after it; keys that expire while a request works on them; INCR
and EXPIRE as two commands; scripts and nightly jobs that run beside the
traffic; answers that were computed before a change and arrive after it; tabs
that share cookies and storage but no memory; callbacks that run after their
dialog has gone, or not at all. `hazards` in `PROJECT.json` lists each one at its line.

## 2. Modules

| Module | Models | State and actions |
|---|---|---|
| `RevocationCounter` | what the version store promises | one number per key that only grows |
| `TokenVersionStore` | `_bump_version`, the migration script, `is_current_version` | `row` is the table in both formats, `tx` the bump transactions (`BumpSelect` snapshot, `BumpLock` lock wait and re-read, `BumpCommit` upsert, `BumpFail`), `batch` the rows the migration has locked, `check` the two-read check |
| `SessionLifecycle` | what the token core promises about a login | `none`, `live`, `ended`; only a password change renews |
| `SessionTokens` | login, refresh, logout, logout-all, Manage Sessions, password change, expiry, sweeps | `accountVer`/`chainVer` versions, `tok` claims of every refresh token, `claim` the consumed table, `rows` the session rows, `req[r].pc` where each handler is suspended; one action per Postgres transaction |
| `PasswordReset` | link scripts, confirmation handler, logins in flight | `active`/`marker` the two Valkey keys, `reserved` the in-flight key, `failed` the counter, `password`, `accountVer`; one action per awaited call |
| `LoginProtection` | `login_handler` around the password check | `lock`/`lockTtl`, `failures`/`failTtl`, `slot`; one action per Valkey command |
| `AccountLifecycle` | soft delete, reactivation, purge by a route and by the nightly batch, the lifecycle outbox with its reconciler and worker | `user` the account rows, `lock` their row locks, `saw` the attributes a session loaded and keeps, `outbox` and `jobs` the events on their way to the listeners; one action per awaited call, `Dies` between any two |
| `Authorization` | `require_authorization` and the eleven management operations | `policy`/`held`/`direct`/`history` the tables, `listed`/`granted` the caches, `req[r].pc` the awaited call a request is at; one action per Postgres transaction or Valkey command. `saw` is the policy as the request's session loaded it, `left` what the bounds still allow, `was` and `credited` the grants that the guard may count on |
| `CrossTabRefresh` | the 401 interceptor, `runCrossTabRefresh`, the guard of a request that rotates the cookies itself | `req[t][k]` a stack of frames, one per nested run of the interceptor; `phase`, lease and published result per tab; `jar`/`newest`/`minPair` the cookies and what the server accepts |
| `BrowserSession` | auth store, `["currentUser"]`, login, logout, event stream, route guard | `store`, `fetch`, `login`, queries of the account; `alive`/`granted`/`epoch` the server |
| `QueryCache` | one cache entry of the query library as the pages use it | operators only: observed, answered, invalidated, failed |
| `UsersPage`, `AccessDialog`, `PoliciesPage`, `SelfService`, `AccountSettings`, `AccountLinks`, `AuditLog`, `RateLimits` | the page or dialog they are named for | the page's state and stores, the queries and mutations under way, the server's rows; one action per click, timer or answer, and the changes of others |
| `Pages` | composes the eight, of which the router shows one | `mounted` is the page that is shown; the variables of the others are `"unmounted"` |
| `MCPageClaims` | comments that the pages do not keep (section 6) | |
| `...Proofs` | the TLAPS proofs of the module they extend: `CounterProofs` those of `TokenVersionStore` and `LoginProtection`, `PagesProofs` those of the pages through `Pages` | |
| `MC...` | constants and symmetry for TLC | |

The modules compose by abstraction. `SessionTokens` uses atomic bumps and an
atomic `Current`; `TokenVersionStore` shows that the real transactions implement
the counter (`ImplementsCounter`) and that the two reads agree with one instant
(`AcceptedWasCurrent`). `PasswordReset` likewise uses an atomic account version,
and counts attempts in one step where `LoginProtection` takes INCR and EXPIRE
apart. `AccountLifecycle` needs even less: whether an account has a session that
is current.

Data is abstracted to what the properties tell apart. A token pair is its
refresh half: both halves carry the same chain and versions and the access half
is never redeemed. A session row is named by the jti it was created with.
Passwords are compared, not hashed. Time is an action per deadline
(`GraceElapses`, `Expire`, `JwtExpires`, `KeysExpire`, `ReservationLapses`,
`LockLapses`; in `AccountLifecycle` `GraceElapses` is the grace period before
the nightly purge). A failed store call is a choice between "had no effect" and "took
effect, reply lost" wherever the code treats both alike.

In `Authorization` conditions are sets (a grant with more of them holds in fewer
contexts), there is one resource type, and the actions that open the management
routes are one, `Manage`. The routes' refusals that depend on names (protected
policies, the system account) are guards on `Superuser` and `System`. There is no
property about a last superuser: the system account always holds
`system_superuser`, and no route removes it. In the browser modules the server is
its rows and an answer is the rows at the time it is computed; rendering is a
step of its own only where a handler's closure can be a render old
(`RateLimits`).

Left out of the modelled handlers because they do not feed back: audit rows,
mails, geolocation, cookies, `last_login_at`, and the per-route rate limits.

## 3. Runs

States are distinct states found by TLC; symmetry is used only where no liveness
property is checked.

| Run | Instance | Shows |
|---|---|---|
| `version_store` | 2 bumps, account and chain key, a legacy row for one of them, versions to 4; 571,620 states | `NoLostBump`, `AcceptedWasCurrent`, `ImplementsCounter` |
| `sessions` | 2 chains of one user, 3 tokens, 2 requests; refresh, revoke, logout-all, password change; 83,938 states | `SingleUse`, `ChildDiesWithParent`, `EndedMeansDead`, `RowsKeepTheirChain`, `RevocationIsFinal`, `OnlyTargetsAreRevoked` |
| `session_faults` | 2 chains, 2 tokens, 2 requests; refresh, revoke, logout, expiry, every statement may fail; 448,084 states | `ImplementsLifecycle` |
| `session_reuse` | 1 chain, 2 tokens, 2 addresses, 2 requests, fair; 8,427 states | `ReuseEndsChain` |
| `password_reset` | 2 links, 2 requests (confirmations and logins), both stores failing, stalls; 1,576,776 states | `LinkRedeemedOnce`, `ResetEndsOlderSessions` |
| `login_protection` | 2 requests, limits of 2, lost commands, fair; 40,040 states | `BurstIsBounded`, `CountersExpire`, `LockoutsEnd` |
| `account_lifecycle` | 1 account, in use or soft-deleted long ago, 1 request beside nightly batch, reconciler and worker, 2 transitions, one fault anywhere, fair; 368,623 states | `LastEventMatchesRow`, `OneJobPerEvent`, `JobsNameTheirAccount`, `PurgedAccountsAreSignedOut`, `EventsAreDelivered` |
| `authorization` | 2 requests of one operator, each a check or any management operation; two changes, or one and a failed Valkey command; `P` inactive and `Q` not there at first; fair; 571,634 states | `GrantsStayWithinOwn`, `EditsFormAChain`, `CachesCatchUp` |
| `cross_tab_refresh` | one or two tabs, with and without Web Locks, 4 pairs of tokens, 1 fault, fair; 278,997 states | `NoReplay`, `SignedOutOnlyWhenOver`, `CallsSettle` |
| `browser_session` | 2 accounts, 1 login, 1 change of permissions, 1 fault, fair; 276,736 states | `FailsClosed`, `CachesMatchAccount`, `NoFalseBounce`, `StoreCatchesUp` |
| `pages` | each page with the small bounds of `MCPages`; 743,719 states | `TargetsChosenHere`, `OwnChangesShow`, `AccessSettles`, `FormMatchesServer`, `ConfirmedChangesAreDone`, `WarnsOfUnsaved`, `LiveLinksStayUsable`, `DrawerAtItsPlace`, `OneResetAtATime` |
| `password_change_hangs` | violation of `ChangeSettles` | see section 6 |

Every module has a `TypeOK` (`LoginTypeOK`, `PagesTypeOK`). Those of `SessionTokens`, `TokenVersionStore`,
`PasswordReset`, `LoginProtection`, `AccountLifecycle`, `Authorization`,
`CrossTabRefresh` and `BrowserSession` are theorems; those of the pages hold when added to the cfg
of their run, and their proofs carry the types they need in their own invariants.

Why the bounds are enough:

- Two requests are the races the code guards against, pairwise. Where a third
  matters (a token redeemed by two, both children then presented) the third
  comes later in one of the two slots, since a slot is reused.
- Three tokens are one parent with two children, or two logins and a rotation.
  Two chains are a session and the one it revokes.
- `MaxVersion` stops new revocations, not those in flight: two requests that
  both passed the guard still bump the same version twice.
- Two links give every order of an old and a new one. In `password_reset` the
  account's first password is itself one that the strength rule refuses, so two
  passwords reach the weak, the same-as-old and the accepted path.
- `MaxFailures` stops new logins; with limits of 2 a burst can start below the
  limit and end above it.
- Accounts share nothing but the batch, so one is enough for the properties of
  `AccountLifecycle`. One request, the nightly batch, the reconciler and the
  worker are four processes already; the request slot is reused. Starting from
  a soft-deleted account too, two transitions are every ordered pair, such as a
  purge under a reactivation that has read the row. One fault is a lost
  `queued_at` that the reconciler then meets, or a revocation that is not
  confirmed; two faults (1,963,683 states) pass as well but take long.

- Two requests of one operator are a decision, or the fill of a cache, beside a
  change, and two changes beside each other. The operator may manage, and
  holds the app-owned action under a condition only, so that there is something to
  widen. Races of two changes and faults are in separate initial states
  (`MCBounds`); every kind of change takes part in both.
- Two tabs compete for a lease; a third adds another loser. Three pairs let a
  pair be replayed after it was rotated away, and a fourth a refresh be answered
  before a change of the password and received after it. One fault is a lost answer on either
  side of the server's commit, or a tab that dies with the lease.
- A page has one or two rows beyond the first page, two pages, and two changes: a
  change and another's change, or a change and its Undo. One value of a filter and
  its absence are enough to tell "reset" from "kept".

`account_lifecycle` does not check deadlock because `MaxEvents` stops requests that
are about to commit a transition. `authorization`, `cross_tab_refresh` and `pages`
stop when their bounds are used up; `browser_session` checks it. The session runs and `login_protection` do not check deadlock: token ids are a
finite supply, and a counter that has lost its EXPIRE legitimately stays at the
bound. `version_store` and the reset runs do check it.

Each property of a passing run has a mutant: a plausible bug in one mapped
definition (a dropped recheck, a plain GET, `EXCLUDED.version` instead of
`GREATEST`), with which TLC finds the property violated.

## 4. Fairness

`FairSpec` of `SessionTokens` is weak fairness of `Serve(r)` for every request:
asyncio runs an accepted request to its response, and every model step of a
handler is one await that returns or raises. Requests need not arrive, time need
not pass, clients need not receive a response. `LoginProtection` adds weak
fairness of key expiry: Valkey removes a key with a TTL. Nothing is assumed to
repair a key without one. `AccountLifecycle` assumes that accepted requests and
started tasks run on, that the reconciler's five-minute tick comes round and
that a worker takes the jobs; the nightly batch need not start. `Authorization`
adds that Valkey removes a list whose 60 seconds are over: that is what bounds the
staleness of a list a racing read has filled.

`CrossTabRefresh` assumes that scripts and timers of a live tab run on, that a
request is answered or given up (axios stops waiting after 15 seconds) and that a
lease runs out. Nobody has to send a request, and no token has to expire.
`BrowserSession` assumes the poll of `/auth/me` (every two minutes), its answers
and the script that handles them; no event has to arrive and no user has to act.
The pages have no liveness property: a user may always walk away.

## 5. Proofs

All for arbitrary constants that satisfy the named ASSUMEs: any number of
requests, users, chains, tokens, addresses and links, any limits, with and
without faults. `sessions` and the other runs are instances of these.

The theorems about the pages are about `PagesSpec`, whose behaviours show one page
each. `MailedSteps` and its like say that while a page is mounted every step is one
of that page or changes none of its variables; the invariant of a page is proved of
the page alone and holds in `PagesSpec` under `mounted = "..."`. Two of them assume
something of the constants: `LogAssumption` (pages have a positive size, no more
entries are there than the log will ever have) and `StartAssumption` (every policy
at first has its four fields and grants something, which the create schema asks of
every policy).

| Theorem | Inductive invariant | Argument |
|---|---|---|
| `StoreTypeCorrect`, `BumpsAreNotLost`, `TwoReadsSuffice`, `RefinesCounter` (`CounterProofs`) | `StoreInv`: types, `ReadsLegacy` (a bump that holds its locks has read a version at least as large as the legacy row, because nothing ever inserts a legacy row after its snapshot), `CheckOK`, `NoLostBump` | a commit strictly raises the effective version (`CommitRaises`), the migration never changes it (`MigrationInvisible`), hence every step is a bump or a stutter; versions only grow, so equality at the second read implies equality at the first |
| `TypeCorrect` (`SessionTokensProofs`) | `TypeInv`: types, requests name real chains and tokens, rows name minted tokens | one step per action |
| `RotationIsSingleUse`, `ChildrenDieWithParents` | `RotationInv`: stamps never exceed the versions, a child carries its parent's stamps and its parent is consumed or expired, the holder of an unexpired claim is unique and has minted nothing | single use alone is not inductive: it needs the uniqueness of the claim holder, which needs that a claim disappears only after expiry |
| `RevocationFinality` | the stamp bound of `RotationInv` | versions only grow past a stamp |
| `EndedChainsAreDead` | `HistoryInv`: tokens of a login and their descendants carry chain version 0, a chain is bumped only after its login has minted, and a request about to report, or a reported chain, is past version 0 | the bump precedes the report, and a refresh passes its parent's version on instead of reading the current one |
| `RevocationIsTargeted` | `TypeInv` and the list of actions that change a version | |
| `RowsStayWithTheirLogin` | `RowsInv`: a request that is to write a row has a token of its own login that is in no row and on its way into none, and the row it found is of that login | a row only ever moves along the chain of the refresh token that was rotated |
| `RefinesLifecycle` | the types and the list of actions that change a version | no step but a sign-in, a password re-mint or a bump changes what `SessionOf` shows |
| `ResetTypeCorrect`, `LinksAreSingleUse`, `ConfirmedResetsEndSessions` (`PasswordResetProofs`) | `LinkInv`: whoever works on a consumed link is alone with it and the link is neither redeemable nor redeemed; `SessionInv`: versions of sessions minted before a confirmed write lie below the current one | the exclusivity comes from the consume script alone, so it survives the loss of the reservation |
| `LoginTypeCorrect`, `BurstsAreBounded`, `CountersGetTheirTtl` (`CounterProofs`) | `RefusedAreCounted`: every answered failure is in the counter; `CountersHaveTtl` while nothing was lost | INCR decides the answer, not the earlier GET; whoever creates a counter is at its EXPIRE |
| `TypeCorrect`, `JobsNamed`, `EventsMatchRows` (`AccountLifecycleProofs`) | `TypeInv`: types, and each process has the account, event or list that the call it is at needs; `NothingRedacted`; `LastEventInv`: an account without an event is there, any other looks as its last event says | nothing redacts a payload that has yet to be sent, so no job is built from one; the event is inserted in the transaction that changes the row, under the row's lock |
| `PurgedSignedOut` | `PurgesSignOutFirst`: from its confirmed bump until the row is gone, a purge has the account signed out but for sessions minted since | a purge that could not confirm its bump does not go on |
| `OneJob` | `ClaimsAreExclusive`: one process at a time works on an outbox row, and only while `queued_at` is empty; `LostMarksAreFaults`: every job of an event whose mark is neither written nor about to be cost a fault | `FOR UPDATE SKIP LOCKED` and the condition on `queued_at` are one claim; a job can only be repeated after a mark was lost |
| `TypeCorrect`, `EditsChain` (`AuthorizationProofs`) | `TypeInv`; `ChainInv`: also `HistoryEndsHere`, the last record of a policy ends with the row as it is | an edit starts from the row that it reads under the lock, not from the one the route loaded |
| `GrantsWithinOwn` | `GuardInv`: what the tables and both caches grant a user was granted once (`TablesKnown`, `CachesKnown`), and every action that a request is to hand out is either backed by such a grant of the caller or among the questions that the guard has yet to ask (`RequestsApproved`) | lists are only ever filled from the tables, so a stale one is a grant of the past; the guard asks about every action before the commit, in any order with the commits of others |
| `TypeCorrect` (`CrossTabRefreshProofs`) | `TypeInv`: `StacksInv`, a frame at depth *i* has used *i* - 1 of its two retries, or *i* if it has sent a retry | every nested request carries the retry flags on, so no request nests deeper than three |
| `TokensAreNotReplayed` | `ReplayInv`: whoever has a refresh out holds the Web Lock; the answers under way, the pair a refresh presents and the jar are the newest or outdated by a password change, the jar unless a refresh is owed its answer; at most one answer owes the newest pair, and until it is received neither the jar nor a refresh has that pair | the lock is let go when the answer has been received, hence after the browser stored its cookies, and the next holder reads the jar only then |
| `TabsStaySignedIn` | `SessionInv`: a tab to which nothing has happened that may sign it out is signed in, and its requests are where such a tab's can be (`Fits`): its refresh meets no error (`FlagsFit`), its jar serves after a refresh (`JarServes`), an outdated pair is out only while a rotation may explain the refusal and that retry is left (`PairsServe`), and a 401 has one of two reasons (`RefusalsExplained`). It needs that no answer carries an expired pair (`AnswersCarry`), that a tab which relies on another's refresh finds its cookies (`ResultsAreTrue`), that a change under way is marked (`ChangesArePending`), and that cookies of a change, once overtaken, are not brought back (`OvertakenForGood`) | a refresh is refused only for a pair older than the change of its own tab, by `NoReplay`'s invariant; that change is still marked or its tab was at it within the grace window, so the refusal is retried, and by then the jar has the cookies of the change |
| `TypeCorrect` (`BrowserSessionProofs`) | `TypeInv`: the types of every record; a stream only for a signed-in store; each event once in the queue; a profile that was answered names an account | `useSessionEventsStream` follows the store in the same step |
| `ChangesFailClosed` | `SeenInv`: a profile of the account signed in that is on its way is never older than the last change told of | `resetQueries` gives up the request that was out, and whatever is answered after it was read after the change |
| `CachesStayTheirOwn` | `OwnerInv`: while no login was sent over other cookies, there is one account that the jar, the store, the profiles and the queries are all of (`OnlyOf`) | a login that is not over the cookies of another account starts from that account or from nobody, and the queries are removed with the session |
| `OpenPagesStayOpen` | `HeldInv`: what a profile or the store says, its account has held since, or has lost (`AllHeld`); a profile as recent as the tables agrees with them (`UpToDate`); an open page was opened by such an action (`WasAllowed`); a store that waits for its permissions has none | a newer profile that lacks the action was read after the action was taken away; `dropPermissions` keeps the page while nothing is known |
| `LinksStayUsable` (`PagesProofs`) | `LinkInv`: no page has a token of a link that was not sent (`TokensWereSent`); what the server called dead is not live, unless its store failed (`DeadIsSaid`); a call that is sent forgets the answer before it (`AnswersAreForgotten`) | a link that is no longer live never is again (`LinksAge`), so an answer stays true of its token however late it is shown |
| `PageWarnsOfEdits` | `EditsAreKnown`: a card has reported an edit exactly if it is mounted and holds one | every step that changes a field, the saved profile or what is mounted reports anew |
| `ResetsGoOneByOne` | `ResetInv`: while a reset is out, the guard is up or the render that disables the button was seen | the guard goes up in the step that sends, and only a render lets it down, which by then shows that a reset is pending |
| `ChangesAreHeardOf` | `OwedInv`: a change that the user waits for is under way or parked, unless one was displaced | the step that takes a change from where it was parked sends it |
| `DialogSettles` | `AccessInv`: of every list that counts as fresh, and of every answer that will, the content is the server's unless a change is answered and its callback has yet to run (`ListTrue`, `Untold`) | the callback invalidates the lists of the change, and a request started after it reads the tables as they are |
| `TargetsWereChosen` | `CheckedHere`: every checked row was checked under the filters and the page on screen | a render with another list drops the selection in the same step |
| `ListsFollowChanges` | `UsersInv`: the same as `AccessInv` for each cached view of the list (`ViewTrue`, `Unheard`) | the list of a view is a set, and who is in it depends on the rows alone, so a change that keeps the rows keeps every view |
| `DrawerKeepsItsPlace` | `LogInv`: the cached pages are pages of the log (`LogTypes`); an open drawer's position is on the page shown, or the list under it is one that a debounced filter has replaced for good (`DrawerTrue`, `Replaced`) | in a list that no new entry joins positions never move, and each step of the drawer turns the page when it crosses its edge |
| `EditorShowsPolicy` | `FormInv`: while an editor opened from a fresh row is mounted, the calls under way are its own, each the latest of its hook (`OwnCalls`), and the form has what the server has, will have it, or goes back to it (`CallTrue`), unless a save went through, whose callback closes the editor (`Saved`); an Undo on offer is one that the server takes (`NoticeTrue`, `Lawful`) | with one call of `actions` out at a time its callback runs, for success or for failure, and the policy is changed by nobody else |

Only model-checked: the liveness properties (`ReuseEndsChain`, `LockoutsEnd`,
`EventsAreDelivered`, `CachesCatchUp`, `CallsSettle`, `StoreCatchesUp`), which are
out of this prover's reach. Every safety invariant and every action property that
a run checks is a theorem, and so are both refinements.

Read the properties with their exceptions, which are the code's:

- `SingleUse` excepts a token that expires while two requests hold it decoded.
  The nightly sweep deletes claims of expired tokens, so the second request can
  claim again (`procrastinate_tasks/maintenance_tasks.py:67`).
- `EndedMeansDead` excepts tokens re-issued by a password change (section 6).
- `ResetEndsOlderSessions` is about sessions minted before the password was
  written. A login that verified the old password earlier and mints after the
  revocation survives; the code makes no promise about it.
- `CountersExpire` and `LockoutsEnd` hold until a Valkey command is lost. After a
  lost EXPIRE the counter has no lifetime, and once it has reached the limit
  requests are refused before the password check, so nothing resets it.
- `PurgedAccountsAreSignedOut` excepts a login that mints after the purge has
  bumped the account version and before the row is gone (`late`).
- `OneJobPerEvent` allows one more job per fault: a job is deferred on another
  connection than the one that writes `queued_at`.
- `EventsAreDelivered` allows a job that has used up its retries; nothing defers
  its event again.
- `GrantsStayWithinOwn` excepts a holder of `system_superuser`, and what a policy
  granted when the request loaded it to a caller who came to hold the policy only
  later (`credited`; `HandsOutOnlyHeld` in section 6). It says nothing of who may assign that policy beyond the actions in it: whoever holds all of the
  built-in actions passes the guard for it.
- `NoReplay` and `SignedOutOnlyWhenOver` are about browsers with Web Locks and
  runs in which nothing was lost. The lease that replaces the locks does not
  exclude two tabs (section 6), and a lost answer leaves a used token in the jar.
  `SignedOutOnlyWhenOver` also excepts a change of the password in another tab,
  and one whose cookies a refresh answered before it has overwritten (`Overtaken`;
  `OwnChangeKeepsTheSession` in section 6). It takes a fourth pair to get there.
- `CallsSettle` excepts a password change that waits for itself (section 6).
- `FailsClosed` begins again with a login, whose profile is applied unseen, and
  `CachesMatchAccount` excepts a login sent over another account's cookies.
- `OwnChangesShow` and `AccessSettles` leave out a list whose request was out, for
  the first time or off screen, when the change was confirmed: the invalidation
  does not start it over, and its answer counts as fresh.
- `FormMatchesServer` leaves out an editor mounted from a stale row or while a
  change of more than a status was under way (with three edits TLC shows why: a
  policy is deleted, and made again under its name, while the editor opens), two
  saves out at once, and a changed type; `ConfirmedChangesAreDone` a parked change
  that a second one displaced; `DrawerAtItsPlace` lists that new entries join;
  `LiveLinksStayUsable` a link that the server itself called dead.

Two fields of one record are updated as `![r] = [@ EXCEPT !.a = x, !.b = y]`,
never as `![r].a = x, ![r].b = y`: tlapm 1.4.5 reads the second form as two
contradictory equations and would prove anything from it. Nor is an `@` nested in
another EXCEPT, and `SUBSET X \ Y` is written `(SUBSET X) \ Y`: tlapm takes the
minus first. A set filter binds one variable, and the bounds of a quantifier do
not depend on each other, because tlapm has neither. Adding `PROVE FALSE`
lemmas, one per action, to a copy of a `...Proofs` module is a quick test that
the assumptions of its steps are consistent.

## 6. Findings

One has a run of its own, `password_change_hangs`: a password change that is
answered 401 reaches `await pendingRotation` in the interceptor, and
`pendingRotation` is its own promise. Neither it nor the requests that wait for it
settle. It counts only as stated there: the call does not settle although the
server answers and scripts run.

The others are checked by hand with a cfg that no listed run uses: the claim is
what a comment, a test or a doc says, and TLC finds it violated. `PROJECT.json`
quotes each comment.

| Claim | Cfg | What the code does |
|---|---|---|
| `LogoutEndsSession` | `SessionClaims.cfg` | logout finds no row for a rotated jti, bumps nothing, answers `session_revoked: true` |
| `RevokedChainStaysDead` | `SessionClaims.cfg` | a password change re-mints its chain with the current versions although the chain was revoked meanwhile |
| `ConfirmationsAreSerialized` | `ResetOverlap.cfg` | `finally` releases the reservation again, which may be the next request's |
| `PurgeRechecks` | `PurgeRechecks.cfg` | the re-read under lock returns the attributes loaded before; a reactivated account is purged |
| `NextRequestIsCurrent` | `AuthorizationClaims.cfg` | a read before a revocation fills the cache after its invalidation |
| `HandsOutOnlyHeld` | `AuthorizationClaims.cfg` | the guard goes by the attributes of a policy that the route loaded: it passes for an action that was taken out of the policy before the caller came to hold it |
| `KeptActionsStayAllowed` | `AuthorizationClaims.cfg` | policies and grants are read and invalidated one after the other: a kept action is denied in between |
| `OtherAccessIsUnchanged` | `AuthorizationClaims.cfg` | revoking one action overwrites the user's own weaker grant of another |
| `DeletedWasInactive` | `AuthorizationClaims.cfg` | a policy switched on after the route read it is deleted |
| `HistoryIsAChain` | `AuthorizationClaims.cfg` | a deletion records what the route loaded, not what it deletes |
| `EditsStayWithinOwn` | `AuthorizationClaims.cfg` | the guard sees the edit merged with the row loaded, the row is merged again under the lock |
| `ErrorsKeepTheSession` | `CrossTabClaims.cfg` | after a good refresh, any error of the retry signs the tab out |
| `LeaseIsExclusive` | `CrossTabClaims.cfg` | write-and-verify lets a tab that read earlier write over the first |
| `OwnChangeKeepsTheSession` | `CrossTabClaims.cfg` | the answer of a refresh from before the change arrives after it and overwrites its cookies: every retry is refused |
| `NextAccountSeesNothingOld`, `SignedOutStaysOut`, `OldRefusalIsIgnored` | `BrowserClaims.cfg` | two keys survive sign-out; late answers of `/auth/me` and late 401s are applied to whoever is signed in |
| `SelectAllMatchesFilters`, `OwnChangesShowEverywhere` (`UsersSpec`) | `PageClaims.cfg` | the gathered addresses are selected whatever the filters are by then; hidden lists keep old rows |
| `AccessAlwaysSettles`, `LoadingToastsEnd` (`AccessSpec`) | `PageClaims.cfg` | a first request survives an invalidation; only the latest call's callbacks run |
| `UnsavedTextIsNoticed`, `ActionsMatchType`, `OneActionPerClick`, `StatusIsTrue` (`PoliciesSpec`) | `PageClaims.cfg` | the embedded editor's exits do not ask; toggles are saved before the type; Undo sends the old list; an earlier toggle's status stays |
| `ParkedIsNotLost`, `CancelledIsDropped`, `UnchangedNameSavesNothing` (`SelfSpec`) | `PageClaims.cfg` | there is one place to park; a cancelled check still runs it; a draft is taken once |
| `StripMatchesPanel`, `EditsSurviveTabs`, `UntypedIsClean` (`SettingsSpec`) | `PageClaims.cfg` | a second deep link remounts the strip and the cards; the name field keeps its first profile |
| `FailedVerifyIsFinal`, `ResendsToRegistered`, `TokenLeavesTheUrl`, `DeadIsDead` (`LinksSpec`) | `PageClaims.cfg` | any error disables the button; the receipt has the field's address; a second link is not read; a failed store is reported as a dead link |
| `FiltersHaveChips` | `AuditLogClaims.cfg` | an action hides the chip of its group |

In `PageClaims.cfg` put the specification of the page and the claim
(`MCPageClaims` says which are action properties); in the other five with several
claims, one claim at a time.

Also seen, kept as hazards where a state of the system is at stake:

- a refresh can backfill a session row after its chain was revoked
  (`user_session/session_service.py:88`); a failed confirmation can restore an
  older link while the newest is consumed (`password_reset_service.py:32`); a
  database error loses the link it consumed (`password_reset_service.py:243`);
- a login's own `/auth/me` can be overtaken by an event; a lost logout request lets
  the next poll sign the tab in again; another tab's change of account leaves this
  tab's caches; UI stores follow the next user (`createSessionUiStore.ts:15-18`);
- a chunked bulk change that fails on the way reports nothing and refreshes
  nothing; the Undo of a permission never expires; the unsaved-changes warning
  covers leaving the site, not another page;
- a late answer of a reset closes the dialog of another entry
  (`DialogClosesForItself`), and a page whose last entry is reset stays empty
  (`NotStranded`); a drawer's position is of the list it was opened on
  (`PositionIsOfThisList`);
- the snapshot that a saved action takes marks unsaved text as clean
  (`usePolicyFormState.ts:186-192`).

## 7. Not modelled, and the plan

In order. Each module gets its inductive invariant and a proof module where one
is worth it.

1. Overlapping partial UPDATEs can leave an account inactive and not deleted, which
   `api/user_routes/user_management_query_routes.py:44` calls "a state no code path
   ever produces"; this needs two requests and five transitions.
2. `OneTimeKeys`: verification, deletion confirmation and OAuth2 state as
   consume-once keys with the account checks after them, sharing the reservation
   of `PasswordReset`.
3. `SessionLeases`, the rate limiter, the hashing gate, stalled-job recovery.

Partly modelled, and what is missing: renaming a policy, several resource types
and wildcards, the batch and explain endpoints of the evaluation; garbage
collection in the query cache; the passkey dialog of the users page; the trend
chart of the audit log; export buttons.

Out of scope: WebAuthn, JWT, Argon2, TanStack Query and Google as libraries or
services; mail, alerts and error monitoring, which are output only; the server's
audit log, which is append-only; layout, charts, translations and theming;
deployment and schema migrations other than the revocation-key migration, which
runs beside the traffic and is in `TokenVersionStore`.

## 8. Running it

    tlc -config Sessions.cfg MCSessionTokens
    tlc -config Pages.cfg MCPages
    tlapm SessionTokensProofs.tla
