---------------------------- MODULE SessionTokens ----------------------------
(***************************************************************************)
(* The token and session core of MysticAuth: refresh-token rotation with   *)
(* single-use claims and reuse detection, version-based revocation, and    *)
(* the user_sessions rows that mirror it for the Manage Sessions page.     *)
(*                                                                         *)
(* Every HTTP request is a process; one action is one Postgres transaction *)
(* of its handler, so requests interleave exactly where the handler        *)
(* awaits.  A token pair is represented by its refresh half.               *)
(*                                                                         *)
(* Version bumps are atomic here: TokenVersionStore shows that the real    *)
(* transaction is one.  So is is_current_version, whose two reads that     *)
(* module shows to agree with one instant.                                 *)
(***************************************************************************)
EXTENDS Naturals, FiniteSets

CONSTANTS
    User, Chain,
    Jti,            \* refresh-token ids
    IP,             \* client addresses
    Req,            \* request slots: how many requests may be in flight at once
    None,           \* "no such thing"
    Owner,          \* [Chain -> User]: the account a login chain belongs to
    Op,             \* the operations a run exercises
    Grace,          \* REFRESH_TOKEN_REUSE_GRACE_SECONDS > 0
    Faults,         \* Postgres statements may fail
    MaxVersion      \* bound: no revocation starts once a version has reached it

Operation == {"login", "refresh", "logout", "logout_all", "revoke", "password", "expiry"}

ASSUME NoneAssumption  == None \notin Jti \cup Chain \cup IP
ASSUME OwnerAssumption == Owner \in [Chain -> User]
ASSUME OpAssumption    == Op \subseteq Operation
ASSUME FlagAssumption  == Grace \in BOOLEAN /\ Faults \in BOOLEAN
ASSUME BoundAssumption == MaxVersion \in Nat

VARIABLES
    accountVer,  \* account_ver of each account
    chainVer,    \* chain_ver of each chain
    tok,         \* the claims of each refresh token minted so far
    delivered,   \* the tokens some client has received
    expired,     \* the tokens past their exp
    claim,       \* consumed_refresh_tokens
    rows,        \* user_sessions: row id -> current_jti; a row's id is named by
                 \* the jti it was created with
    req,         \* the requests
    ended,       \* chains that reuse detection or Manage Sessions reported revoked
    loggedOut    \* chains whose logout answered session_revoked: true

vars == <<accountVer, chainVer, tok, delivered, expired, claim, rows, req, ended, loggedOut>>

store == <<accountVer, chainVer>>
report == <<ended, loggedOut>>

NoToken == [chain |-> None, accountVer |-> 0, chainVer |-> 0, parent |-> None, origin |-> "login"]
NoClaim == [ip |-> None, age |-> "late"]
NoReq   == [op |-> "none", pc |-> "idle", jti |-> None, chain |-> None,
            new |-> None, row |-> None, ip |-> None]

Minted == {j \in Jti : tok[j].chain # None}
Used(c) == \E j \in Jti : tok[j].chain = c
Consumed(j) == claim[j].ip # None

\* jwt_service.is_current_version
Current(j) ==
    /\ tok[j].chain # None
    /\ tok[j].accountVer = accountVer[Owner[tok[j].chain]]
    /\ tok[j].chainVer = chainVer[tok[j].chain]

\* A client holds a token that still decodes.
Presentable(j) == j \in delivered \ expired

RowsOfChain(c) == {i \in Jti : rows[i] # None /\ tok[rows[i]].chain = c}
RowsOfUser(u)  == {i \in Jti : rows[i] # None /\ Owner[tok[rows[i]].chain] = u}

Init ==
    /\ accountVer = [u \in User |-> 0]
    /\ chainVer = [c \in Chain |-> 0]
    /\ tok = [j \in Jti |-> NoToken]
    /\ delivered = {}
    /\ expired = {}
    /\ claim = [j \in Jti |-> NoClaim]
    /\ rows = [j \in Jti |-> None]
    /\ req = [r \in Req |-> NoReq]
    /\ ended = {}
    /\ loggedOut = {}
-----------------------------------------------------------------------------
(* Requests *)

Begin(r, op, pc, j, c, i, ip) ==
    /\ op \in Op
    /\ req[r].pc = "idle"
    /\ req' = [req EXCEPT ![r] = [op |-> op, pc |-> pc, jti |-> j, chain |-> c,
                                  new |-> None, row |-> i, ip |-> ip]]

At(r, pc) == req[r].pc = pc

Goto(r, pc) == req' = [req EXCEPT ![r].pc = pc]

Finish(r) == req' = [req EXCEPT ![r] = NoReq]

\* The response with the new token pair leaves, and may never arrive.
Respond(r) ==
    /\ \/ delivered' = delivered \cup {req[r].new}
       \/ UNCHANGED delivered
    /\ Finish(r)

Delete(ids) == rows' = [i \in Jti |-> IF i \in ids THEN None ELSE rows[i]]
-----------------------------------------------------------------------------
(* Version bumps: token_version_store.bump_chain_version / bump_account_version *)

BumpChain(c) ==
    /\ chainVer' = [chainVer EXCEPT ![c] = @ + 1]
    /\ UNCHANGED accountVer

\* Mutant of BumpAccount: a counter one bit wide.
BumpAccountWraps(u) ==
    /\ accountVer' = [accountVer EXCEPT ![u] = (@ + 1) % 2]
    /\ UNCHANGED chainVer

BumpAccount(u) ==
    /\ accountVer' = [accountVer EXCEPT ![u] = @ + 1]
    /\ UNCHANGED chainVer

\* A bump that returned False may still have been committed.
BumpChainUnconfirmed(c) == Faults /\ (BumpChain(c) \/ UNCHANGED store)
BumpAccountUnconfirmed(u) == Faults /\ (BumpAccount(u) \/ UNCHANGED store)
-----------------------------------------------------------------------------
(* Login: login_service.login.  The password has been accepted; the chain id *)
(* is a new uuid.                                                            *)

BeginLogin(r, c) ==
    /\ ~ Used(c)
    /\ \A q \in Req : ~ (req[q].op = "login" /\ req[q].chain = c)
    /\ Begin(r, "login", "login_mint", None, c, None, None)
    /\ UNCHANGED <<store, tok, delivered, expired, claim, rows, report>>

\* create_refresh_token without versions stamps the versions current now.
MintCurrent(r, n, origin, next) ==
    LET c == req[r].chain
    IN /\ tok[n].chain = None
       /\ tok' = [tok EXCEPT ![n] = [chain |-> c, accountVer |-> accountVer[Owner[c]],
                                     chainVer |-> chainVer[c], parent |-> None,
                                     origin |-> origin]]
       /\ req' = [req EXCEPT ![r] = [@ EXCEPT !.new = n, !.pc = next]]

LoginMint(r, n) ==
    /\ At(r, "login_mint")
    /\ MintCurrent(r, n, "login", "create_row")
    /\ UNCHANGED <<store, delivered, expired, claim, rows, report>>

\* create_session (login) and the backfill of rotate_session: best effort.
CreateRow(r) ==
    /\ At(r, "create_row")
    /\ \/ rows' = [rows EXCEPT ![req[r].new] = req[r].new]
       \/ Faults /\ UNCHANGED rows
    /\ Respond(r)
    /\ UNCHANGED <<store, tok, expired, claim, report>>
-----------------------------------------------------------------------------
(* Refresh: refresh_token_service.refresh_tokens *)

BeginRefresh(r, j, ip) ==
    /\ Presentable(j)
    /\ Begin(r, "refresh", "check", j, tok[j].chain, None, ip)
    /\ UNCHANGED <<store, tok, delivered, expired, claim, rows, report>>

RefreshCheck(r) ==
    /\ At(r, "check")
    /\ IF Current(req[r].jti) THEN Goto(r, "claim") ELSE Finish(r)
    /\ UNCHANGED <<store, tok, delivered, expired, claim, rows, report>>

\* claim_jti_for_rotation: INSERT ... ON CONFLICT (jti) DO NOTHING.
RefreshClaim(r) ==
    LET j == req[r].jti
    IN /\ At(r, "claim")
       /\ IF Consumed(j)
          THEN Goto(r, "duplicate") /\ UNCHANGED claim
          ELSE /\ claim' = [claim EXCEPT ![j] = [ip |-> req[r].ip, age |-> "fresh"]]
               /\ Goto(r, "recheck")
       /\ UNCHANGED <<store, tok, delivered, expired, rows, report>>

\* The claim commits but the acknowledgement is lost: 503 with the token burned.
RefreshClaimLost(r) ==
    LET j == req[r].jti
    IN /\ Faults
       /\ At(r, "claim")
       /\ ~ Consumed(j)
       /\ claim' = [claim EXCEPT ![j] = [ip |-> req[r].ip, age |-> "fresh"]]
       /\ Finish(r)
       /\ UNCHANGED <<store, tok, delivered, expired, rows, report>>

\* is_benign_duplicate_rotation
Benign(j, ip) == Grace /\ claim[j].age = "fresh" /\ claim[j].ip = ip

\* Mutant of RefreshDuplicate: a duplicate inside the grace window is served too.
RefreshDuplicateServed(r) ==
    /\ At(r, "duplicate")
    /\ Goto(r, IF Benign(req[r].jti, req[r].ip) THEN "recheck" ELSE "reuse_bump")
    /\ UNCHANGED <<store, tok, delivered, expired, claim, rows, report>>

RefreshDuplicate(r) ==
    /\ At(r, "duplicate")
    /\ IF Benign(req[r].jti, req[r].ip) THEN Finish(r) ELSE Goto(r, "reuse_bump")
    /\ UNCHANGED <<store, tok, delivered, expired, claim, rows, report>>

\* Mutant of ReuseBump: reuse is only reported.
ReuseBumpSkipped(r) ==
    /\ At(r, "reuse_bump")
    /\ Finish(r)
    /\ UNCHANGED <<store, tok, delivered, expired, claim, rows, report>>

\* handle_reuse_detected -> revoke_chain_for_user
ReuseBump(r) ==
    /\ At(r, "reuse_bump")
    /\ \/ BumpChain(req[r].chain) /\ Goto(r, "reuse_row")
       \/ BumpChainUnconfirmed(req[r].chain) /\ Finish(r)
    /\ UNCHANGED <<tok, delivered, expired, claim, rows, report>>

\* revoke_by_chain_id: scalar_one_or_none raises when the chain has two rows,
\* and session_service.revoke_chain swallows that.
ReuseRow(r) ==
    LET ids == RowsOfChain(req[r].chain)
    IN /\ At(r, "reuse_row")
       /\ \/ Delete(IF Cardinality(ids) = 1 THEN ids ELSE {})
          \/ Faults /\ UNCHANGED rows
       /\ ended' = ended \cup {req[r].chain}
       /\ Finish(r)
       /\ UNCHANGED <<store, tok, delivered, expired, claim, loggedOut>>

\* Mutant of RefreshMint: no recheck, and the child is stamped afresh.
RefreshMintAdopts(r, n) ==
    LET j == req[r].jti
        c == tok[j].chain
    IN /\ At(r, "recheck")
       /\ tok[n].chain = None
       /\ tok' = [tok EXCEPT ![n] = [tok[j] EXCEPT !.parent = j, !.chainVer = chainVer[c],
                                                   !.accountVer = accountVer[Owner[c]]]]
       /\ req' = [req EXCEPT ![r] = [@ EXCEPT !.new = n, !.pc = "find_row"]]
       /\ UNCHANGED <<store, delivered, expired, claim, rows, report>>

\* The child carries the versions of the claim, which are its parent's, and is
\* returned only if they are still current.
RefreshMint(r, n) ==
    LET j == req[r].jti
    IN /\ At(r, "recheck")
       /\ Current(j)
       /\ tok[n].chain = None
       /\ tok' = [tok EXCEPT ![n] = [tok[j] EXCEPT !.parent = j]]
       /\ req' = [req EXCEPT ![r] = [@ EXCEPT !.new = n, !.pc = "find_row"]]
       /\ UNCHANGED <<store, delivered, expired, claim, rows, report>>

RefreshStale(r) ==
    /\ At(r, "recheck")
    /\ ~ Current(req[r].jti)
    /\ Finish(r)
    /\ UNCHANGED <<store, tok, delivered, expired, claim, rows, report>>

\* A read fails: 503.  After the claim this leaves the token burned.
RefreshUnavailable(r) ==
    /\ Faults
    /\ req[r].pc \in {"check", "claim", "duplicate", "recheck"}
    /\ Finish(r)
    /\ UNCHANGED <<store, tok, delivered, expired, claim, rows, report>>
-----------------------------------------------------------------------------
(* Moving a session row to the new jti: rotate_session by old jti,          *)
(* rotate_session_by_chain by chain.  SELECT, then UPDATE by primary key.   *)

\* Mutant of RowsFor: the lookup is by user.
RowsForUser(r) == RowsOfUser(Owner[req[r].chain])

RowsFor(r) ==
    IF req[r].op = "refresh" THEN {i \in Jti : rows[i] = req[r].jti}
                             ELSE RowsOfChain(req[r].chain)

FindRow(r) ==
    /\ At(r, "find_row")
    /\ IF Cardinality(RowsFor(r)) = 1
       THEN \E i \in RowsFor(r) : req' = [req EXCEPT ![r] = [@ EXCEPT !.row = i, !.pc = "move_row"]]
       ELSE Goto(r, IF RowsFor(r) = {} THEN "create_row" ELSE "row_error")
    /\ UNCHANGED <<store, tok, delivered, expired, claim, rows, report>>

\* An UPDATE that matches no row raises StaleDataError, which is swallowed.
MoveRow(r) ==
    /\ At(r, "move_row")
    /\ \/ rows' = [rows EXCEPT ![req[r].row] = IF @ = None THEN None ELSE req[r].new]
       \/ Faults /\ UNCHANGED rows
    /\ Respond(r)
    /\ UNCHANGED <<store, tok, expired, claim, report>>

\* Row bookkeeping failed; the tokens are returned regardless.
RowError(r) ==
    /\ At(r, "row_error") \/ (Faults /\ At(r, "find_row"))
    /\ Respond(r)
    /\ UNCHANGED <<store, tok, expired, claim, rows, report>>
-----------------------------------------------------------------------------
(* Logout: session_service.revoke_session_on_logout *)

BeginLogout(r, j) ==
    /\ Presentable(j)
    /\ chainVer[tok[j].chain] < MaxVersion
    /\ Begin(r, "logout", "logout_find", j, tok[j].chain, None, None)
    /\ UNCHANGED <<store, tok, delivered, expired, claim, rows, report>>

ReportLoggedOut(r) == loggedOut' = loggedOut \cup {req[r].chain}

\* No row with this jti (or the lookup raised): nothing to revoke, answer True.
LogoutFind(r) ==
    /\ At(r, "logout_find")
    /\ \/ (\E i \in Jti : rows[i] = req[r].jti) /\ Goto(r, "logout_bump") /\ UNCHANGED loggedOut
       \/ (Faults \/ \A i \in Jti : rows[i] # req[r].jti) /\ ReportLoggedOut(r) /\ Finish(r)
    /\ UNCHANGED <<store, tok, delivered, expired, claim, rows, ended>>

LogoutBump(r) ==
    /\ At(r, "logout_bump")
    /\ \/ BumpChain(req[r].chain) /\ Goto(r, "logout_delete")
       \/ BumpChainUnconfirmed(req[r].chain) /\ Finish(r)
    /\ UNCHANGED <<tok, delivered, expired, claim, rows, report>>

LogoutDelete(r) ==
    /\ At(r, "logout_delete")
    /\ \/ Delete({i \in Jti : rows[i] = req[r].jti})
       \/ Faults /\ UNCHANGED rows
    /\ ReportLoggedOut(r)
    /\ Finish(r)
    /\ UNCHANGED <<store, tok, delivered, expired, claim, ended>>
-----------------------------------------------------------------------------
(* Logout-all: revoke_all_tokens_for_user, also run by password reset,      *)
(* administrative password change, deactivation, deletion and purge.        *)

BeginLogoutAll(r, j) ==
    /\ Presentable(j)
    /\ accountVer[Owner[tok[j].chain]] < MaxVersion
    /\ Begin(r, "logout_all", "all_bump", j, tok[j].chain, None, None)
    /\ UNCHANGED <<store, tok, delivered, expired, claim, rows, report>>

LogoutAllBump(r) ==
    LET u == Owner[req[r].chain]
    IN /\ At(r, "all_bump")
       /\ \/ BumpAccount(u) /\ Goto(r, "all_rows")
          \/ BumpAccountUnconfirmed(u) /\ Finish(r)
       /\ UNCHANGED <<tok, delivered, expired, claim, rows, report>>

LogoutAllRows(r) ==
    /\ At(r, "all_rows")
    /\ \/ Delete(RowsOfUser(Owner[req[r].chain]))
       \/ Faults /\ UNCHANGED rows
    /\ Finish(r)
    /\ UNCHANGED <<store, tok, delivered, expired, claim, report>>
-----------------------------------------------------------------------------
(* Manage Sessions: session_revoke_handler and revoke_one_session *)

\* The caller's token j is verified, row i is the caller's own and belongs to
\* another chain than the one the caller is using.
BeginRevoke(r, j, i) ==
    /\ Presentable(j)
    /\ Current(j)
    /\ rows[i] # None
    /\ Owner[tok[rows[i]].chain] = Owner[tok[j].chain]
    /\ tok[rows[i]].chain # tok[j].chain
    /\ chainVer[tok[rows[i]].chain] < MaxVersion
    /\ Begin(r, "revoke", "revoke_bump", j, tok[rows[i]].chain, i, None)
    /\ UNCHANGED <<store, tok, delivered, expired, claim, rows, report>>

\* Mutant of RevokeBump: the row is deleted without bumping the chain.
RevokeBumpSkipped(r) ==
    /\ At(r, "revoke_bump")
    /\ Goto(r, "revoke_delete")
    /\ UNCHANGED <<store, tok, delivered, expired, claim, rows, report>>

\* Mutant of RevokeBump: one session is revoked by signing the account out.
RevokeBumpAccount(r) ==
    /\ At(r, "revoke_bump")
    /\ BumpAccount(Owner[req[r].chain])
    /\ Goto(r, "revoke_delete")
    /\ UNCHANGED <<tok, delivered, expired, claim, rows, report>>

RevokeBump(r) ==
    /\ At(r, "revoke_bump")
    /\ \/ BumpChain(req[r].chain) /\ Goto(r, "revoke_delete")
       \/ BumpChainUnconfirmed(req[r].chain) /\ Finish(r)
    /\ UNCHANGED <<tok, delivered, expired, claim, rows, report>>

\* revoke_by_id finds no row when another request has deleted it: 404.
RevokeDelete(r) ==
    /\ At(r, "revoke_delete")
    /\ \/ /\ Delete({req[r].row})
          /\ ended' = IF rows[req[r].row] = None THEN ended ELSE ended \cup {req[r].chain}
       \/ Faults /\ UNCHANGED <<rows, ended>>
    /\ Finish(r)
    /\ UNCHANGED <<store, tok, delivered, expired, claim, loggedOut>>
-----------------------------------------------------------------------------
(* Password change on PUT /users/me: every other session is revoked and the *)
(* chain that changed the password gets fresh tokens.                       *)

BeginPassword(r, j) ==
    /\ Presentable(j)
    /\ Current(j)
    /\ accountVer[Owner[tok[j].chain]] < MaxVersion
    /\ Begin(r, "password", "password_bump", j, tok[j].chain, None, None)
    /\ UNCHANGED <<store, tok, delivered, expired, claim, rows, report>>

\* An unconfirmed bump only sets sessions_revoked: false in the response.
PasswordBump(r) ==
    LET u == Owner[req[r].chain]
    IN /\ At(r, "password_bump")
       /\ \/ BumpAccount(u) /\ Goto(r, "password_rows")
          \/ BumpAccountUnconfirmed(u) /\ Goto(r, "password_mint")
       /\ UNCHANGED <<tok, delivered, expired, claim, rows, report>>

PasswordRows(r) ==
    LET c == req[r].chain
    IN /\ At(r, "password_rows")
       /\ \/ Delete(RowsOfUser(Owner[c]) \ RowsOfChain(c))
          \/ Faults /\ UNCHANGED rows
       /\ Goto(r, "password_mint")
       /\ UNCHANGED <<store, tok, delivered, expired, claim, report>>

PasswordMint(r, n) ==
    /\ At(r, "password_mint")
    /\ MintCurrent(r, n, "password", "find_row")
    /\ UNCHANGED <<store, delivered, expired, claim, rows, report>>

\* The version read fails while minting: login answers "invalid credentials",
\* the password change answers 500 with its own session already revoked.
MintUnavailable(r) ==
    /\ Faults
    /\ req[r].pc \in {"login_mint", "password_mint"}
    /\ Finish(r)
    /\ UNCHANGED <<store, tok, delivered, expired, claim, rows, report>>
-----------------------------------------------------------------------------
(* Time *)

\* The duplicate grace window of a claim closes.
GraceElapses(j) ==
    /\ claim[j].age = "fresh"
    /\ claim' = [claim EXCEPT ![j].age = "late"]
    /\ UNCHANGED <<store, tok, delivered, expired, rows, req, report>>

Expire(j) ==
    /\ "expiry" \in Op
    /\ j \in Minted \ expired
    /\ expired' = expired \cup {j}
    /\ UNCHANGED <<store, tok, delivered, claim, rows, req, report>>

\* purge_consumed_refresh_tokens
SweepClaims ==
    /\ \E j \in expired : Consumed(j)
    /\ claim' = [j \in Jti |-> IF j \in expired THEN NoClaim ELSE claim[j]]
    /\ UNCHANGED <<store, tok, delivered, expired, rows, req, report>>

\* purge_expired_sessions
SweepRows ==
    /\ \E i \in Jti : rows[i] \in expired
    /\ Delete({i \in Jti : rows[i] \in expired})
    /\ UNCHANGED <<store, tok, delivered, expired, claim, req, report>>
-----------------------------------------------------------------------------
\* What the server does by itself for an accepted request.
Serve(r) ==
    \/ \E n \in Jti : LoginMint(r, n) \/ RefreshMint(r, n) \/ PasswordMint(r, n)
    \/ CreateRow(r) \/ FindRow(r) \/ MoveRow(r) \/ RowError(r) \/ MintUnavailable(r)
    \/ RefreshCheck(r) \/ RefreshClaim(r) \/ RefreshClaimLost(r) \/ RefreshDuplicate(r)
    \/ ReuseBump(r) \/ ReuseRow(r) \/ RefreshStale(r) \/ RefreshUnavailable(r)
    \/ LogoutFind(r) \/ LogoutBump(r) \/ LogoutDelete(r)
    \/ LogoutAllBump(r) \/ LogoutAllRows(r)
    \/ RevokeBump(r) \/ RevokeDelete(r)
    \/ PasswordBump(r) \/ PasswordRows(r)

Arrive(r) ==
    \/ \E c \in Chain : BeginLogin(r, c)
    \/ \E j \in Jti, ip \in IP : BeginRefresh(r, j, ip)
    \/ \E j \in Jti : BeginLogout(r, j) \/ BeginLogoutAll(r, j) \/ BeginPassword(r, j)
    \/ \E j, i \in Jti : BeginRevoke(r, j, i)

Time ==
    \/ \E j \in Jti : GraceElapses(j) \/ Expire(j)
    \/ SweepClaims \/ SweepRows

Next ==
    \/ \E r \in Req : Arrive(r) \/ Serve(r)
    \/ Time

Spec == Init /\ [][Next]_vars

\* asyncio runs every accepted request to its response.
FairSpec == Spec /\ \A r \in Req : WF_vars(Serve(r))
-----------------------------------------------------------------------------
(* Properties *)

Pc == {"idle", "login_mint", "create_row", "check", "claim", "duplicate", "reuse_bump",
       "reuse_row", "recheck", "find_row", "move_row", "row_error", "logout_find",
       "logout_bump", "logout_delete", "all_bump", "all_rows", "revoke_bump",
       "revoke_delete", "password_bump", "password_rows", "password_mint"}

Token == [chain : Chain \cup {None}, accountVer : Nat, chainVer : Nat,
          parent : Jti \cup {None}, origin : {"login", "password"}]
Claim == [ip : IP \cup {None}, age : {"fresh", "late"}]
Request == [op : Operation \cup {"none"}, pc : Pc, jti : Jti \cup {None},
            chain : Chain \cup {None}, new : Jti \cup {None},
            row : Jti \cup {None}, ip : IP \cup {None}]

TypeOK ==
    /\ accountVer \in [User -> Nat]
    /\ chainVer \in [Chain -> Nat]
    /\ tok \in [Jti -> Token]
    /\ delivered \in SUBSET Jti
    /\ expired \in SUBSET Jti
    /\ claim \in [Jti -> Claim]
    /\ rows \in [Jti -> Jti \cup {None}]
    /\ req \in [Req -> Request]
    /\ ended \in SUBSET Chain
    /\ loggedOut \in SUBSET Chain

\* Rotation is single-use: two pairs are never minted from one refresh token,
\* however many requests present it at once (claim_jti_for_rotation).  The
\* exception is a token that expires while two requests hold it decoded: the
\* nightly sweep may remove the first one's claim before the second claims.
SingleUse ==
    \A a, b \in Minted :
        a # b /\ tok[a].parent # None /\ tok[a].parent = tok[b].parent
            => tok[a].parent \in expired

\* A rotated token is never better than the token it came from: no interleaving
\* of a refresh with logout, logout-all, revoke or reuse detection makes a child
\* valid whose parent has been revoked (the recheck before rotate_session).
ChildDiesWithParent ==
    \A j \in Minted : tok[j].parent # None /\ Current(j) => Current(tok[j].parent)

\* A chain that Manage Sessions or reuse detection has reported revoked has no
\* valid token left, unless a password change re-issued tokens for it.
EndedMeansDead ==
    \A j \in Minted : tok[j].chain \in ended /\ Current(j) => tok[j].origin = "password"

\* The same without the exception.
RevokedChainStaysDead == \A j \in Minted : tok[j].chain \in ended => ~ Current(j)

\* Once a token has been invalidated nothing makes it valid again.
RevocationIsFinal == [][\A j \in Minted : ~ Current(j) => ~ Current(j)']_vars

\* A token stops being valid only by a request against its own chain, or by an
\* account-wide revocation of its owner: revoking one session never signs out
\* another (chain-scoped reuse detection and logout).
OnlyTargetsAreRevoked ==
    [][\A j \in Minted : Current(j) /\ ~ Current(j)' =>
          \E r \in Req :
             \/ /\ req[r].pc \in {"reuse_bump", "logout_bump", "revoke_bump"}
                /\ req[r].chain = tok[j].chain
             \/ /\ req[r].pc \in {"all_bump", "password_bump"}
                /\ Owner[req[r].chain] = Owner[tok[j].chain]]_vars

\* A session row never changes the login it stands for (chain_id is untouched
\* by every rotation), and no two rows show the same token.
RowsKeepTheirChain ==
    /\ \A i \in Jti : rows[i] # None => tok[rows[i]].chain = tok[i].chain
    /\ \A i, k \in Jti : i # k /\ rows[i] # None => rows[i] # rows[k]

\* A logout that answered session_revoked: true has ended its session.
LogoutEndsSession == \A j \in Minted : tok[j].chain \in loggedOut => ~ Current(j)

\* A chain as its owner sees it: live while some token of it is accepted.
SessionOf(c) ==
    IF ~ Used(c) THEN "none"
    ELSE IF \E j \in Minted : tok[j].chain = c /\ Current(j) THEN "live" ELSE "ended"

Lifecycle == INSTANCE SessionLifecycle WITH
                Chain <- Chain, Renewal <- "password" \in Op,
                session <- [c \in Chain |-> SessionOf(c)]

\* Rotation, duplicate detection, row bookkeeping and failed requests are all
\* invisible: the token core implements the life cycle of a session, in which
\* an ended session stays ended.
ImplementsLifecycle == Lifecycle!Spec

\* Detected reuse always ends in a dead chain.
ReuseEndsChain ==
    \A r \in Req, c \in Chain :
        (req[r].pc = "reuse_bump" /\ req[r].chain = c)
            ~> (\A j \in Minted : tok[j].chain = c => ~ Current(j))
=============================================================================
