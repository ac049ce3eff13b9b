---------------------------- MODULE PasswordReset ----------------------------
(***************************************************************************)
(* Resetting a forgotten password, for one account:                        *)
(*   - the reset link in Valkey: the account's active link id and the      *)
(*     link's single-use marker, changed together by three Lua scripts     *)
(*     (auth/password_logic/password_reset_service.py);                    *)
(*   - the reservation and the failure counter that guard a confirmation   *)
(*     (begin/finish/release_protected_action of login_protection_service, *)
(*     as password_reset_confirm_handler.py calls them);                   *)
(*   - the password write and the account-wide revocation that follows it, *)
(*     with logins in flight (login_service.py).                           *)
(*                                                                         *)
(* One action is one awaited call to Valkey or Postgres.  Links are        *)
(* numbered in the order they were stored, so the newest is the largest.   *)
(***************************************************************************)
EXTENDS Naturals, FiniteSets

CONSTANTS
    Req,            \* request slots
    Password,       \* the passwords people type
    Weak,           \* those that fail validate_password_strength
    First,          \* the password the account starts with
    MaxLinks,       \* bound: links that may be requested
    MaxAttempts,    \* MAX_FAILED_LOGIN_ATTEMPTS
    Faults,         \* the stores whose calls may fail
    Stall           \* a confirmation may outlive ACTION_RESERVATION_TIME

ASSUME PasswordAssumption == Weak \subseteq Password /\ First \in Password
ASSUME BoundAssumption    == MaxLinks \in Nat /\ MaxAttempts \in Nat
ASSUME FlagAssumption     == Faults \subseteq {"valkey", "postgres"} /\ Stall \in BOOLEAN

Link == 1..MaxLinks
NoLink == 0

VARIABLES
    issued,     \* how many links have been stored and mailed
    active,     \* password_reset_active:<email>
    marker,     \* the links with a password_reset:<jti> key
    expired,    \* how many links have expired: they do so in the order of issue
    reserved,   \* the ...:inflight key: "free" or "held"; it names no owner
    failed,     \* the failed-attempt counter, 0 when absent
    password,   \* users.hashed_password
    accountVer, \* the account's revocation version
    req,        \* the requests
    redeemed,   \* history: password writes made through each link
    writes,     \* history: password writes so far
    confirmed,  \* history: the latest write whose answer was sessions_revoked: true
    sessions    \* sessions minted: the version they carry, and the writes before them

vars == <<issued, active, marker, expired, reserved, failed, password, accountVer,
          req, redeemed, writes, confirmed, sessions>>

link == <<issued, active, marker, expired>>
guard == <<reserved, failed>>
account == <<password, accountVer>>
history == <<redeemed, writes, confirmed, sessions>>

NoReq == [pc |-> "idle", link |-> NoLink, pw |-> First, write |-> 0]

Init ==
    /\ issued = 0
    /\ active = NoLink
    /\ marker = {}
    /\ expired = 0
    /\ reserved = "free"
    /\ failed = 0
    /\ password = First
    /\ accountVer = 0
    /\ req = [r \in Req |-> NoReq]
    /\ redeemed = [l \in Link |-> 0]
    /\ writes = 0
    /\ confirmed = 0
    /\ sessions = {}

At(r, pc) == req[r].pc = pc
Goto(r, pc) == req' = [req EXCEPT ![r].pc = pc]
Finish(r) == req' = [req EXCEPT ![r] = NoReq]

Expired(l) == l <= expired

Redeemable(l) == active = l /\ l \in marker
-----------------------------------------------------------------------------
(* send_reset_email / store_reset_token: the newest link replaces the       *)
(* account's active one; an older link keeps its marker.                    *)

SendResetEmail ==
    /\ issued < MaxLinks
    /\ issued' = issued + 1
    /\ active' = issued + 1
    /\ marker' = marker \cup {issued + 1}
    /\ UNCHANGED <<expired, guard, account, req, history>>
-----------------------------------------------------------------------------
(* handle_password_reset_confirm *)

BeginConfirm(r, l, p) ==
    /\ At(r, "idle")
    /\ l <= issued
    /\ ~ Expired(l)
    /\ req' = [req EXCEPT ![r] = [pc |-> "lock_check", link |-> l, pw |-> p, write |-> 0]]
    /\ UNCHANGED <<link, guard, account, history>>

\* begin_protected_action: is_locked ...
LockCheck(r) ==
    /\ At(r, "lock_check")
    /\ IF failed >= MaxAttempts THEN Finish(r) ELSE Goto(r, "reserve")
    /\ UNCHANGED <<link, guard, account, history>>

\* ... then SET NX EX.
Reserve(r) ==
    /\ At(r, "reserve")
    /\ IF reserved = "free" THEN Goto(r, "consume") ELSE Finish(r)
    /\ reserved' = "held"
    /\ UNCHANGED <<link, failed, account, history>>

\* 503; the key may have been set all the same, for its TTL.
ReserveFails(r) ==
    /\ "valkey" \in Faults
    /\ \/ At(r, "lock_check") /\ UNCHANGED reserved
       \/ At(r, "reserve") /\ reserved' \in {reserved, "held"}
    /\ Finish(r)
    /\ UNCHANGED <<link, failed, account, history>>

\* Mutant of ConsumeLink: the marker is only read, as before the Lua script.
ConsumeLinkPlainGet(r) ==
    LET l == req[r].link
    IN /\ At(r, "consume")
       /\ IF ~ Expired(l) /\ Redeemable(l)
          THEN Goto(r, IF req[r].pw \in Weak THEN "restore" ELSE "lookup")
          ELSE Goto(r, "finish_fail")
       /\ UNCHANGED <<link, guard, account, history>>

\* _CONSUME_RESET_TOKEN_SCRIPT, after the JWT has been decoded a second time.
ConsumeLink(r) ==
    LET l == req[r].link
    IN /\ At(r, "consume")
       /\ IF ~ Expired(l) /\ Redeemable(l)
          THEN /\ active' = NoLink
               /\ marker' = marker \ {l}
               /\ Goto(r, IF req[r].pw \in Weak THEN "restore" ELSE "lookup")
          ELSE /\ Goto(r, "finish_fail")
               /\ UNCHANGED <<active, marker>>
       /\ UNCHANGED <<issued, expired, guard, account, history>>

\* The script ran, or not, and the reply was lost.
ConsumeFails(r) ==
    LET l == req[r].link
    IN /\ "valkey" \in Faults
       /\ At(r, "consume")
       /\ \/ Redeemable(l) /\ active' = NoLink /\ marker' = marker \ {l}
          \/ UNCHANGED <<active, marker>>
       /\ Goto(r, "finish_fail")
       /\ UNCHANGED <<issued, expired, guard, account, history>>

\* The user row is read; a password equal to the current one is refused.
LookUpUser(r) ==
    /\ At(r, "lookup")
    /\ Goto(r, IF req[r].pw = password THEN "restore" ELSE "write")
    /\ UNCHANGED <<link, guard, account, history>>

\* The hashing gate is full: AppError 503.
Overload(r) ==
    /\ At(r, "lookup") \/ At(r, "write")
    /\ Goto(r, "restore_raise")
    /\ UNCHANGED <<link, guard, account, history>>

WritePassword(r) ==
    /\ At(r, "write")
    /\ password' = req[r].pw
    /\ redeemed' = [redeemed EXCEPT ![req[r].link] = @ + 1]
    /\ writes' = writes + 1
    /\ req' = [req EXCEPT ![r] = [@ EXCEPT !.pc = "revoke", !.write = writes + 1]]
    /\ UNCHANGED <<link, guard, accountVer, confirmed, sessions>>

\* Any other exception ends in (False, None): the link is not restored, and a
\* write whose commit went through is reported as a failed reset.
DatabaseFails(r) ==
    /\ "postgres" \in Faults
    /\ \/ At(r, "lookup") /\ UNCHANGED <<password, redeemed, writes>>
       \/ /\ At(r, "write")
          /\ \/ UNCHANGED <<password, redeemed, writes>>
             \/ /\ password' = req[r].pw
                /\ redeemed' = [redeemed EXCEPT ![req[r].link] = @ + 1]
                /\ writes' = writes + 1
    /\ Goto(r, "finish_fail")
    /\ UNCHANGED <<link, guard, accountVer, confirmed, sessions>>

\* Mutant of RevokeSessions: the answer does not wait for the bump.
RevokeSessionsSkipped(r) ==
    /\ At(r, "revoke")
    /\ confirmed' = IF req[r].write > confirmed THEN req[r].write ELSE confirmed
    /\ Goto(r, "finish_ok")
    /\ UNCHANGED <<link, guard, account, redeemed, writes, sessions>>

\* revoke_all_tokens_for_user; unconfirmed, it only sets sessions_revoked: false.
RevokeSessions(r) ==
    /\ At(r, "revoke")
    /\ \/ /\ accountVer' = accountVer + 1
          /\ confirmed' = IF req[r].write > confirmed THEN req[r].write ELSE confirmed
       \/ "postgres" \in Faults /\ accountVer' \in {accountVer, accountVer + 1} /\ UNCHANGED confirmed
    /\ Goto(r, "finish_ok")
    /\ UNCHANGED <<link, guard, password, redeemed, writes, sessions>>

\* _RESTORE_RESET_TOKEN_SCRIPT: unless another link is active.
RestoreLink(r) ==
    LET l == req[r].link
    IN /\ At(r, "restore") \/ At(r, "restore_raise")
       /\ \/ /\ ~ Expired(l)
             /\ active \in {NoLink, l}
             /\ active' = l
             /\ marker' = marker \cup {l}
          \/ /\ Expired(l) \/ active \notin {NoLink, l} \/ "valkey" \in Faults
             /\ UNCHANGED <<active, marker>>
       /\ Goto(r, IF At(r, "restore") THEN "finish_fail" ELSE "final_release")
       /\ UNCHANGED <<issued, expired, guard, account, history>>

\* finish_protected_action: reset_failed_attempts or check_and_record_action.
\* (LoginProtection takes the counter's INCR and EXPIRE apart.)
FinishAction(r) ==
    /\ \/ At(r, "finish_ok") /\ failed' = 0
       \/ At(r, "finish_fail") /\ failed' = failed + 1
       \/ "valkey" \in Faults /\ (At(r, "finish_ok") \/ At(r, "finish_fail")) /\ UNCHANGED failed
    /\ Goto(r, "release")
    /\ UNCHANGED <<link, reserved, account, history>>

\* release_protected_action inside finish_protected_action ...
Release(r) ==
    /\ At(r, "release")
    /\ reserved' = "free" \/ ("valkey" \in Faults /\ UNCHANGED reserved)
    /\ Goto(r, "final_release")
    /\ UNCHANGED <<link, failed, account, history>>

\* ... and again in the handler's finally block.
FinalRelease(r) ==
    /\ At(r, "final_release")
    /\ reserved' = "free" \/ ("valkey" \in Faults /\ UNCHANGED reserved)
    /\ Finish(r)
    /\ UNCHANGED <<link, failed, account, history>>
-----------------------------------------------------------------------------
(* login_service.login, as far as it races the reset *)

BeginLogin(r, p) ==
    /\ At(r, "idle")
    /\ req' = [req EXCEPT ![r] = [pc |-> "verify", link |-> NoLink, pw |-> p, write |-> 0]]
    /\ UNCHANGED <<link, guard, account, history>>

\* The row is read, then its hash compared while other requests run.
LoginVerify(r) ==
    /\ At(r, "verify")
    /\ IF req[r].pw = password THEN Goto(r, "mint") ELSE Finish(r)
    /\ UNCHANGED <<link, guard, account, history>>

LoginMint(r) ==
    /\ At(r, "mint")
    /\ sessions' = sessions \cup {[ver |-> accountVer, write |-> writes]}
    /\ Finish(r)
    /\ UNCHANGED <<link, guard, account, redeemed, writes, confirmed>>
-----------------------------------------------------------------------------
(* Time *)

JwtExpires ==
    /\ expired < issued
    /\ expired' = expired + 1
    /\ UNCHANGED <<issued, active, marker, guard, account, req, history>>

\* The keys carry the JWT's remaining lifetime as their TTL.
KeysExpire(l) ==
    /\ l \in marker
    /\ Expired(l)
    /\ marker' = marker \ {l}
    /\ active' = IF active = l THEN NoLink ELSE active
    /\ UNCHANGED <<issued, expired, guard, account, req, history>>

Mutating == {"consume", "lookup", "write", "revoke", "restore", "restore_raise"}
Reserving == Mutating \cup {"finish_ok", "finish_fail", "release", "final_release"}

ReservationLapses ==
    /\ reserved = "held"
    /\ Stall \/ \A r \in Req : req[r].pc \notin Reserving
    /\ reserved' = "free"
    /\ UNCHANGED <<link, failed, account, req, history>>

LockoutEnds ==
    /\ failed > 0
    /\ failed' = 0
    /\ UNCHANGED <<link, reserved, account, req, history>>
-----------------------------------------------------------------------------
Serve(r) ==
    \/ LockCheck(r) \/ Reserve(r) \/ ReserveFails(r) \/ ConsumeLink(r) \/ ConsumeFails(r)
    \/ LookUpUser(r) \/ Overload(r) \/ WritePassword(r) \/ DatabaseFails(r) \/ RevokeSessions(r)
    \/ RestoreLink(r) \/ FinishAction(r) \/ Release(r) \/ FinalRelease(r)
    \/ LoginVerify(r) \/ LoginMint(r)

Next ==
    \/ SendResetEmail
    \/ \E r \in Req, l \in Link, p \in Password : BeginConfirm(r, l, p)
    \/ \E r \in Req, p \in Password : BeginLogin(r, p)
    \/ \E r \in Req : Serve(r)
    \/ JwtExpires \/ \E l \in Link : KeysExpire(l)
    \/ ReservationLapses \/ LockoutEnds

Spec == Init /\ [][Next]_vars
-----------------------------------------------------------------------------
(* Properties *)

Pc == Reserving \cup {"idle", "lock_check", "reserve", "verify", "mint"}

Request == [pc : Pc, link : Link \cup {NoLink}, pw : Password, write : Nat]

TypeOK ==
    /\ issued \in 0..MaxLinks
    /\ active \in Link \cup {NoLink}
    /\ marker \in SUBSET Link
    /\ expired \in 0..MaxLinks
    /\ reserved \in {"free", "held"}
    /\ failed \in Nat
    /\ password \in Password
    /\ accountVer \in Nat
    /\ req \in [Req -> Request]
    /\ redeemed \in [Link -> Nat]
    /\ writes \in Nat
    /\ confirmed \in Nat
    /\ sessions \in SUBSET [ver : Nat, write : Nat]

\* "only one concurrent request can win": one link writes the password at most
\* once and is never redeemable again afterwards, although every failed
\* confirmation may put it back and the reservation may be shared or lost.
LinkRedeemedOnce ==
    \A l \in Link : redeemed[l] <= 1 /\ (Redeemable(l) => redeemed[l] = 0)

\* A reset that answered sessions_revoked: true has ended every session minted
\* before its password was written, also when two resets overlap.
ResetEndsOlderSessions ==
    \A s \in sessions : s.write < confirmed => s.ver # accountVer

\* "serialize concurrent ... confirmations": one at a time between the
\* reservation and its release.
ConfirmationsAreSerialized ==
    \A q, r \in Req : req[q].pc \in Mutating /\ req[r].pc \in Mutating => q = r
=============================================================================
