--------------------------- MODULE LoginProtection ---------------------------
(***************************************************************************)
(* The brute-force counters around POST /auth/login, for one account:      *)
(*   - the lockout counter of each account/source-IP pair                  *)
(*     (auth/security/login_protection_service.py);                        *)
(*   - the account's failure counter over all sources and the slot that    *)
(*     lets one attempt through per cool-down                              *)
(*     (auth/security/account_cooldown_service.py);                        *)
(*   - login_handler.handle_login, which calls them around the password    *)
(*     check.                                                              *)
(*                                                                         *)
(* One action is one Valkey command.  A counter is created by INCR and     *)
(* gets its TTL by a second command, EXPIRE.                               *)
(***************************************************************************)
EXTENDS Naturals, FiniteSets

CONSTANTS
    Req,            \* request slots
    IP,             \* client addresses
    MaxAttempts,    \* MAX_FAILED_LOGIN_ATTEMPTS_PER_IP
    Threshold,      \* LOGIN_ACCOUNT_FAILURE_THRESHOLD
    Faults,         \* Valkey commands may fail
    MaxFailures     \* bound: no login starts once the account has this many failures

ASSUME LimitAssumption == MaxAttempts \in Nat \ {0} /\ Threshold \in Nat /\ MaxFailures \in Nat
ASSUME FlagAssumption  == Faults \in BOOLEAN

VARIABLES
    lock,       \* login_lock:account_ip:<account, ip>, 0 when absent
    lockTtl,    \* the addresses whose lockout counter has a TTL
    failures,   \* login_account_failures:<account>, 0 when absent
    failTtl,    \* "set" or "none"
    slot,       \* login_account_cooldown:<account>: "free" or "taken"
    req,        \* the requests
    valkey,     \* history: "steady" until a Valkey command is lost, "lossy" after
    refused     \* history: failures that INCR let through as 401 in the current
                \* life of the pair's counter

loginVars == <<lock, lockTtl, failures, failTtl, slot, req, valkey, refused>>

pair == <<lock, lockTtl, refused>>
cooldown == <<failures, failTtl, slot>>

Outcome == {"right", "wrong"}

NoReq(i) == [pc |-> "idle", ip |-> i, pw |-> "wrong"]

LoginInit ==
    /\ lock = [i \in IP |-> 0]
    /\ lockTtl = {}
    /\ failures = 0
    /\ failTtl = "none"
    /\ slot = "free"
    /\ req \in [Req -> {NoReq(i) : i \in IP}]
    /\ valkey = "steady"
    /\ refused = [i \in IP |-> 0]

At(r, pc) == req[r].pc = pc
Goto(r, pc) == req' = [req EXCEPT ![r].pc = pc]
Finish(r) == req' = [req EXCEPT ![r].pc = "idle"]

\* A command fails, or takes effect and its reply is lost.
Lost == Faults /\ valkey' = "lossy"

\* DEL and expiry remove the counter together with its TTL.
DropLock(i) ==
    /\ lock' = [lock EXCEPT ![i] = 0]
    /\ lockTtl' = lockTtl \ {i}
    /\ refused' = [refused EXCEPT ![i] = 0]
-----------------------------------------------------------------------------
(* Before the password check *)

BeginLogin(r, i, p) ==
    /\ At(r, "idle")
    /\ failures < MaxFailures
    /\ req' = [req EXCEPT ![r] = [pc |-> "lock_check", ip |-> i, pw |-> p]]
    /\ UNCHANGED <<pair, cooldown, valkey>>

\* is_locked: 429 when locked.
LockCheck(r) ==
    /\ At(r, "lock_check")
    /\ IF lock[req[r].ip] >= MaxAttempts THEN Finish(r) ELSE Goto(r, "cooldown_get")
    /\ UNCHANGED <<pair, cooldown, valkey>>

\* cooldown_remaining_seconds: below the threshold the attempt may proceed ...
CooldownGet(r) ==
    /\ At(r, "cooldown_get")
    /\ Goto(r, IF failures < Threshold THEN "compare" ELSE "cooldown_set")
    /\ UNCHANGED <<pair, cooldown, valkey>>

\* ... above it, only by taking the slot (SET NX EX); 429 otherwise.
CooldownSet(r) ==
    /\ At(r, "cooldown_set")
    /\ IF slot = "free" THEN Goto(r, "compare") ELSE Finish(r)
    /\ slot' = "taken"
    /\ UNCHANGED <<pair, failures, failTtl, valkey>>

\* 503 from a failed command here; from the hashing gate in Compare.
CheckFails(r) ==
    /\ Lost
    /\ req[r].pc \in {"lock_check", "cooldown_get", "cooldown_set", "success_check"}
    /\ slot' \in IF At(r, "cooldown_set") THEN {slot, "taken"} ELSE {slot}
    /\ Finish(r)
    /\ UNCHANGED <<pair, failures, failTtl>>

\* login_service.login
Compare(r) ==
    /\ At(r, "compare")
    /\ \/ Goto(r, IF req[r].pw = "right" THEN "cooldown_reset" ELSE "count_failure")
       \/ Finish(r)
    /\ UNCHANGED <<pair, cooldown, valkey>>
-----------------------------------------------------------------------------
(* After a right password *)

\* account_cooldown_service.reset: one DEL of both keys.
CooldownReset(r) ==
    /\ At(r, "cooldown_reset")
    /\ \/ failures' = 0 /\ failTtl' = "none" /\ slot' = "free" /\ UNCHANGED valkey
       \/ Lost /\ UNCHANGED cooldown
    /\ Goto(r, "success_check")
    /\ UNCHANGED pair

\* check_and_record_action(success=True): is_locked again, 429 when locked ...
SuccessCheck(r) ==
    /\ At(r, "success_check")
    /\ IF lock[req[r].ip] >= MaxAttempts THEN Finish(r) ELSE Goto(r, "lock_reset")
    /\ UNCHANGED <<pair, cooldown, valkey>>

\* ... otherwise reset_failed_attempts and 200.
LockReset(r) ==
    /\ At(r, "lock_reset")
    /\ (DropLock(req[r].ip) /\ UNCHANGED valkey) \/ (Lost /\ UNCHANGED pair)
    /\ Finish(r)
    /\ UNCHANGED cooldown
-----------------------------------------------------------------------------
(* After a wrong password *)

\* account_cooldown_service.record_failure: INCR, then EXPIRE for the first.
CountFailure(r) ==
    /\ At(r, "count_failure")
    /\ \/ /\ failures' = failures + 1
          /\ Goto(r, IF failures = 0 THEN "failure_expire" ELSE "count_attempt")
          /\ UNCHANGED valkey
       \/ Lost /\ failures' \in {failures, failures + 1} /\ Goto(r, "count_attempt")
    /\ UNCHANGED <<pair, failTtl, slot>>

FailureExpire(r) ==
    /\ At(r, "failure_expire")
    /\ \/ failTtl' = (IF failures > 0 THEN "set" ELSE failTtl) /\ UNCHANGED valkey
       \/ Lost /\ UNCHANGED failTtl
    /\ Goto(r, "count_attempt")
    /\ UNCHANGED <<pair, failures, slot>>

\* Mutant of CountAttempt: the answer relies on the earlier is_locked.
CountAttemptUnchecked(r) ==
    LET i == req[r].ip
    IN /\ At(r, "count_attempt")
       /\ lock' = [lock EXCEPT ![i] = @ + 1]
       /\ refused' = [refused EXCEPT ![i] = @ + 1]
       /\ IF lock[i] = 0 THEN Goto(r, "lock_expire") ELSE Finish(r)
       /\ UNCHANGED <<lockTtl, cooldown, valkey>>

\* check_and_record_action(success=False): INCR decides between 401 and 429.
CountAttempt(r) ==
    LET i == req[r].ip
    IN /\ At(r, "count_attempt")
       /\ lock' = [lock EXCEPT ![i] = @ + 1]
       /\ refused' = [refused EXCEPT ![i] = IF lock[i] < MaxAttempts THEN @ + 1 ELSE @]
       /\ IF lock[i] = 0 THEN Goto(r, "lock_expire") ELSE Finish(r)
       /\ UNCHANGED <<lockTtl, cooldown, valkey>>

\* INCR failed, with or without effect: 429.
CountAttemptFails(r) ==
    /\ Lost
    /\ At(r, "count_attempt")
    /\ lock' \in {lock, [lock EXCEPT ![req[r].ip] = @ + 1]}
    /\ Finish(r)
    /\ UNCHANGED <<lockTtl, refused, cooldown>>

\* Mutant of LockExpire: only a lockout that is already complete gets its TTL.
LockExpireWhenLocked(r) ==
    LET i == req[r].ip
    IN /\ At(r, "lock_expire")
       /\ lockTtl' = IF lock[i] >= MaxAttempts THEN lockTtl \cup {i} ELSE lockTtl
       /\ Finish(r)
       /\ UNCHANGED <<lock, refused, cooldown, valkey>>

\* EXPIRE of a key that is gone does nothing; a failure is logged only.
LockExpire(r) ==
    LET i == req[r].ip
    IN /\ At(r, "lock_expire")
       /\ \/ lockTtl' = (IF lock[i] > 0 THEN lockTtl \cup {i} ELSE lockTtl) /\ UNCHANGED valkey
          \/ Lost /\ UNCHANGED lockTtl
       /\ Finish(r)
       /\ UNCHANGED <<lock, refused, cooldown>>
-----------------------------------------------------------------------------
(* Time *)

LockLapses(i) ==
    /\ i \in lockTtl
    /\ DropLock(i)
    /\ UNCHANGED <<cooldown, req, valkey>>

FailuresLapse ==
    /\ failTtl = "set"
    /\ failures' = 0
    /\ failTtl' = "none"
    /\ UNCHANGED <<pair, slot, req, valkey>>

SlotLapses ==
    /\ slot = "taken"
    /\ slot' = "free"
    /\ UNCHANGED <<pair, failures, failTtl, req, valkey>>
-----------------------------------------------------------------------------
Serve(r) ==
    \/ LockCheck(r) \/ CooldownGet(r) \/ CooldownSet(r) \/ CheckFails(r) \/ Compare(r)
    \/ CooldownReset(r) \/ SuccessCheck(r) \/ LockReset(r)
    \/ CountFailure(r) \/ FailureExpire(r)
    \/ CountAttempt(r) \/ CountAttemptFails(r) \/ LockExpire(r)

LoginNext ==
    \/ \E r \in Req, i \in IP, p \in Outcome : BeginLogin(r, i, p)
    \/ \E r \in Req : Serve(r)
    \/ \E i \in IP : LockLapses(i)
    \/ FailuresLapse \/ SlotLapses

LoginSpec == LoginInit /\ [][LoginNext]_loginVars

\* asyncio serves every accepted request, and Valkey expires every key that
\* has a TTL.
FairSpec ==
    /\ LoginSpec
    /\ \A r \in Req : WF_loginVars(Serve(r))
    /\ \A i \in IP : WF_loginVars(LockLapses(i))
    /\ WF_loginVars(FailuresLapse) /\ WF_loginVars(SlotLapses)
-----------------------------------------------------------------------------
(* Properties *)

Pc == {"idle", "lock_check", "cooldown_get", "cooldown_set", "compare", "cooldown_reset",
       "success_check", "lock_reset", "count_failure", "failure_expire", "count_attempt",
       "lock_expire"}

Request == [pc : Pc, ip : IP, pw : Outcome]

\* Counters never go below zero, and only an address in use has a TTL.
LoginTypeOK ==
    /\ lock \in [IP -> Nat]
    /\ lockTtl \in SUBSET IP
    /\ failures \in Nat
    /\ failTtl \in {"none", "set"}
    /\ slot \in {"free", "taken"}
    /\ req \in [Req -> Request]
    /\ valkey \in {"steady", "lossy"}
    /\ refused \in [IP -> Nat]

\* However many wrong attempts are in flight at once, at most MaxAttempts of
\* them are answered 401 in one life of the pair's counter: "concurrent
\* failures against the same key can't both read 'not yet locked'".
BurstIsBounded == \A i \in IP : refused[i] <= MaxAttempts

\* A counter that exists has a TTL, or the request that created it is about to
\* set one.
CountersHaveTtl ==
    /\ \A i \in IP : lock[i] > 0 =>
           i \in lockTtl \/ \E r \in Req : req[r].pc = "lock_expire" /\ req[r].ip = i
    /\ failures > 0 =>
           failTtl = "set" \/ \E r \in Req : req[r].pc = "failure_expire"

\* As long as no command has been lost, DEL, expiry and re-creation between
\* INCR and EXPIRE leave no counter behind that would count, or lock, for ever.
CountersExpire == valkey = "steady" => CountersHaveTtl

\* A lockout ends by itself, unless a command has been lost: nothing repairs a
\* counter that missed its EXPIRE.
LockoutsEnd ==
    \A i \in IP : lock[i] >= MaxAttempts ~> lock[i] < MaxAttempts \/ valkey = "lossy"
=============================================================================
