-------------------------- MODULE TokenVersionStore --------------------------
(***************************************************************************)
(* auth/token_logic/token_version_store.py: the Postgres table             *)
(* token_revocation_versions, with                                         *)
(*   - _bump_version as the transaction it is: a SELECT ... FOR UPDATE     *)
(*     whose snapshot, lock wait and re-read are separate moments, then    *)
(*     INSERT ... ON CONFLICT DO UPDATE and COMMIT;                        *)
(*   - scripts/migrate_token_revocation_identifiers.py, which moves rows   *)
(*     from the legacy key format to the v2 format while bumps run;        *)
(*   - jwt_service.is_current_version, which reads the account version     *)
(*     and the chain version in two separate transactions.                 *)
(*                                                                         *)
(* A version of 0 stands for "no row": every reader defaults to 0 and no   *)
(* statement of the code ever writes a version below 1.                    *)
(***************************************************************************)
EXTENDS Naturals, FiniteSets

CONSTANTS
    Tx,             \* concurrent _bump_version transactions
    LegacyStart,    \* [Key -> Nat]: legacy rows present when the code is deployed
    MaxVersion      \* bound: no bump starts once a version has reached it

Key    == {"account", "chain"}
Format == {"v2", "legacy"}

ASSUME LegacyStartAssumption == LegacyStart \in [Key -> Nat]
ASSUME MaxVersionAssumption  == MaxVersion \in Nat

VARIABLES
    row,        \* row[k][f]: the committed version under key k in format f
    tx,         \* tx[t]: the state of bump transaction t
    batch,      \* the legacy keys the migration holds FOR UPDATE
    token,      \* the versions stamped in one token
    check,      \* is_current_version running on that token; history: the versions
                \* at its first read
    completed   \* history: bumps of k that returned True

vars == <<row, tx, batch, token, check, completed>>

Larger(a, b) == IF a >= b THEN a ELSE b

\* _get_version / get_versions: the larger of the two formats.
Effective(k) == Larger(row[k]["v2"], row[k]["legacy"])

Exists(k, f) == row[k][f] > 0

\* The row locks of transaction t: what SELECT ... FOR UPDATE returned.
Holds(t, k, f) ==
    tx[t].pc = "locked" /\ tx[t].key = k /\ f \in tx[t].saw

LockedByOther(t, k, f) ==
    \/ \E u \in Tx \ {t} : Holds(u, k, f)
    \/ f = "legacy" /\ k \in batch

Idle == [pc |-> "idle", key |-> "account", saw |-> {}, current |-> 0]

Versions == [k \in Key |-> Effective(k)]

NoCheck == [pc |-> "idle", seen |-> [k \in Key |-> 0]]

Init ==
    /\ row = [k \in Key |-> [f \in Format |-> IF f = "legacy" THEN LegacyStart[k] ELSE 0]]
    /\ tx = [t \in Tx |-> Idle]
    /\ batch = {}
    /\ token = [k \in Key |-> LegacyStart[k]]
    /\ check = NoCheck
    /\ completed = [k \in Key |-> 0]
-----------------------------------------------------------------------------
(* _bump_version *)

\* The SELECT takes its snapshot: only rows committed by now can be returned.
BumpSelect(t, k) ==
    /\ tx[t].pc = "idle"
    /\ Effective(k) < MaxVersion
    /\ tx' = [tx EXCEPT ![t] = [pc |-> "waiting", key |-> k,
                                saw |-> {f \in Format : Exists(k, f)}, current |-> 0]]
    /\ UNCHANGED <<row, batch, token, check, completed>>

\* FOR UPDATE obtains its locks.  A row deleted during the wait is dropped from
\* the result, one updated during the wait is read again, and one inserted
\* during the wait stays invisible.
BumpLock(t) ==
    LET k == tx[t].key
        result == {f \in tx[t].saw : Exists(k, f)}
    IN /\ tx[t].pc = "waiting"
       /\ \A f \in result : ~ LockedByOther(t, k, f)
       /\ tx' = [tx EXCEPT ![t] =
                   [pc |-> "locked", key |-> k, saw |-> result,
                    current |-> Larger(IF "v2" \in result THEN row[k]["v2"] ELSE 0,
                                       IF "legacy" \in result THEN row[k]["legacy"] ELSE 0)]]
       /\ UNCHANGED <<row, batch, token, check, completed>>

\* Mutant of Upserted: the conflict arm takes EXCLUDED.version.
UpsertedFromRead(old, current) == current + 1

\* GREATEST(version + 1, EXCLUDED.version) on conflict, EXCLUDED.version otherwise.
Upserted(old, current) ==
    IF old = 0 THEN current + 1 ELSE Larger(old + 1, current + 1)

\* The commit may succeed while its acknowledgement is lost: the version is
\* raised and bump_*_version still returns False.
BumpCommit(t) ==
    LET k == tx[t].key
    IN /\ tx[t].pc = "locked"
       /\ ~ LockedByOther(t, k, "v2")
       /\ row' = [row EXCEPT ![k]["v2"] = Upserted(row[k]["v2"], tx[t].current)]
       /\ \/ completed' = [completed EXCEPT ![k] = @ + 1]
          \/ UNCHANGED completed
       /\ tx' = [tx EXCEPT ![t] = Idle]
       /\ UNCHANGED <<batch, token, check>>

\* The connection is lost, or Postgres picks the transaction as a deadlock
\* victim: its locks go and the bump returns False.
BumpFail(t) ==
    /\ tx[t].pc # "idle"
    /\ tx' = [tx EXCEPT ![t] = Idle]
    /\ UNCHANGED <<row, batch, token, check, completed>>
-----------------------------------------------------------------------------
(* migrate --apply *)

Unlocked(k) == \A t \in Tx : ~ Holds(t, k, "legacy")

\* One batch: FOR UPDATE SKIP LOCKED over the legacy rows.  LIMIT makes a batch
\* any non-empty part of the rows that are not locked.
MigrateSelect ==
    /\ batch = {}
    /\ \E b \in SUBSET {k \in Key : Exists(k, "legacy") /\ Unlocked(k)} :
          b # {} /\ batch' = b
    /\ UNCHANGED <<row, tx, token, check, completed>>

\* Mutant of MigrateCommit: the legacy version overwrites the v2 row.
MigrateCommitOverwrites ==
    /\ batch # {}
    /\ row' = [k \in Key |->
                 IF k \in batch
                 THEN [f \in Format |-> IF f = "v2" THEN row[k]["legacy"] ELSE 0]
                 ELSE row[k]]
    /\ batch' = {}
    /\ UNCHANGED <<tx, token, check, completed>>

MigrateCommit ==
    /\ batch # {}
    /\ \A k \in batch, t \in Tx : ~ Holds(t, k, "v2")
    /\ row' = [k \in Key |->
                 IF k \in batch
                 THEN [f \in Format |-> IF f = "v2" THEN Larger(row[k]["v2"], row[k]["legacy"]) ELSE 0]
                 ELSE row[k]]
    /\ batch' = {}
    /\ UNCHANGED <<tx, token, check, completed>>

\* The script is killed or aborted inside a batch: nothing is committed.
MigrateAbort ==
    /\ batch # {}
    /\ batch' = {}
    /\ UNCHANGED <<row, tx, token, check, completed>>
-----------------------------------------------------------------------------
(* Minting and checking a token *)

\* get_versions: one statement, so one snapshot of both keys.
Mint ==
    /\ check.pc \in {"idle", "accepted"}
    /\ token' = Versions
    /\ check' = NoCheck
    /\ UNCHANGED <<row, tx, batch, completed>>

\* Mutant of CheckAccount: the account version is not compared.
CheckAccountSkipped ==
    /\ check.pc \in {"idle", "accepted"}
    /\ check' = [pc |-> "chain", seen |-> Versions]
    /\ UNCHANGED <<row, tx, batch, token, completed>>

CheckAccount ==
    /\ check.pc \in {"idle", "accepted"}
    /\ check' = IF token["account"] = Effective("account")
                THEN [pc |-> "chain", seen |-> Versions]
                ELSE NoCheck
    /\ UNCHANGED <<row, tx, batch, token, completed>>

CheckChain ==
    /\ check.pc = "chain"
    /\ check' = IF token["chain"] = Effective("chain")
                THEN [pc |-> "accepted", seen |-> check.seen]
                ELSE NoCheck
    /\ UNCHANGED <<row, tx, batch, token, completed>>

Next ==
    \/ \E t \in Tx, k \in Key : BumpSelect(t, k)
    \/ \E t \in Tx : BumpLock(t) \/ BumpCommit(t) \/ BumpFail(t)
    \/ MigrateSelect \/ MigrateCommit \/ MigrateAbort
    \/ Mint \/ CheckAccount \/ CheckChain

Spec == Init /\ [][Next]_vars
-----------------------------------------------------------------------------
(* Properties *)

Transaction == [pc : {"idle", "waiting", "locked"}, key : Key,
                saw : SUBSET Format, current : Nat]

TypeOK ==
    /\ row \in [Key -> [Format -> Nat]]
    /\ tx \in [Tx -> Transaction]
    /\ batch \in SUBSET Key
    /\ token \in [Key -> Nat]
    /\ check \in [pc : {"idle", "chain", "accepted"}, seen : [Key -> Nat]]
    /\ completed \in [Key -> Nat]

\* No two concurrent bumps collapse into one: every bump that returned True
\* has raised the version readers see by at least one, whatever the migration
\* and the other bumps did meanwhile (_bump_version's GREATEST arm).
NoLostBump == \A k \in Key : Effective(k) >= LegacyStart[k] + completed[k]

\* is_current_version reads two versions at two moments, yet it accepts only a
\* token that matched both versions at the first of them.
AcceptedWasCurrent == check.pc = "accepted" => token = check.seen

\* Seen through Effective, the store is a counter per key that only bumps: the
\* migration, the lock waits and failed bumps are invisible to readers.
Counter == INSTANCE RevocationCounter WITH
              Key <- Key, version <- Versions

ImplementsCounter == Counter!Spec
=============================================================================
