---------------------------- MODULE CounterProofs ----------------------------
(***************************************************************************)
(* Proofs about the counters that sign-ins depend on.  TokenVersionStore:  *)
(* for any number of concurrent bumps and any versions left behind in the  *)
(* legacy key format.  LoginProtection: for every number of requests and   *)
(* addresses and for every limit.                                          *)
(***************************************************************************)
EXTENDS TokenVersionStore, LoginProtection, TLAPS

-----------------------------------------------------------------------------
(* The version store *)

\* FOR UPDATE misses rows inserted after its snapshot, but never a legacy row:
\* nothing inserts one.  So a bump that holds its locks has read a version at
\* least as large as what the legacy row still holds.
ReadsLegacy ==
    \A t \in Tx :
        /\ tx[t].pc = "waiting" /\ "legacy" \notin tx[t].saw => row[tx[t].key]["legacy"] = 0
        /\ tx[t].pc = "locked" => row[tx[t].key]["legacy"] <= tx[t].current

\* The token was minted from versions that have only grown since, and a check
\* that has passed its first read compares with versions no older than those.
CheckOK ==
    /\ \A k \in Key : token[k] <= Effective(k)
    /\ check.pc \in {"chain", "accepted"} =>
         /\ check.seen["account"] = token["account"]
         /\ token["chain"] <= check.seen["chain"]
         /\ check.seen["chain"] <= Effective("chain")
    /\ check.pc = "accepted" => check.seen["chain"] = token["chain"]

StoreInv == TypeOK /\ ReadsLegacy /\ CheckOK /\ NoLostBump

LEMMA LargerFacts ==
  ASSUME NEW a \in Nat, NEW b \in Nat
  PROVE  /\ Larger(a, b) \in Nat /\ Larger(a, b) >= a /\ Larger(a, b) >= b
         /\ Larger(a, b) = a \/ Larger(a, b) = b
  BY DEF Larger

LEMMA EffectiveFacts ==
  ASSUME TypeOK, NEW k \in Key
  PROVE  /\ row[k]["v2"] \in Nat /\ row[k]["legacy"] \in Nat
         /\ Effective(k) \in Nat
         /\ Effective(k) >= row[k]["v2"] /\ Effective(k) >= row[k]["legacy"]
         /\ Effective(k) = row[k]["v2"] \/ Effective(k) = row[k]["legacy"]
  <1>1. row[k]["v2"] \in Nat /\ row[k]["legacy"] \in Nat
    BY DEF TypeOK, Format
  <1> QED
    BY <1>1, LargerFacts DEF Effective

LEMMA InitStoreInv == Init => StoreInv
  <1> SUFFICES ASSUME Init PROVE StoreInv
    OBVIOUS
  <1> USE LegacyStartAssumption DEF Init
  <1>1. TypeOK
    BY DEF TypeOK, Key, Format, Idle, NoCheck, Transaction
  <1>2. \A k \in Key : Effective(k) = LegacyStart[k]
    BY DEF Effective, Larger, Format, Key
  <1>3. ReadsLegacy
    BY DEF ReadsLegacy, Idle
  <1>4. CheckOK
    BY <1>2 DEF CheckOK, NoCheck, Key
  <1>5. NoLostBump
    BY <1>2 DEF NoLostBump
  <1> QED
    BY <1>1, <1>3, <1>4, <1>5 DEF StoreInv
-----------------------------------------------------------------------------
(* What one step does to the rows. *)

\* A bump raises the version readers see; nothing else is visible to them.
LEMMA CommitRaises ==
  ASSUME StoreInv, NEW t \in Tx, BumpCommit(t), NEW k \in Key, tx[t].key = k
  PROVE  /\ row' \in [Key -> [Format -> Nat]]
         /\ Effective(k)' > Effective(k)
         /\ \A i \in Key \ {k} : Effective(i)' = Effective(i)
         /\ \A i \in Key : row'[i]["legacy"] = row[i]["legacy"]
  <1> DEFINE old == row[k]["v2"]
             new == Upserted(old, tx[t].current)
  <1>1. k \in Key /\ tx[t].current \in Nat
    BY DEF StoreInv, TypeOK, Transaction
  <1>2. old \in Nat /\ row[k]["legacy"] \in Nat
    BY <1>1, EffectiveFacts DEF StoreInv
  <1>3. new \in Nat /\ new > old /\ new > tx[t].current
    BY <1>1, <1>2 DEF Upserted, Larger
  <1>4. row' = [row EXCEPT ![k] = [row[k] EXCEPT !["v2"] = new]]
    BY DEF BumpCommit
  <1>5. [row[k] EXCEPT !["v2"] = new] \in [Format -> Nat]
    BY <1>1, <1>3 DEF StoreInv, TypeOK
  <1>6. /\ row'[k]["v2"] = new
        /\ row'[k]["legacy"] = row[k]["legacy"]
        /\ \A i \in Key \ {k} : row'[i] = row[i]
    BY <1>1, <1>4 DEF StoreInv, TypeOK, Format
  <1>7. row[k]["legacy"] <= tx[t].current
    BY DEF StoreInv, ReadsLegacy, BumpCommit
  <1>8. Effective(k) < new
    BY <1>1, <1>2, <1>3, <1>7, EffectiveFacts DEF StoreInv
  <1>9. Effective(k)' > Effective(k)
    <2>1. Effective(k)' = Larger(row'[k]["v2"], row'[k]["legacy"])
      BY DEF Effective
    <2>2. Larger(row'[k]["v2"], row'[k]["legacy"]) >= new
      BY <1>2, <1>3, <1>6 DEF Larger
    <2>3. Effective(k) \in Nat /\ Larger(row'[k]["v2"], row'[k]["legacy"]) \in Nat
      BY <1>2, <1>3, <1>6, EffectiveFacts, LargerFacts DEF StoreInv
    <2> QED
      BY <1>3, <1>8, <2>1, <2>2, <2>3
  <1>10. row' \in [Key -> [Format -> Nat]]
    BY <1>4, <1>5 DEF StoreInv, TypeOK
  <1>11. \A i \in Key \ {k} : Effective(i)' = Effective(i)
    BY <1>6 DEF Effective
  <1> QED
    BY <1>6, <1>9, <1>10, <1>11

\* The migration moves the larger of the two versions and drops the legacy row.
LEMMA MigrationInvisible ==
  ASSUME StoreInv, MigrateCommit
  PROVE  /\ row' \in [Key -> [Format -> Nat]]
         /\ \A k \in Key : Effective(k)' = Effective(k)
         /\ \A k \in Key : row'[k]["legacy"] = 0 \/ row'[k]["legacy"] = row[k]["legacy"]
  <1>1. \A i \in Key : Larger(row[i]["v2"], row[i]["legacy"]) \in Nat
    BY EffectiveFacts DEF StoreInv, Effective
  <1>2. row' \in [Key -> [Format -> Nat]]
    BY <1>1 DEF MigrateCommit, StoreInv, TypeOK
  <1>3. ASSUME NEW k \in Key
        PROVE  /\ Effective(k)' = Effective(k)
               /\ row'[k]["legacy"] = 0 \/ row'[k]["legacy"] = row[k]["legacy"]
    <2>1. CASE k \in batch
      <3>1. row'[k]["v2"] = Effective(k) /\ row'[k]["legacy"] = 0
        BY <2>1 DEF MigrateCommit, Effective, Format
      <3> QED
        BY <1>2, <3>1, EffectiveFacts DEF Effective, Larger, StoreInv
    <2>2. CASE k \notin batch
      BY <1>2, <2>2 DEF MigrateCommit, Effective
    <2> QED
      BY <2>1, <2>2
  <1> QED
    BY <1>2, <1>3

\* The visible effect of a step: at most one version grows.
VisibleStep ==
    \/ \A k \in Key : Effective(k)' = Effective(k)
    \/ \E k \in Key : /\ Effective(k)' > Effective(k)
                      /\ \A i \in Key \ {k} : Effective(i)' = Effective(i)

LEMMA StepIsVisible ==
  ASSUME StoreInv, [Next]_vars
  PROVE  /\ row' \in [Key -> [Format -> Nat]]
         /\ VisibleStep
         /\ \A k \in Key : row'[k]["legacy"] = 0 \/ row'[k]["legacy"] = row[k]["legacy"]
  <1>1. ASSUME NEW t \in Tx, BumpCommit(t)
        PROVE  /\ row' \in [Key -> [Format -> Nat]]
               /\ VisibleStep
               /\ \A k \in Key : row'[k]["legacy"] = row[k]["legacy"]
    <2>1. tx[t].key \in Key
      BY DEF StoreInv, TypeOK, Transaction
    <2>2. PICK k \in Key : tx[t].key = k
      BY <2>1
    <2> QED
      BY <1>1, <2>2, CommitRaises DEF VisibleStep
  <1>2. CASE MigrateCommit
    BY <1>2, MigrationInvisible DEF VisibleStep
  <1>3. CASE UNCHANGED row
    BY <1>3 DEF VisibleStep, Effective, StoreInv, TypeOK
  <1>4. (\E t \in Tx : BumpCommit(t)) \/ MigrateCommit \/ UNCHANGED row
    BY DEF Next, vars, BumpSelect, BumpLock, BumpFail, MigrateSelect, MigrateAbort, Mint,
           CheckAccount, CheckChain
  <1> QED
    BY <1>1, <1>2, <1>3, <1>4
-----------------------------------------------------------------------------
(* The invariant is inductive. *)

LEMMA NextTypeOK == StoreInv /\ [Next]_vars => TypeOK'
  <1> SUFFICES ASSUME StoreInv, [Next]_vars PROVE TypeOK'
    OBVIOUS
  <1>1. row' \in [Key -> [Format -> Nat]]
    BY StepIsVisible
  <1>2. \A k \in Key : Effective(k) \in Nat
    BY EffectiveFacts DEF StoreInv
  <1>3. Versions \in [Key -> Nat]
    BY <1>2 DEF Versions
  <1>4. tx' \in [Tx -> Transaction]
    <2> USE DEF StoreInv, TypeOK
    <2>1. Idle \in Transaction
      BY DEF Idle, Key, Transaction
    <2>2. ASSUME NEW t \in Tx, NEW k \in Key, BumpSelect(t, k) PROVE tx' \in [Tx -> Transaction]
      BY <2>2 DEF BumpSelect, Transaction
    <2>3. ASSUME NEW t \in Tx, BumpLock(t) PROVE tx' \in [Tx -> Transaction]
      <3>1. tx[t].key \in Key /\ tx[t].saw \in SUBSET Format
        BY DEF Transaction
      <3>2. row[tx[t].key]["v2"] \in Nat /\ row[tx[t].key]["legacy"] \in Nat
        BY <3>1, EffectiveFacts
      <3> QED
        BY <2>3, <3>1, <3>2 DEF BumpLock, Larger, Transaction
    <2>4. ASSUME NEW t \in Tx, BumpCommit(t) \/ BumpFail(t) PROVE tx' \in [Tx -> Transaction]
      BY <2>1, <2>4 DEF BumpCommit, BumpFail
    <2>5. CASE UNCHANGED tx
      BY <2>5
    <2> QED
      BY <2>2, <2>3, <2>4, <2>5
      DEF Next, vars, MigrateSelect, MigrateCommit, MigrateAbort, Mint, CheckAccount, CheckChain
  <1>5. batch' \in SUBSET Key
    BY DEF Next, vars, StoreInv, TypeOK, BumpSelect, BumpLock, BumpCommit, BumpFail, MigrateSelect,
           MigrateCommit, MigrateAbort, Mint, CheckAccount, CheckChain
  <1>6. token' \in [Key -> Nat]
    BY <1>3 DEF Next, vars, StoreInv, TypeOK, BumpSelect, BumpLock, BumpCommit, BumpFail, MigrateSelect,
           MigrateCommit, MigrateAbort, Mint, CheckAccount, CheckChain
  <1>7. check' \in [pc : {"idle", "chain", "accepted"}, seen : [Key -> Nat]]
    <2>1. check \in [pc : {"idle", "chain", "accepted"}, seen : [Key -> Nat]]
      BY DEF StoreInv, TypeOK
    <2>2. NoCheck \in [pc : {"idle", "chain", "accepted"}, seen : [Key -> Nat]]
      BY DEF NoCheck
    <2>3. CASE Mint \/ CheckAccount \/ CheckChain
      BY <1>3, <2>1, <2>2, <2>3 DEF Mint, CheckAccount, CheckChain
    <2>4. CASE UNCHANGED check
      BY <2>1, <2>4
    <2> QED
      BY <2>3, <2>4 DEF Next, vars, BumpSelect, BumpLock, BumpCommit, BumpFail, MigrateSelect,
                        MigrateCommit, MigrateAbort
  <1>8. completed' \in [Key -> Nat]
    <2>1. ASSUME NEW t \in Tx, BumpCommit(t) PROVE completed' \in [Key -> Nat]
      <3>1. completed \in [Key -> Nat]
        BY DEF StoreInv, TypeOK
      <3>2. (\E k \in {tx[t].key} : completed' = [completed EXCEPT ![k] = @ + 1]) \/ completed' = completed
        BY <2>1 DEF BumpCommit
      <3> QED
        BY <3>1, <3>2
    <2>2. CASE UNCHANGED completed
      BY <2>2 DEF StoreInv, TypeOK
    <2> QED
      BY <2>1, <2>2 DEF Next, vars, BumpSelect, BumpLock, BumpFail, MigrateSelect,
                        MigrateCommit, MigrateAbort, Mint, CheckAccount, CheckChain
  <1> QED
    BY <1>1, <1>4, <1>5, <1>6, <1>7, <1>8 DEF TypeOK

LEMMA NextReadsLegacy == StoreInv /\ [Next]_vars => ReadsLegacy'
  <1> SUFFICES ASSUME StoreInv, [Next]_vars, NEW t \in Tx
               PROVE  /\ tx'[t].pc = "waiting" /\ "legacy" \notin tx'[t].saw => row'[tx'[t].key]["legacy"] = 0
                      /\ tx'[t].pc = "locked" => row'[tx'[t].key]["legacy"] <= tx'[t].current
    BY DEF ReadsLegacy
  <1>1. \A k \in Key : row'[k]["legacy"] = 0 \/ row'[k]["legacy"] = row[k]["legacy"]
    BY StepIsVisible
  <1>2. TypeOK /\ tx[t] \in Transaction
    BY DEF StoreInv, TypeOK
  <1>3. tx[t].key \in Key /\ tx[t].saw \in SUBSET Format /\ tx[t].current \in Nat
    BY <1>2 DEF Transaction
  <1>4. CASE tx'[t] = tx[t]
    BY <1>1, <1>3, <1>4 DEF StoreInv, ReadsLegacy
  <1>5. ASSUME NEW k \in Key, BumpSelect(t, k)
        PROVE  tx'[t].pc = "waiting" /\ ("legacy" \notin tx'[t].saw => row'[tx'[t].key]["legacy"] = 0)
    <2>1. row[k]["legacy"] \in Nat
      BY <1>2, EffectiveFacts
    <2> QED
      BY <1>2, <1>5, <2>1 DEF BumpSelect, TypeOK, Exists, Format
  <1>6. ASSUME BumpLock(t)
        PROVE  tx'[t].pc = "locked" /\ row'[tx'[t].key]["legacy"] <= tx'[t].current
    <2> DEFINE k == tx[t].key
               result == {f \in tx[t].saw : Exists(k, f)}
    <2>1. row[k]["v2"] \in Nat /\ row[k]["legacy"] \in Nat
      BY <1>2, <1>3, EffectiveFacts
    <2>2. /\ row' = row
          /\ tx'[t].pc = "locked" /\ tx'[t].key = k
          /\ tx'[t].current = Larger(IF "v2" \in result THEN row[k]["v2"] ELSE 0,
                                     IF "legacy" \in result THEN row[k]["legacy"] ELSE 0)
      BY <1>2, <1>6 DEF BumpLock, TypeOK
    <2>3. "legacy" \notin result => row[k]["legacy"] = 0
      BY <1>6, <2>1 DEF BumpLock, StoreInv, ReadsLegacy, Exists
    <2> QED
      BY <2>1, <2>2, <2>3 DEF Larger
  <1>7. CASE tx'[t].pc = "idle"
    BY <1>7
  <1>8. \/ tx'[t] = tx[t]
        \/ \E k \in Key : BumpSelect(t, k)
        \/ BumpLock(t)
        \/ tx'[t].pc = "idle"
    <2> USE DEF TypeOK
    <2>1. ASSUME NEW u \in Tx, NEW k \in Key, BumpSelect(u, k) PROVE u = t \/ tx'[t] = tx[t]
      BY <1>2, <2>1 DEF BumpSelect
    <2>2. ASSUME NEW u \in Tx, BumpLock(u) PROVE u = t \/ tx'[t] = tx[t]
      BY <1>2, <2>2 DEF BumpLock
    <2>3. ASSUME NEW u \in Tx, BumpCommit(u) \/ BumpFail(u) PROVE tx'[t].pc = "idle" \/ tx'[t] = tx[t]
      BY <1>2, <2>3 DEF BumpCommit, BumpFail, Idle
    <2>4. CASE UNCHANGED tx
      BY <2>4
    <2> QED
      BY <2>1, <2>2, <2>3, <2>4
      DEF Next, vars, MigrateSelect, MigrateCommit, MigrateAbort, Mint, CheckAccount, CheckChain
  <1> QED
    BY <1>4, <1>5, <1>6, <1>7, <1>8

LEMMA NextNoLostBump == StoreInv /\ [Next]_vars => NoLostBump'
  <1> SUFFICES ASSUME StoreInv, [Next]_vars, NEW k \in Key
               PROVE  Effective(k)' >= LegacyStart[k] + completed'[k]
    BY DEF NoLostBump
  <1>1. /\ Effective(k) \in Nat /\ Effective(k)' \in Nat
        /\ LegacyStart[k] \in Nat /\ completed[k] \in Nat
        /\ Effective(k) >= LegacyStart[k] + completed[k]
    <2>1. Effective(k)' \in Nat
      <3>1. row'[k]["v2"] \in Nat /\ row'[k]["legacy"] \in Nat
        BY StepIsVisible DEF Format
      <3> QED
        BY <3>1 DEF Effective, Larger
    <2> QED
      BY <2>1, EffectiveFacts, LegacyStartAssumption DEF StoreInv, TypeOK, NoLostBump
  <1>2. ASSUME NEW t \in Tx, BumpCommit(t)
        PROVE  Effective(k)' >= LegacyStart[k] + completed'[k]
    <2>1. PICK i \in Key : tx[t].key = i
      BY DEF StoreInv, TypeOK, Transaction
    <2>2. Effective(i)' > Effective(i) /\ (k # i => Effective(k)' = Effective(k))
      BY <1>2, <2>1, CommitRaises
    <2>3. completed' = [completed EXCEPT ![i] = @ + 1] \/ completed' = completed
      BY <1>2, <2>1 DEF BumpCommit
    <2>4. completed'[k] \in Nat /\ completed'[k] <= completed[k] + 1 /\ (k # i => completed'[k] = completed[k])
      BY <1>1, <2>3 DEF StoreInv, TypeOK
    <2> QED
      BY <1>1, <2>2, <2>4
  <1>3. CASE UNCHANGED completed
    <2>1. Effective(k)' >= Effective(k)
      BY <1>1, StepIsVisible DEF VisibleStep
    <2> QED
      BY <1>1, <1>3, <2>1
  <1> QED
    BY <1>2, <1>3
    DEF Next, vars, BumpSelect, BumpLock, BumpFail, MigrateSelect, MigrateCommit, MigrateAbort,
        Mint, CheckAccount, CheckChain

LEMMA NextCheckOK == StoreInv /\ [Next]_vars => CheckOK'
  <1> SUFFICES ASSUME StoreInv, [Next]_vars PROVE CheckOK'
    OBVIOUS
  <1>1. TypeOK /\ TypeOK'
    BY NextTypeOK DEF StoreInv
  <1>2. \A k \in Key : Effective(k) \in Nat
    BY <1>1, EffectiveFacts
  <1>3. \A k \in Key : /\ Effective(k)' \in Nat
                        /\ Effective(k)' >= Effective(k)
    <2> SUFFICES ASSUME NEW k \in Key PROVE Effective(k)' \in Nat /\ Effective(k)' >= Effective(k)
      OBVIOUS
    <2>1. row'[k]["v2"] \in Nat /\ row'[k]["legacy"] \in Nat
      BY <1>1 DEF TypeOK, Format
    <2>2. Effective(k)' \in Nat
      BY <2>1 DEF Effective, Larger
    <2> QED
      BY <1>2, <2>2, StepIsVisible DEF VisibleStep
  <1>4. /\ token["account"] \in Nat /\ token["chain"] \in Nat
        /\ check.seen["account"] \in Nat /\ check.seen["chain"] \in Nat
        /\ "account" \in Key /\ "chain" \in Key
        /\ \A k \in Key : token[k] \in Nat
    BY <1>1 DEF TypeOK, Key
  <1>5. CASE UNCHANGED <<token, check>>
    <2>1. \A k \in Key : token'[k] <= Effective(k)'
      BY <1>2, <1>3, <1>4, <1>5 DEF StoreInv, CheckOK
    <2>2. check'.pc \in {"chain", "accepted"} =>
            /\ check'.seen["account"] = token'["account"]
            /\ token'["chain"] <= check'.seen["chain"]
            /\ check'.seen["chain"] <= Effective("chain")'
      BY <1>2, <1>3, <1>4, <1>5 DEF StoreInv, CheckOK
    <2> QED
      BY <1>5, <2>1, <2>2 DEF StoreInv, CheckOK
  <1>6. CASE Mint
    <2>1. \A k \in Key : token'[k] = Effective(k) /\ Effective(k)' = Effective(k)
      BY <1>6 DEF Mint, Versions, Effective
    <2> QED
      BY <1>2, <1>6, <2>1 DEF CheckOK, Mint, NoCheck
  <1>7. CASE CheckAccount
    <2>1. \A k \in Key : token'[k] = token[k] /\ Effective(k)' = Effective(k)
      BY <1>7 DEF CheckAccount, Effective
    <2>2. Versions["account"] = Effective("account") /\ Versions["chain"] = Effective("chain")
      BY <1>4 DEF Versions
    <2>3. CASE token["account"] = Effective("account")
      <3>1. check'.pc = "chain" /\ check'.seen = Versions /\ token' = token
        BY <1>7, <2>3 DEF CheckAccount
      <3> QED
        BY <1>2, <1>4, <2>1, <2>2, <2>3, <3>1 DEF StoreInv, CheckOK
    <2>4. CASE token["account"] # Effective("account")
      BY <1>2, <1>7, <2>1, <2>4 DEF CheckAccount, StoreInv, CheckOK, NoCheck
    <2> QED
      BY <2>3, <2>4
  <1>8. CASE CheckChain
    <2>1. \A k \in Key : token'[k] = token[k] /\ Effective(k)' = Effective(k)
      BY <1>8 DEF CheckChain, Effective
    <2>2. CASE token["chain"] = Effective("chain")
      <3>1. check'.pc = "accepted" /\ check'.seen = check.seen /\ token' = token /\ check.pc = "chain"
        BY <1>8, <2>2 DEF CheckChain
      <3> QED
        BY <1>2, <1>4, <2>1, <2>2, <3>1 DEF StoreInv, CheckOK
    <2>3. CASE token["chain"] # Effective("chain")
      BY <1>2, <1>8, <2>1, <2>3 DEF CheckChain, StoreInv, CheckOK, NoCheck
    <2> QED
      BY <2>2, <2>3
  <1> QED
    BY <1>5, <1>6, <1>7, <1>8
    DEF Next, vars, BumpSelect, BumpLock, BumpCommit, BumpFail, MigrateSelect, MigrateCommit, MigrateAbort

LEMMA StoreInvariant == Spec => []StoreInv
  <1>1. StoreInv /\ [Next]_vars => StoreInv'
    BY NextTypeOK, NextReadsLegacy, NextCheckOK, NextNoLostBump DEF StoreInv
  <1> QED
    BY <1>1, InitStoreInv, PTL DEF Spec
-----------------------------------------------------------------------------
(* Theorems *)

\* The type invariant of the revocation store.
THEOREM StoreTypeCorrect == Spec => []TypeOK
  <1>1. StoreInv => TypeOK
    BY DEF StoreInv
  <1> QED
    BY <1>1, StoreInvariant, PTL

\* Every bump that returned True has raised the version, whatever ran beside it.
THEOREM BumpsAreNotLost == Spec => []NoLostBump
  <1>1. StoreInv => NoLostBump
    BY DEF StoreInv
  <1> QED
    BY <1>1, StoreInvariant, PTL

\* The two reads of is_current_version accept only what one read would have.
THEOREM TwoReadsSuffice == Spec => []AcceptedWasCurrent
  <1>1. StoreInv => AcceptedWasCurrent
    <2> SUFFICES ASSUME StoreInv, check.pc = "accepted" PROVE token = check.seen
      BY DEF AcceptedWasCurrent
    <2>1. token["account"] = check.seen["account"] /\ token["chain"] = check.seen["chain"]
      BY DEF StoreInv, CheckOK
    <2>2. token \in [Key -> Nat] /\ check.seen \in [Key -> Nat]
      BY DEF StoreInv, TypeOK
    <2> QED
      BY <2>1, <2>2 DEF Key
  <1> QED
    BY <1>1, StoreInvariant, PTL

\* The store implements a counter per key that only bumps.
THEOREM RefinesCounter == Spec => ImplementsCounter
  <1>1. Init => Counter!Init
    <2> SUFFICES ASSUME Init PROVE Versions \in [Key -> Nat]
      BY DEF Counter!Init
    <2>1. \A k \in Key : Effective(k) \in Nat
      BY InitStoreInv, EffectiveFacts DEF StoreInv
    <2> QED
      BY <2>1 DEF Versions
  <1>2. StoreInv /\ [Next]_vars => [Counter!Next]_Versions
    <2> SUFFICES ASSUME StoreInv, [Next]_vars PROVE Counter!Next \/ UNCHANGED Versions
      OBVIOUS
    <2>1. VisibleStep
      BY StepIsVisible
    <2>2. CASE \A k \in Key : Effective(k)' = Effective(k)
      BY <2>2 DEF Versions
    <2>3. ASSUME NEW k \in Key, Effective(k)' > Effective(k),
                 \A i \in Key \ {k} : Effective(i)' = Effective(i)
          PROVE  Counter!Bump(k)
      <3>1. row'[k]["v2"] \in Nat /\ row'[k]["legacy"] \in Nat
        BY StepIsVisible DEF Format
      <3>2. Effective(k)' \in Nat
        BY <3>1 DEF Effective, Larger
      <3>3. \A i \in Key : Versions'[i] = Effective(i)' /\ Versions[i] = Effective(i)
        BY DEF Versions
      <3>4. Versions' = [Versions EXCEPT ![k] = Versions'[k]]
        BY <2>3, <3>3 DEF Versions
      <3> QED
        BY <2>3, <3>2, <3>3, <3>4 DEF Counter!Bump
    <2> QED
      BY <2>1, <2>2, <2>3 DEF VisibleStep, Counter!Next
  <1> QED
    BY <1>1, <1>2, StoreInvariant, PTL DEF Spec, ImplementsCounter, Counter!Spec

-----------------------------------------------------------------------------
(* The counters of failed logins *)

LEMMA GotoFacts ==
  ASSUME req \in [Req -> Request], NEW r \in Req, NEW pc \in Pc, Goto(r, pc)
  PROVE  /\ req' \in [Req -> Request]
         /\ \A q \in Req \ {r} : req'[q] = req[q]
         /\ req'[r].pc = pc
         /\ req'[r].ip = req[r].ip
  BY DEF Goto, Request

LEMMA FinishFacts ==
  ASSUME req \in [Req -> Request], NEW r \in Req, Finish(r)
  PROVE  /\ req' \in [Req -> Request]
         /\ \A q \in Req \ {r} : req'[q] = req[q]
         /\ req'[r].pc = "idle"
  BY DEF Finish, Request, Pc

LEMMA BeginFacts ==
  ASSUME req \in [Req -> Request], NEW r \in Req, NEW i \in IP, NEW p \in Outcome,
         req' = [req EXCEPT ![r] = [pc |-> "lock_check", ip |-> i, pw |-> p]]
  PROVE  /\ req' \in [Req -> Request]
         /\ \A q \in Req \ {r} : req'[q] = req[q]
         /\ req'[r].pc = "lock_check"
  BY DEF Request, Pc
-----------------------------------------------------------------------------
(* Their types *)

LEMMA InitLoginTypeOK == LoginInit => LoginTypeOK
  BY DEF LoginInit, LoginTypeOK, Request, NoReq, Pc, Outcome

LEMMA NextLoginTypeOK ==
  ASSUME LoginTypeOK, [LoginNext]_loginVars
  PROVE  LoginTypeOK'
  <1> USE DEF Pc, At
  <1>1. ASSUME NEW r \in Req, NEW i \in IP, NEW p \in Outcome, BeginLogin(r, i, p)
        PROVE  LoginTypeOK'
    BY <1>1, BeginFacts
    DEF BeginLogin, LoginTypeOK, DropLock, Lost, pair, cooldown
  <1>2. ASSUME NEW r \in Req, LockCheck(r)
        PROVE  LoginTypeOK'
    BY <1>2, GotoFacts, FinishFacts
    DEF LockCheck, LoginTypeOK, DropLock, Lost, pair, cooldown
  <1>3. ASSUME NEW r \in Req, CooldownGet(r)
        PROVE  LoginTypeOK'
    BY <1>3, GotoFacts
    DEF CooldownGet, LoginTypeOK, DropLock, Lost, pair, cooldown
  <1>4. ASSUME NEW r \in Req, CooldownSet(r)
        PROVE  LoginTypeOK'
    BY <1>4, GotoFacts, FinishFacts
    DEF CooldownSet, LoginTypeOK, DropLock, Lost, pair, cooldown
  <1>5. ASSUME NEW r \in Req, CheckFails(r)
        PROVE  LoginTypeOK'
    BY <1>5, FinishFacts
    DEF CheckFails, LoginTypeOK, DropLock, Lost, pair, cooldown
  <1>6. ASSUME NEW r \in Req, Compare(r)
        PROVE  LoginTypeOK'
    BY <1>6, GotoFacts, FinishFacts
    DEF Compare, LoginTypeOK, DropLock, Lost, pair, cooldown
  <1>7. ASSUME NEW r \in Req, CooldownReset(r)
        PROVE  LoginTypeOK'
    BY <1>7, GotoFacts
    DEF CooldownReset, LoginTypeOK, DropLock, Lost, pair, cooldown
  <1>8. ASSUME NEW r \in Req, SuccessCheck(r)
        PROVE  LoginTypeOK'
    BY <1>8, GotoFacts, FinishFacts
    DEF SuccessCheck, LoginTypeOK, DropLock, Lost, pair, cooldown
  <1>9. ASSUME NEW r \in Req, LockReset(r)
        PROVE  LoginTypeOK'
    BY <1>9, FinishFacts
    DEF LockReset, LoginTypeOK, DropLock, Lost, pair, cooldown
  <1>10. ASSUME NEW r \in Req, CountFailure(r)
        PROVE  LoginTypeOK'
    BY <1>10, GotoFacts
    DEF CountFailure, LoginTypeOK, DropLock, Lost, pair, cooldown
  <1>11. ASSUME NEW r \in Req, FailureExpire(r)
        PROVE  LoginTypeOK'
    BY <1>11, GotoFacts
    DEF FailureExpire, LoginTypeOK, DropLock, Lost, pair, cooldown
  <1>12. ASSUME NEW r \in Req, CountAttempt(r)
        PROVE  LoginTypeOK'
    <2>1. lock' \in [IP -> Nat] /\ refused' \in [IP -> Nat]
      BY <1>12 DEF CountAttempt, LoginTypeOK, Request
    <2>2. req' \in [Req -> Request]
      BY <1>12, GotoFacts, FinishFacts DEF CountAttempt, LoginTypeOK
    <2> QED
      BY <1>12, <2>1, <2>2 DEF CountAttempt, LoginTypeOK, Lost, cooldown
  <1>13. ASSUME NEW r \in Req, CountAttemptFails(r)
        PROVE  LoginTypeOK'
    BY <1>13, FinishFacts
    DEF CountAttemptFails, LoginTypeOK, DropLock, Lost, pair, cooldown
  <1>14. ASSUME NEW r \in Req, LockExpire(r)
        PROVE  LoginTypeOK'
    <2>1. lockTtl' \in SUBSET IP
      BY <1>14 DEF LockExpire, LoginTypeOK, Request
    <2> QED
      BY <1>14, <2>1, FinishFacts DEF LockExpire, LoginTypeOK, Lost, cooldown
  <1>15. ASSUME NEW i \in IP, LockLapses(i)
        PROVE  LoginTypeOK'
    BY <1>15
    DEF LockLapses, LoginTypeOK, DropLock, Lost, pair, cooldown
  <1>16. ASSUME FailuresLapse
        PROVE  LoginTypeOK'
    BY <1>16
    DEF FailuresLapse, LoginTypeOK, DropLock, Lost, pair, cooldown
  <1>17. ASSUME SlotLapses
        PROVE  LoginTypeOK'
    BY <1>17
    DEF SlotLapses, LoginTypeOK, DropLock, Lost, pair, cooldown
  <1>18. CASE UNCHANGED loginVars
    BY <1>18 DEF loginVars, LoginTypeOK, DropLock, Lost, pair, cooldown
  <1> QED
    BY <1>1, <1>2, <1>3, <1>4, <1>5, <1>6, <1>7, <1>8, <1>9,
       <1>10, <1>11, <1>12, <1>13, <1>14, <1>15, <1>16, <1>17, <1>18 DEF LoginNext, Serve

\* TypeOK holds in every reachable state, whatever Valkey commands fail.
THEOREM LoginTypeCorrect == LoginSpec => []LoginTypeOK
  <1>1. LoginInit => LoginTypeOK
    BY InitLoginTypeOK
  <1>2. LoginTypeOK /\ [LoginNext]_loginVars => LoginTypeOK'
    BY NextLoginTypeOK
  <1> QED
    BY <1>1, <1>2, PTL DEF LoginSpec
-----------------------------------------------------------------------------
(* The burst bound *)

\* Every failure answered 401 is counted, and none is answered 401 past the
\* limit.
RefusedAreCounted == \A i \in IP : refused[i] <= lock[i] /\ refused[i] <= MaxAttempts

LEMMA InitRefused == LoginInit => RefusedAreCounted
  BY LimitAssumption DEF LoginInit, RefusedAreCounted

LEMMA NextRefused ==
  ASSUME LoginTypeOK, RefusedAreCounted, [LoginNext]_loginVars
  PROVE  RefusedAreCounted'
  <1> USE DEF Pc, At
  <1>1. ASSUME NEW r \in Req, NEW i \in IP, NEW p \in Outcome, BeginLogin(r, i, p)
        PROVE  RefusedAreCounted'
    BY <1>1, BeginFacts, LimitAssumption
    DEF BeginLogin, LoginTypeOK, Request, RefusedAreCounted, DropLock, Lost, pair, cooldown
  <1>2. ASSUME NEW r \in Req, LockCheck(r)
        PROVE  RefusedAreCounted'
    BY <1>2, GotoFacts, FinishFacts, LimitAssumption
    DEF LockCheck, LoginTypeOK, Request, RefusedAreCounted, DropLock, Lost, pair, cooldown
  <1>3. ASSUME NEW r \in Req, CooldownGet(r)
        PROVE  RefusedAreCounted'
    BY <1>3, GotoFacts, LimitAssumption
    DEF CooldownGet, LoginTypeOK, Request, RefusedAreCounted, DropLock, Lost, pair, cooldown
  <1>4. ASSUME NEW r \in Req, CooldownSet(r)
        PROVE  RefusedAreCounted'
    BY <1>4, GotoFacts, FinishFacts, LimitAssumption
    DEF CooldownSet, LoginTypeOK, Request, RefusedAreCounted, DropLock, Lost, pair, cooldown
  <1>5. ASSUME NEW r \in Req, CheckFails(r)
        PROVE  RefusedAreCounted'
    BY <1>5, FinishFacts, LimitAssumption
    DEF CheckFails, LoginTypeOK, Request, RefusedAreCounted, DropLock, Lost, pair, cooldown
  <1>6. ASSUME NEW r \in Req, Compare(r)
        PROVE  RefusedAreCounted'
    BY <1>6, GotoFacts, FinishFacts, LimitAssumption
    DEF Compare, LoginTypeOK, Request, RefusedAreCounted, DropLock, Lost, pair, cooldown
  <1>7. ASSUME NEW r \in Req, CooldownReset(r)
        PROVE  RefusedAreCounted'
    BY <1>7, GotoFacts, LimitAssumption
    DEF CooldownReset, LoginTypeOK, Request, RefusedAreCounted, DropLock, Lost, pair, cooldown
  <1>8. ASSUME NEW r \in Req, SuccessCheck(r)
        PROVE  RefusedAreCounted'
    BY <1>8, GotoFacts, FinishFacts, LimitAssumption
    DEF SuccessCheck, LoginTypeOK, Request, RefusedAreCounted, DropLock, Lost, pair, cooldown
  <1>9. ASSUME NEW r \in Req, LockReset(r)
        PROVE  RefusedAreCounted'
    BY <1>9, FinishFacts, LimitAssumption
    DEF LockReset, LoginTypeOK, Request, RefusedAreCounted, DropLock, Lost, pair, cooldown
  <1>10. ASSUME NEW r \in Req, CountFailure(r)
        PROVE  RefusedAreCounted'
    BY <1>10, GotoFacts, LimitAssumption
    DEF CountFailure, LoginTypeOK, Request, RefusedAreCounted, DropLock, Lost, pair, cooldown
  <1>11. ASSUME NEW r \in Req, FailureExpire(r)
        PROVE  RefusedAreCounted'
    BY <1>11, GotoFacts, LimitAssumption
    DEF FailureExpire, LoginTypeOK, Request, RefusedAreCounted, DropLock, Lost, pair, cooldown
  <1>12. ASSUME NEW r \in Req, CountAttempt(r)
        PROVE  RefusedAreCounted'
    BY <1>12, GotoFacts, FinishFacts, LimitAssumption
    DEF CountAttempt, LoginTypeOK, Request, RefusedAreCounted, DropLock, Lost, pair, cooldown
  <1>13. ASSUME NEW r \in Req, CountAttemptFails(r)
        PROVE  RefusedAreCounted'
    <2>1. \A i \in IP : lock'[i] \in {lock[i], lock[i] + 1}
      BY <1>13 DEF CountAttemptFails, LoginTypeOK, Request
    <2>2. \A i \in IP : lock[i] \in Nat /\ refused[i] \in Nat
      BY DEF LoginTypeOK
    <2>3. refused' = refused
      BY <1>13 DEF CountAttemptFails
    <2> QED
      BY <2>1, <2>2, <2>3, LimitAssumption DEF RefusedAreCounted
  <1>14. ASSUME NEW r \in Req, LockExpire(r)
        PROVE  RefusedAreCounted'
    BY <1>14, FinishFacts, LimitAssumption
    DEF LockExpire, LoginTypeOK, Request, RefusedAreCounted, DropLock, Lost, pair, cooldown
  <1>15. ASSUME NEW i \in IP, LockLapses(i)
        PROVE  RefusedAreCounted'
    BY <1>15, LimitAssumption
    DEF LockLapses, LoginTypeOK, Request, RefusedAreCounted, DropLock, Lost, pair, cooldown
  <1>16. ASSUME FailuresLapse
        PROVE  RefusedAreCounted'
    BY <1>16, LimitAssumption
    DEF FailuresLapse, LoginTypeOK, Request, RefusedAreCounted, DropLock, Lost, pair, cooldown
  <1>17. ASSUME SlotLapses
        PROVE  RefusedAreCounted'
    BY <1>17, LimitAssumption
    DEF SlotLapses, LoginTypeOK, Request, RefusedAreCounted, DropLock, Lost, pair, cooldown
  <1>18. CASE UNCHANGED loginVars
    BY <1>18 DEF loginVars, LoginTypeOK, Request, RefusedAreCounted, DropLock, Lost, pair, cooldown
  <1> QED
    BY <1>1, <1>2, <1>3, <1>4, <1>5, <1>6, <1>7, <1>8, <1>9,
       <1>10, <1>11, <1>12, <1>13, <1>14, <1>15, <1>16, <1>17, <1>18 DEF LoginNext, Serve

\* BurstIsBounded holds in every reachable state: check_and_record_action's
\* INCR answers at most MaxAttempts concurrent failures with 401.
THEOREM BurstsAreBounded == LoginSpec => []BurstIsBounded
  <1> DEFINE Inv == LoginTypeOK /\ RefusedAreCounted
  <1>1. LoginInit => Inv
    BY InitLoginTypeOK, InitRefused
  <1>2. Inv /\ [LoginNext]_loginVars => Inv'
    BY NextLoginTypeOK, NextRefused
  <1>3. Inv => BurstIsBounded
    BY DEF RefusedAreCounted, BurstIsBounded
  <1> QED
    BY <1>1, <1>2, <1>3, PTL DEF LoginSpec
-----------------------------------------------------------------------------
(* Counters and their TTL *)

LEMMA InitExpire == LoginInit => CountersHaveTtl
  BY DEF LoginInit, CountersHaveTtl

\* A request that is not about to set a TTL may move as long as it leaves the
\* counters alone.
LEMMA ExpireUndisturbed ==
  ASSUME CountersHaveTtl, UNCHANGED <<lock, lockTtl, failures, failTtl>>,
         NEW r \in Req, req[r].pc \notin {"lock_expire", "failure_expire"},
         \A q \in Req \ {r} : req'[q] = req[q]
  PROVE  CountersHaveTtl'
  BY DEF CountersHaveTtl

LEMMA NextExpire ==
  ASSUME LoginTypeOK, CountersHaveTtl, [LoginNext]_loginVars, valkey' = "steady"
  PROVE  CountersHaveTtl'
  <1> USE DEF Pc, At
  <1>1. ASSUME NEW r \in Req, NEW i \in IP, NEW p \in Outcome, BeginLogin(r, i, p)
        PROVE  CountersHaveTtl'
    BY <1>1, BeginFacts, ExpireUndisturbed DEF BeginLogin, LoginTypeOK, pair, cooldown
  <1>2. ASSUME NEW r \in Req, LockCheck(r)
        PROVE  CountersHaveTtl'
    BY <1>2, GotoFacts, FinishFacts, ExpireUndisturbed DEF LockCheck, LoginTypeOK, pair, cooldown
  <1>3. ASSUME NEW r \in Req, CooldownGet(r)
        PROVE  CountersHaveTtl'
    BY <1>3, GotoFacts, ExpireUndisturbed DEF CooldownGet, LoginTypeOK, pair, cooldown
  <1>4. ASSUME NEW r \in Req, CooldownSet(r)
        PROVE  CountersHaveTtl'
    BY <1>4, GotoFacts, FinishFacts, ExpireUndisturbed DEF CooldownSet, LoginTypeOK, pair, cooldown
  <1>5. ASSUME NEW r \in Req, CheckFails(r)
        PROVE  CountersHaveTtl'
    BY <1>5, FinishFacts
    DEF CheckFails, LoginTypeOK, Request, CountersHaveTtl, DropLock, Lost, pair, cooldown
  <1>6. ASSUME NEW r \in Req, Compare(r)
        PROVE  CountersHaveTtl'
    BY <1>6, GotoFacts, FinishFacts, ExpireUndisturbed DEF Compare, LoginTypeOK, pair, cooldown
  <1>7. ASSUME NEW r \in Req, CooldownReset(r)
        PROVE  CountersHaveTtl'
    BY <1>7, GotoFacts
    DEF CooldownReset, LoginTypeOK, Request, CountersHaveTtl, DropLock, Lost, pair, cooldown
  <1>8. ASSUME NEW r \in Req, SuccessCheck(r)
        PROVE  CountersHaveTtl'
    BY <1>8, GotoFacts, FinishFacts, ExpireUndisturbed DEF SuccessCheck, LoginTypeOK, pair, cooldown
  <1>9. ASSUME NEW r \in Req, LockReset(r)
        PROVE  CountersHaveTtl'
    <2>1. lock' = [lock EXCEPT ![req[r].ip] = 0] /\ lockTtl' = lockTtl \ {req[r].ip}
      BY <1>9 DEF LockReset, DropLock, Lost
    <2>2. \A i \in IP : lock'[i] > 0 => lock'[i] = lock[i] /\ (i \in lockTtl => i \in lockTtl')
      BY <2>1 DEF LoginTypeOK, Request
    <2>3. \A q \in Req \ {r} : req'[q] = req[q]
      BY <1>9, FinishFacts DEF LockReset, LoginTypeOK
    <2>4. req[r].pc = "lock_reset" /\ failures' = failures /\ failTtl' = failTtl
      BY <1>9 DEF LockReset, cooldown
    <2> QED
      BY <2>2, <2>3, <2>4 DEF CountersHaveTtl
  <1>10. ASSUME NEW r \in Req, CountFailure(r)
        PROVE  CountersHaveTtl'
    BY <1>10, GotoFacts
    DEF CountFailure, LoginTypeOK, Request, CountersHaveTtl, DropLock, Lost, pair, cooldown
  <1>11. ASSUME NEW r \in Req, FailureExpire(r)
        PROVE  CountersHaveTtl'
    BY <1>11, GotoFacts
    DEF FailureExpire, LoginTypeOK, Request, CountersHaveTtl, DropLock, Lost, pair, cooldown
  <1>12. ASSUME NEW r \in Req, CountAttempt(r)
        PROVE  CountersHaveTtl'
    <2>1. /\ req[r].pc = "count_attempt" /\ req[r].ip \in IP
          /\ lockTtl' = lockTtl /\ failures' = failures /\ failTtl' = failTtl
      BY <1>12 DEF CountAttempt, LoginTypeOK, Request, cooldown
    <2>2. \A q \in Req \ {r} : req'[q] = req[q]
      BY <1>12, GotoFacts, FinishFacts DEF CountAttempt, LoginTypeOK
    <2>3. \A i \in IP \ {req[r].ip} : lock'[i] = lock[i]
      BY <1>12 DEF CountAttempt, LoginTypeOK
    <2>4. lock[req[r].ip] = 0 => req'[r].pc = "lock_expire" /\ req'[r].ip = req[r].ip
      BY <1>12, GotoFacts DEF CountAttempt, LoginTypeOK
    <2>5. \A i \in IP : lock[i] \in Nat
      BY DEF LoginTypeOK
    <2> QED
      BY <2>1, <2>2, <2>3, <2>4, <2>5 DEF CountersHaveTtl
  <1>13. ASSUME NEW r \in Req, CountAttemptFails(r)
        PROVE  CountersHaveTtl'
    BY <1>13, FinishFacts
    DEF CountAttemptFails, LoginTypeOK, Request, CountersHaveTtl, DropLock, Lost, pair, cooldown
  <1>14. ASSUME NEW r \in Req, LockExpire(r)
        PROVE  CountersHaveTtl'
    BY <1>14, FinishFacts
    DEF LockExpire, LoginTypeOK, Request, CountersHaveTtl, DropLock, Lost, pair, cooldown
  <1>15. ASSUME NEW i \in IP, LockLapses(i)
        PROVE  CountersHaveTtl'
    BY <1>15
    DEF LockLapses, LoginTypeOK, Request, CountersHaveTtl, DropLock, Lost, pair, cooldown
  <1>16. ASSUME FailuresLapse
        PROVE  CountersHaveTtl'
    BY <1>16
    DEF FailuresLapse, LoginTypeOK, Request, CountersHaveTtl, DropLock, Lost, pair, cooldown
  <1>17. ASSUME SlotLapses
        PROVE  CountersHaveTtl'
    BY <1>17
    DEF SlotLapses, LoginTypeOK, Request, CountersHaveTtl, DropLock, Lost, pair, cooldown
  <1>18. CASE UNCHANGED loginVars
    BY <1>18 DEF loginVars, LoginTypeOK, Request, CountersHaveTtl, DropLock, Lost, pair, cooldown
  <1> QED
    BY <1>1, <1>2, <1>3, <1>4, <1>5, <1>6, <1>7, <1>8, <1>9,
       <1>10, <1>11, <1>12, <1>13, <1>14, <1>15, <1>16, <1>17, <1>18 DEF LoginNext, Serve

\* A lost command is never forgotten.
LEMMA LossIsRemembered ==
  ASSUME [LoginNext]_loginVars, valkey' = "steady"
  PROVE  valkey = "steady"
  BY DEF LoginNext, Serve, loginVars, BeginLogin, LockCheck, CooldownGet, CooldownSet, CheckFails, Compare,
         CooldownReset, SuccessCheck, LockReset, CountFailure, FailureExpire, CountAttempt,
         CountAttemptFails, LockExpire, LockLapses, FailuresLapse, SlotLapses, Lost

\* CountersExpire holds in every reachable state: while no command is lost the
\* EXPIRE after INCR = 1 leaves no counter without a TTL behind, although DEL,
\* expiry and other requests come between the two commands.
THEOREM CountersGetTheirTtl == LoginSpec => []CountersExpire
  <1> DEFINE Inv == LoginTypeOK /\ CountersExpire
  <1>1. LoginInit => Inv
    BY InitLoginTypeOK, InitExpire DEF CountersExpire
  <1>2. Inv /\ [LoginNext]_loginVars => Inv'
    BY NextLoginTypeOK, NextExpire, LossIsRemembered DEF CountersExpire
  <1> QED
    BY <1>1, <1>2, PTL DEF LoginSpec
==============================================================================
