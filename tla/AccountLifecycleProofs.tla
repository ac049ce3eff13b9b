----------------------- MODULE AccountLifecycleProofs -----------------------
(***************************************************************************)
(* Proofs about AccountLifecycle, for every number of accounts, requests,  *)
(* transitions, faults and retries, and every size of the reconciler's     *)
(* batch.                                                                  *)
(***************************************************************************)
EXTENDS AccountLifecycle, FiniteSetTheorems, TLAPS

-----------------------------------------------------------------------------
(* The inductive invariant *)

\* Whoever works on an account has one, and whoever queues an event has one that
\* was committed.
ProcsKnowTheirWork ==
    \A p \in Proc :
        /\ proc[p].op \in Operation
             \/ proc[p].pc \in {"touch", "mint", "write", "refresh", "revoke", "lock", "bump", "revoke_rows", "purge"}
           => proc[p].acct \in Account
        /\ proc[p].event <= events
        /\ proc[p].pc \in {"queue", "defer", "commit"} \/ (proc[p].pc = "refresh" /\ proc[p].op # "login")
           => proc[p].event # 0
        /\ proc[p].pc = "touch" => proc[p].op = "login"

LoopsKnowTheirWork ==
    /\ proc[Nightly].todo \subseteq Account
    /\ proc[Reconciler].todo \subseteq 1..events

TypeInv == TypeOK /\ ProcsKnowTheirWork /\ LoopsKnowTheirWork

\* Nobody ever carries a redacted payload, so no job is built from one.
NothingRedacted ==
    /\ \A p \in Proc : proc[p].redacted = {}
    /\ JobsNameTheirAccount

\* From its confirmed bump until the row has gone, a purge has the account signed
\* out, but for sessions minted since.
PurgesSignOutFirst ==
    \A p \in Proc : proc[p].pc \in {"revoke_rows", "purge"} => (live[proc[p].acct] => late[proc[p].acct])

SignOutInv == PurgesSignOutFirst /\ PurgedAccountsAreSignedOut

\* What the row looks like after its last event.
Matches(type, row) ==
    CASE type = "soft_deleted" -> row.here /\ row.deleted # "no"
      [] type = "reactivated"  -> row.here /\ row.deleted = "no"
      [] type = "purged"       -> ~ row.here
      [] OTHER                 -> row.here

IsLastEvent(a, e) ==
    e \in 1..events /\ outbox[e].acct = a /\ \A f \in 1..events : outbox[f].acct = a => f <= e

NoEventYet(a) == \A e \in 1..events : outbox[e].acct # a

\* LastEventMatchesRow without its CHOOSE: an account without an event has its row,
\* one that has events has a last one.
LastEventInv ==
    \A a \in Account :
        \/ NoEventYet(a) /\ user[a].here
        \/ \E e \in 1..events : IsLastEvent(a, e) /\ Matches(outbox[e].type, user[a])

\* The claim of an outbox row is exclusive, and is given for a row without queued_at.
ClaimsAreExclusive ==
    \A p, q \in Proc :
        /\ proc[p].pc \in {"defer", "commit"} /\ proc[q].pc \in {"defer", "commit"} /\ proc[p].event = proc[q].event
           => p = q
        /\ proc[p].pc \in {"defer", "commit"} => ~ outbox[proc[p].event].queued

JobsOf(e) == {j \in Job : jobs[j].event = e}

\* A job whose queued_at was neither written nor is about to be cost a fault.
LostMarksAreFaults ==
    \A e \in Event :
        /\ Cardinality(JobsOf(e)) <= 1 + faults
        /\ ~ outbox[e].queued /\ (\A p \in Proc : ~ (proc[p].pc = "commit" /\ proc[p].event = e))
           => Cardinality(JobsOf(e)) <= faults

\* Jobs are numbered in the order they are deferred and are for committed events.
JobsAreForEvents == \A j \in Job : jobs[j].event <= events

JobInv == JobsAreForEvents /\ ClaimsAreExclusive /\ LostMarksAreFaults
-----------------------------------------------------------------------------
(* How a step moves a process *)

\* Process p is now here, and no other has moved.
Becomes(p, pc, op, acct, event, todo) ==
    /\ proc' \in [Proc -> Process]
    /\ \A q \in Proc \ {p} : proc'[q] = proc[q]
    /\ proc'[p].pc = pc /\ proc'[p].op = op /\ proc'[p].acct = acct
    /\ proc'[p].event = event /\ proc'[p].todo = todo
    /\ proc'[p].redacted \in {proc[p].redacted, {}}

Continues(p, pc) == Becomes(p, pc, proc[p].op, proc[p].acct, proc[p].event, proc[p].todo)
Ends(p) == Becomes(p, "idle", "none", None, 0, {})

LEMMA GotoMoves ==
  ASSUME proc \in [Proc -> Process], NEW p \in Proc, NEW pc \in Pc, Goto(p, pc)
  PROVE  Continues(p, pc)
  BY DEF Goto, Process, Continues, Becomes

LEMMA IdleType == NoProc \in Process
  BY BoundAssumption DEF NoProc, Process, Pc, Row, Absent

LEMMA FinishMoves ==
  ASSUME proc \in [Proc -> Process], NEW p \in Proc, Finish(p)
  PROVE  Ends(p)
  BY IdleType DEF Finish, Ends, Becomes, NoProc

LEMMA AfterMoves ==
  ASSUME proc \in [Proc -> Process], NEW p \in Proc, After(p)
  PROVE  \/ Continues(p, "revoke") /\ proc[p].op = "delete"
         \/ Continues(p, "next")
         \/ Ends(p)
  <1>1. CASE proc[p].op = "delete"
    BY <1>1, GotoMoves DEF After, Pc
  <1>2. CASE proc[p].op \in {"nightly", "reconcile"}
    BY <1>2, GotoMoves DEF After, Pc
  <1>3. CASE proc[p].op \notin {"delete", "nightly", "reconcile"}
    BY <1>3, FinishMoves DEF After
  <1> QED
    BY <1>1, <1>2, <1>3

LEMMA ReleaseType ==
  ASSUME lock \in [Account -> Proc \cup {None}], NEW p \in Proc, Release(p)
  PROVE  lock' \in [Account -> Proc \cup {None}]
  BY DEF Release

LEMMA SkipMoves ==
  ASSUME TypeOK, NEW p \in Proc, Skip(p)
  PROVE  Continues(p, "next") \/ Ends(p)
  BY GotoMoves, FinishMoves DEF Skip, Pc, TypeOK

LEMMA SkipLocks ==
  ASSUME TypeOK, NEW p \in Proc, Skip(p)
  PROVE  lock' \in [Account -> Proc \cup {None}]
  BY ReleaseType DEF Skip, TypeOK

LEMMA BeginMoves ==
  ASSUME TypeOK, NEW r \in Req, NEW a \in Account, NEW op \in Operation, NEW pc \in Pc, Begin(r, op, pc, a)
  PROVE  Becomes(r, pc, op, a, 0, {})
  <1> DEFINE new == [NoProc EXCEPT !.op = op, !.pc = pc, !.acct = a, !.saw = Snapshot({a})]
  <1>1. Snapshot({a}) \in [Account -> Row]
    BY DEF Snapshot, TypeOK, Row, Absent
  <1>2. new \in Process /\ new.pc = pc /\ new.op = op /\ new.acct = a
        /\ new.event = 0 /\ new.todo = {} /\ new.redacted = {}
    BY <1>1, IdleType, BoundAssumption DEF Process, NoProc
  <1>3. proc' = [proc EXCEPT ![r] = new] /\ r \in Proc
    BY DEF Begin, Proc
  <1> HIDE DEF new
  <1> QED
    BY <1>2, <1>3 DEF TypeOK, Becomes

LEMMA BeginNightlyMoves ==
  ASSUME TypeOK, BeginNightly
  PROVE  \E due \in SUBSET Account : Becomes(Nightly, "next", "nightly", None, 0, due)
  <1> DEFINE due == {a \in Account : user[a].here /\ user[a].deleted = "old"}
             new == [NoProc EXCEPT !.op = "nightly", !.pc = "next", !.saw = Snapshot(due), !.todo = due]
  <1>1. Snapshot(due) \in [Account -> Row]
    BY DEF Snapshot, TypeOK, Row, Absent
  <1>2. proc' = [proc EXCEPT ![Nightly] = new] /\ Nightly \in Proc /\ due \in SUBSET Account
    BY DEF BeginNightly, Proc
  <1> HIDE DEF due
  <1>3. new \in Process /\ new.pc = "next" /\ new.op = "nightly" /\ new.acct = None
        /\ new.event = 0 /\ new.todo = due /\ new.redacted = {}
    BY <1>1, <1>2, IdleType, BoundAssumption DEF Process, NoProc, Pc
  <1> HIDE DEF new
  <1> QED
    BY <1>2, <1>3 DEF TypeOK, Becomes

LEMMA BeginReconcileMoves ==
  ASSUME TypeOK, BeginReconcile
  PROVE  \E batch \in SUBSET (1..events) : Becomes(Reconciler, "next", "reconcile", None, 0, batch)
  <1> DEFINE pending == {e \in 1..events : ~ outbox[e].queued /\ ~ outbox[e].delivered}
             batch   == {e \in pending : Cardinality({f \in pending : f < e}) < Batch}
             done    == {e \in batch : outbox[e].delivered}
             new     == [NoProc EXCEPT !.op = "reconcile", !.pc = "next", !.todo = batch, !.redacted = done]
  <1>1. batch \in SUBSET (1..events) /\ done = {} /\ batch \subseteq Event
    BY BoundAssumption DEF TypeOK, Event
  <1>2. proc' = [proc EXCEPT ![Reconciler] = new] /\ Reconciler \in Proc
    BY DEF BeginReconcile, Proc
  <1> HIDE DEF batch, done
  <1>3. new \in Process /\ new.pc = "next" /\ new.op = "reconcile" /\ new.acct = None
        /\ new.event = 0 /\ new.todo = batch /\ new.redacted = {}
    BY <1>1, IdleType, BoundAssumption DEF Process, NoProc, Pc
  <1> HIDE DEF new
  <1> QED
    BY <1>1, <1>2, <1>3 DEF TypeOK, Becomes

LEMMA NightlyNextMoves ==
  ASSUME TypeOK, NEW a \in Account, NightlyNext(a)
  PROVE  Becomes(Nightly, "lock", proc[Nightly].op, a, proc[Nightly].event, proc[Nightly].todo \ {a})
  <1> DEFINE new == [proc[Nightly] EXCEPT !.pc = "lock", !.acct = a, !.todo = proc[Nightly].todo \ {a}]
  <1>1. proc' = [proc EXCEPT ![Nightly] = new] /\ Nightly \in Proc
    BY DEF NightlyNext, Proc
  <1>2. proc[Nightly] \in Process
    BY <1>1 DEF TypeOK
  <1>3. new \in Process /\ new.pc = "lock" /\ new.acct = a /\ new.op = proc[Nightly].op
        /\ new.event = proc[Nightly].event /\ new.todo = proc[Nightly].todo \ {a}
        /\ new.redacted = proc[Nightly].redacted
    BY <1>2 DEF Process, Pc
  <1> HIDE DEF new
  <1> QED
    BY <1>1, <1>3 DEF TypeOK, Becomes

LEMMA ReconcileNextMoves ==
  ASSUME TypeOK, LoopsKnowTheirWork, ReconcileNext, proc[Reconciler].todo # {}
  PROVE  \E e \in 1..events :
            Becomes(Reconciler, "queue", proc[Reconciler].op, proc[Reconciler].acct, e,
                    proc[Reconciler].todo \ {e})
  <1>1. PICK e \in proc[Reconciler].todo :
           proc' = [proc EXCEPT ![Reconciler] = [@ EXCEPT !.pc = "queue", !.event = e,
                                                          !.todo = proc[Reconciler].todo \ {e}]]
    BY DEF ReconcileNext
  <1> DEFINE new == [proc[Reconciler] EXCEPT !.pc = "queue", !.event = e, !.todo = proc[Reconciler].todo \ {e}]
  <1>2. proc' = [proc EXCEPT ![Reconciler] = new] /\ Reconciler \in Proc
    BY <1>1 DEF Proc
  <1>3. proc[Reconciler] \in Process /\ e \in 1..events /\ e \in 0..MaxEvents
    BY <1>2, BoundAssumption DEF TypeOK, LoopsKnowTheirWork
  <1>4. new \in Process /\ new.pc = "queue" /\ new.event = e /\ new.op = proc[Reconciler].op
        /\ new.acct = proc[Reconciler].acct /\ new.todo = proc[Reconciler].todo \ {e}
        /\ new.redacted = proc[Reconciler].redacted
    BY <1>3 DEF Process, Pc
  <1> HIDE DEF new
  <1> QED
    BY <1>2, <1>3, <1>4 DEF TypeOK, Becomes

LEMMA WriteStatusMoves ==
  ASSUME TypeOK, NEW p \in Proc, WriteStatus(p)
  PROVE  Becomes(p, "refresh", proc[p].op, proc[p].acct, events + 1, proc[p].todo)
  <1> DEFINE new == [proc[p] EXCEPT !.pc = "refresh", !.event = events + 1, !.saw = NoProc.saw]
  <1>1. proc' = [proc EXCEPT ![p] = new] /\ events + 1 \in 0..MaxEvents
    BY BoundAssumption DEF WriteStatus, Record, TypeOK
  <1>2. proc[p] \in Process /\ NoProc.saw \in [Account -> Row]
    BY IdleType DEF TypeOK, Process
  <1>3. new \in Process /\ new.pc = "refresh" /\ new.event = events + 1
        /\ new.op = proc[p].op /\ new.acct = proc[p].acct
        /\ new.todo = proc[p].todo /\ new.redacted = proc[p].redacted
    BY <1>1, <1>2 DEF Process, Pc
  <1> HIDE DEF new
  <1> QED
    BY <1>1, <1>3 DEF TypeOK, Becomes

LEMMA PurgeDeleteMoves ==
  ASSUME TypeOK, NEW p \in Proc, PurgeDelete(p)
  PROVE  Becomes(p, "queue", proc[p].op, proc[p].acct, events + 1, proc[p].todo)
  <1> DEFINE new == [proc[p] EXCEPT !.pc = "queue", !.event = events + 1]
  <1>1. proc' = [proc EXCEPT ![p] = new] /\ events + 1 \in 0..MaxEvents
    BY BoundAssumption DEF PurgeDelete, Record, TypeOK
  <1>2. proc[p] \in Process
    BY DEF TypeOK
  <1>3. new \in Process /\ new.pc = "queue" /\ new.event = events + 1
        /\ new.op = proc[p].op /\ new.acct = proc[p].acct
        /\ new.todo = proc[p].todo /\ new.redacted = proc[p].redacted
    BY <1>1, <1>2 DEF Process, Pc
  <1> HIDE DEF new
  <1> QED
    BY <1>1, <1>3 DEF TypeOK, Becomes

LEMMA LoginUpdateMoves ==
  ASSUME TypeOK, NEW p \in Proc, LoginUpdate(p)
  PROVE  Continues(p, "refresh") \/ Ends(p)
  BY GotoMoves, FinishMoves DEF LoginUpdate, TypeOK, Pc

LEMMA LoginMintMoves ==
  ASSUME TypeOK, NEW p \in Proc, LoginMint(p)
  PROVE  Ends(p)
  BY FinishMoves DEF LoginMint, TypeOK, Pc

LEMMA WriteStaleMoves ==
  ASSUME TypeOK, NEW p \in Proc, WriteStale(p)
  PROVE  Ends(p)
  BY FinishMoves DEF WriteStale, TypeOK, Pc

LEMMA RefreshMoves ==
  ASSUME TypeOK, NEW p \in Proc, Refresh(p)
  PROVE  \/ Continues(p, "mint") /\ proc[p].op = "login"
         \/ Continues(p, "queue") /\ proc[p].op # "login"
         \/ Ends(p)
  BY GotoMoves, FinishMoves DEF Refresh, TypeOK, Pc

LEMMA RevokeDeletedMoves ==
  ASSUME TypeOK, NEW p \in Proc, RevokeDeleted(p)
  PROVE  Ends(p)
  BY FinishMoves DEF RevokeDeleted, TypeOK, Pc

LEMMA LockUserMoves ==
  ASSUME TypeOK, NEW p \in Proc, LockUser(p)
  PROVE  Continues(p, "bump") \/ Continues(p, "next") \/ Ends(p)
  BY GotoMoves, SkipMoves DEF LockUser, TypeOK, Pc

LEMMA PurgeBumpMoves ==
  ASSUME TypeOK, NEW p \in Proc, PurgeBump(p)
  PROVE  \/ /\ Continues(p, "revoke_rows")
            /\ live' = [live EXCEPT ![proc[p].acct] = FALSE]
            /\ late' = [late EXCEPT ![proc[p].acct] = FALSE]
         \/ /\ Continues(p, "next") \/ Ends(p)
            /\ live' \in {live, [live EXCEPT ![proc[p].acct] = FALSE]} /\ UNCHANGED late
  BY GotoMoves, SkipMoves DEF PurgeBump, TypeOK, Pc

LEMMA PurgeRevokeRowsMoves ==
  ASSUME TypeOK, NEW p \in Proc, PurgeRevokeRows(p)
  PROVE  Continues(p, "purge")
  BY GotoMoves DEF PurgeRevokeRows, TypeOK, Pc

LEMMA ClaimEventMoves ==
  ASSUME TypeOK, NEW p \in Proc, ClaimEvent(p)
  PROVE  \/ Continues(p, "defer") /\ ~ outbox[proc[p].event].queued /\ ~ Claimed(proc[p].event)
         \/ Continues(p, "revoke") /\ proc[p].op = "delete"
         \/ Continues(p, "next")
         \/ Ends(p)
  BY GotoMoves, AfterMoves DEF ClaimEvent, TypeOK, Pc

LEMMA DeferMoves ==
  ASSUME TypeOK, NEW p \in Proc, Defer(p)
  PROVE  \/ Continues(p, "commit") /\ UNCHANGED faults
         \/ UNCHANGED queue /\ faults' = faults + 1
            /\ (\/ Continues(p, "revoke") /\ proc[p].op = "delete"
                \/ Continues(p, "next")
                \/ Ends(p))
  BY GotoMoves, AfterMoves DEF Defer, Sound, Fault, TypeOK, Pc

LEMMA CommitQueuedMoves ==
  ASSUME TypeOK, NEW p \in Proc, CommitQueued(p)
  PROVE  \/ Continues(p, "revoke") /\ proc[p].op = "delete"
         \/ Continues(p, "next")
         \/ Ends(p)
  BY AfterMoves DEF CommitQueued, TypeOK, Pc

LEMMA DiesMoves ==
  ASSUME TypeOK, NEW p \in Proc, Dies(p)
  PROVE  Ends(p)
  BY FinishMoves DEF Dies, TypeOK, Pc
-----------------------------------------------------------------------------
(* Types *)

\* The two columns a status change writes are in range, and the row stays.
LEMMA WriteStatusRow ==
  ASSUME TypeOK, NEW p \in Proc, WriteStatus(p)
  PROVE  user' \in [Account -> Row]
  <1> DEFINE a   == proc[p].acct
             row == Written(proc[p].saw[a], user[a], proc[p].op = "reactivate")
  <1>1. user' = [user EXCEPT ![a] = row]
    BY DEF WriteStatus
  <1>2. ASSUME a \in Account PROVE row \in Row
    <2> DEFINE on == proc[p].op = "reactivate"
    <2>1. user[a] \in Row /\ on \in BOOLEAN
      BY <1>2 DEF TypeOK
    <2> HIDE DEF on
    <2>2. Written(proc[p].saw[a], user[a], on) \in Row
      BY <2>1 DEF Written, Row
    <2> QED
      BY <2>2 DEF on
  <1> HIDE DEF row
  <1> QED
    BY <1>1, <1>2 DEF TypeOK

\* A transition appends its event behind the ones committed so far.
LEMMA RecordAppends ==
  ASSUME TypeOK, NEW a \in Account, NEW type \in {"soft_deleted", "reactivated", "purged"}, Record(type, a)
  PROVE  /\ events + 1 \in Event /\ events' = events + 1 /\ events' \in 0..MaxEvents
         /\ outbox' \in [Event -> OutboxRow]
         /\ outbox'[events + 1] = [type |-> type, acct |-> a, queued |-> FALSE, delivered |-> FALSE]
         /\ \A e \in 1..events : outbox'[e] = outbox[e]
  BY BoundAssumption DEF TypeOK, Record, Event, OutboxRow

\* A job that is queued again has runs left.
LEMMA RetryType ==
  ASSUME TypeOK, NEW j \in Job, jobs[j].state = "todo", Retry(j)
  PROVE  /\ jobs' \in [Job -> DeliveryJob]
         /\ \A i \in Job : jobs'[i].state = "todo" => jobs'[i].tries < MaxTries
  <1> DEFINE new == [jobs[j] EXCEPT !.tries = jobs[j].tries + 1,
                                    !.state = IF jobs[j].tries + 1 < MaxTries THEN "todo" ELSE "failed"]
  <1>1. jobs' = [jobs EXCEPT ![j] = new]
    BY DEF Retry
  <1>2. jobs[j] \in DeliveryJob /\ jobs[j].tries < MaxTries
    BY DEF TypeOK
  <1>3. jobs[j].tries + 1 \in 0..MaxTries
    BY <1>2, BoundAssumption DEF DeliveryJob
  <1>4. new \in DeliveryJob
    BY <1>2, <1>3 DEF DeliveryJob
  <1>5. new.state = "todo" => new.tries < MaxTries
    BY <1>2, <1>3 DEF DeliveryJob
  <1> HIDE DEF new
  <1> QED
    BY <1>1, <1>4, <1>5 DEF TypeOK

LEMMA InitTypeInv == Init => TypeInv
  <1> SUFFICES ASSUME Init PROVE TypeInv
    OBVIOUS
  <1>1. TypeOK
    <2>1. user \in [Account -> Row]
      <3>1. [here |-> TRUE, active |-> TRUE, deleted |-> "no"] \in Row
        BY DEF Row
      <3>2. [here |-> TRUE, active |-> FALSE, deleted |-> "old"] \in Row
        BY DEF Row
      <3> QED
        BY <3>1, <3>2 DEF Init
    <2>2. proc \in [Proc -> Process]
      BY IdleType DEF Init
    <2>3. /\ jobs \in [Job -> DeliveryJob]
          /\ \A j \in Job : jobs[j].state = "todo" => jobs[j].tries < MaxTries
      BY BoundAssumption DEF Init, NoJob, DeliveryJob
    <2> QED
      BY <2>1, <2>2, <2>3, BoundAssumption DEF Init, TypeOK, NoEvent, OutboxRow
  <1>2. ProcsKnowTheirWork
    BY BoundAssumption DEF Init, ProcsKnowTheirWork, NoProc, Operation
  <1>3. LoopsKnowTheirWork
    BY DEF Init, LoopsKnowTheirWork, NoProc, Proc
  <1> QED
    BY <1>1, <1>2, <1>3 DEF TypeInv

LEMMA NextTypeInv == TypeInv /\ [Next]_vars => TypeInv'
  <1> SUFFICES ASSUME TypeInv, [Next]_vars PROVE TypeInv'
    OBVIOUS
  <1> USE BoundAssumption DEF TypeInv, account, queue
  <1>1. ASSUME NEW r \in Req, NEW a \in Account, BeginDelete(r, a)
        PROVE  TypeInv'
    <2>1. Becomes(r, "write", "delete", a, 0, {})
      BY <1>1, BeginMoves DEF BeginDelete, Operation, Pc
    <2>3. TypeOK'
      BY <1>1, <2>1 DEF BeginDelete, Begin, TypeOK, Becomes, Continues, Ends
    <2>4. ProcsKnowTheirWork'
      BY <1>1, <2>1 DEF BeginDelete, Begin, At, TypeOK, ProcsKnowTheirWork, LoopsKnowTheirWork, Becomes, Continues, Ends, Record, Operation
    <2>5. LoopsKnowTheirWork'
      BY <1>1, <2>1, ProcAssumption DEF BeginDelete, Begin, TypeOK, LoopsKnowTheirWork, Becomes, Continues, Ends, Record, Proc
    <2> QED
      BY <2>3, <2>4, <2>5
  <1>2. ASSUME NEW r \in Req, NEW a \in Account, BeginReactivate(r, a)
        PROVE  TypeInv'
    <2>1. Becomes(r, "write", "reactivate", a, 0, {})
      BY <1>2, BeginMoves DEF BeginReactivate, Operation, Pc
    <2>3. TypeOK'
      BY <1>2, <2>1 DEF BeginReactivate, Begin, TypeOK, Becomes, Continues, Ends
    <2>4. ProcsKnowTheirWork'
      BY <1>2, <2>1 DEF BeginReactivate, Begin, At, TypeOK, ProcsKnowTheirWork, LoopsKnowTheirWork, Becomes, Continues, Ends, Record, Operation
    <2>5. LoopsKnowTheirWork'
      BY <1>2, <2>1, ProcAssumption DEF BeginReactivate, Begin, TypeOK, LoopsKnowTheirWork, Becomes, Continues, Ends, Record, Proc
    <2> QED
      BY <2>3, <2>4, <2>5
  <1>3. ASSUME NEW r \in Req, NEW a \in Account, BeginPurge(r, a)
        PROVE  TypeInv'
    <2>1. Becomes(r, "lock", "purge", a, 0, {})
      BY <1>3, BeginMoves DEF BeginPurge, Operation, Pc
    <2>3. TypeOK'
      BY <1>3, <2>1 DEF BeginPurge, Begin, TypeOK, Becomes, Continues, Ends
    <2>4. ProcsKnowTheirWork'
      BY <1>3, <2>1 DEF BeginPurge, Begin, At, TypeOK, ProcsKnowTheirWork, LoopsKnowTheirWork, Becomes, Continues, Ends, Record, Operation
    <2>5. LoopsKnowTheirWork'
      BY <1>3, <2>1, ProcAssumption DEF BeginPurge, Begin, TypeOK, LoopsKnowTheirWork, Becomes, Continues, Ends, Record, Proc
    <2> QED
      BY <2>3, <2>4, <2>5
  <1>4. ASSUME NEW r \in Req, NEW a \in Account, BeginLogin(r, a)
        PROVE  TypeInv'
    <2>1. Becomes(r, "touch", "login", a, 0, {})
      BY <1>4, BeginMoves DEF BeginLogin, Operation, Pc
    <2>3. TypeOK'
      BY <1>4, <2>1 DEF BeginLogin, Begin, TypeOK, Becomes, Continues, Ends
    <2>4. ProcsKnowTheirWork'
      BY <1>4, <2>1 DEF BeginLogin, Begin, At, TypeOK, ProcsKnowTheirWork, LoopsKnowTheirWork, Becomes, Continues, Ends, Record, Operation
    <2>5. LoopsKnowTheirWork'
      BY <1>4, <2>1, ProcAssumption DEF BeginLogin, Begin, TypeOK, LoopsKnowTheirWork, Becomes, Continues, Ends, Record, Proc
    <2> QED
      BY <2>3, <2>4, <2>5
  <1>5. ASSUME BeginNightly
        PROVE  TypeInv'
    <2>1. \E due \in SUBSET Account : Becomes(Nightly, "next", "nightly", None, 0, due)
      BY <1>5, BeginNightlyMoves
    <2>3. TypeOK'
      BY <1>5, <2>1 DEF BeginNightly, TypeOK, Becomes, Continues, Ends
    <2>4. ProcsKnowTheirWork'
      BY <1>5, <2>1 DEF BeginNightly, At, TypeOK, ProcsKnowTheirWork, LoopsKnowTheirWork, Becomes, Continues, Ends, Record, Operation
    <2>5. LoopsKnowTheirWork'
      BY <1>5, <2>1, ProcAssumption DEF BeginNightly, TypeOK, LoopsKnowTheirWork, Becomes, Continues, Ends, Record, Proc
    <2> QED
      BY <2>3, <2>4, <2>5
  <1>6. ASSUME BeginReconcile
        PROVE  TypeInv'
    <2>1. \E batch \in SUBSET (1..events) : Becomes(Reconciler, "next", "reconcile", None, 0, batch)
      BY <1>6, BeginReconcileMoves
    <2>3. TypeOK'
      BY <1>6, <2>1 DEF BeginReconcile, TypeOK, Becomes, Continues, Ends
    <2>4. ProcsKnowTheirWork'
      BY <1>6, <2>1 DEF BeginReconcile, At, TypeOK, ProcsKnowTheirWork, LoopsKnowTheirWork, Becomes, Continues, Ends, Record, Operation
    <2>5. LoopsKnowTheirWork'
      BY <1>6, <2>1, ProcAssumption DEF BeginReconcile, TypeOK, LoopsKnowTheirWork, Becomes, Continues, Ends, Record, Proc
    <2> QED
      BY <2>3, <2>4, <2>5
  <1>7. ASSUME NEW a \in Account, NightlyNext(a)
        PROVE  TypeInv'
    <2>1. Becomes(Nightly, "lock", proc[Nightly].op, a, proc[Nightly].event, proc[Nightly].todo \ {a})
      BY <1>7, NightlyNextMoves
    <2>3. TypeOK'
      BY <1>7, <2>1 DEF NightlyNext, TypeOK, Becomes, Continues, Ends
    <2>4. ProcsKnowTheirWork'
      BY <1>7, <2>1 DEF NightlyNext, At, TypeOK, ProcsKnowTheirWork, LoopsKnowTheirWork, Becomes, Continues, Ends, Record, Operation
    <2>5. LoopsKnowTheirWork'
      BY <1>7, <2>1, ProcAssumption DEF NightlyNext, TypeOK, LoopsKnowTheirWork, Becomes, Continues, Ends, Record, Proc
    <2> QED
      BY <2>3, <2>4, <2>5
  <1>8. ASSUME NightlyEnd
        PROVE  TypeInv'
    <2>1. Ends(Nightly)
      BY <1>8, FinishMoves DEF NightlyEnd, Proc, TypeOK
    <2>3. TypeOK'
      BY <1>8, <2>1, ReleaseType DEF NightlyEnd, TypeOK, Becomes, Continues, Ends, Proc
    <2>4. ProcsKnowTheirWork'
      BY <1>8, <2>1 DEF NightlyEnd, At, TypeOK, ProcsKnowTheirWork, LoopsKnowTheirWork, Becomes, Continues, Ends, Record, Operation
    <2>5. LoopsKnowTheirWork'
      BY <1>8, <2>1, ProcAssumption DEF NightlyEnd, TypeOK, LoopsKnowTheirWork, Becomes, Continues, Ends, Record, Proc
    <2> QED
      BY <2>3, <2>4, <2>5
  <1>9. ASSUME ReconcileNext
        PROVE  TypeInv'
    <2>1. \/ Ends(Reconciler)
          \/ \E e \in 1..events :
               Becomes(Reconciler, "queue", proc[Reconciler].op, proc[Reconciler].acct, e,
                       proc[Reconciler].todo \ {e})
      BY <1>9, FinishMoves, ReconcileNextMoves DEF ReconcileNext, Proc, TypeOK
    <2>3. TypeOK'
      <3>1. proc' \in [Proc -> Process]
        BY <2>1 DEF Becomes, Ends
      <3> QED
        BY <1>9, <3>1 DEF ReconcileNext, TypeOK
    <2>4. ProcsKnowTheirWork'
      <3>1. UNCHANGED events
        BY <1>9 DEF ReconcileNext
      <3>2. CASE Ends(Reconciler)
        BY <3>1, <3>2 DEF TypeOK, ProcsKnowTheirWork, Ends, Becomes, Operation
      <3>3. ASSUME NEW e \in 1..events,
                   Becomes(Reconciler, "queue", proc[Reconciler].op, proc[Reconciler].acct, e,
                           proc[Reconciler].todo \ {e})
            PROVE  ProcsKnowTheirWork'
        BY <3>1, <3>3 DEF TypeOK, ProcsKnowTheirWork, Becomes, Operation
      <3> QED
        BY <2>1, <3>2, <3>3
    <2>5. LoopsKnowTheirWork'
      BY <1>9, <2>1, ProcAssumption DEF ReconcileNext, TypeOK, LoopsKnowTheirWork, Becomes, Continues, Ends, Record, Proc
    <2> QED
      BY <2>3, <2>4, <2>5
  <1>10. ASSUME NEW p \in Proc, LoginUpdate(p)
        PROVE  TypeInv'
    <2>1. Continues(p, "refresh") \/ Ends(p)
      BY <1>10, LoginUpdateMoves
    <2>3. TypeOK'
      BY <1>10, <2>1 DEF LoginUpdate, TypeOK, Becomes, Continues, Ends
    <2>4. ProcsKnowTheirWork'
      BY <1>10, <2>1 DEF LoginUpdate, At, TypeOK, ProcsKnowTheirWork, LoopsKnowTheirWork, Becomes, Continues, Ends, Record, Operation
    <2>5. LoopsKnowTheirWork'
      BY <1>10, <2>1, ProcAssumption DEF LoginUpdate, TypeOK, LoopsKnowTheirWork, Becomes, Continues, Ends, Record, Proc
    <2> QED
      BY <2>3, <2>4, <2>5
  <1>11. ASSUME NEW p \in Proc, LoginMint(p)
        PROVE  TypeInv'
    <2>1. Ends(p)
      BY <1>11, LoginMintMoves
    <2>3. TypeOK'
      BY <1>11, <2>1 DEF LoginMint, TypeOK, Becomes, Continues, Ends
    <2>4. ProcsKnowTheirWork'
      BY <1>11, <2>1 DEF LoginMint, At, TypeOK, ProcsKnowTheirWork, LoopsKnowTheirWork, Becomes, Continues, Ends, Record, Operation
    <2>5. LoopsKnowTheirWork'
      BY <1>11, <2>1, ProcAssumption DEF LoginMint, TypeOK, LoopsKnowTheirWork, Becomes, Continues, Ends, Record, Proc
    <2> QED
      BY <2>3, <2>4, <2>5
  <1>12. ASSUME NEW p \in Proc, WriteStatus(p)
        PROVE  TypeInv'
    <2>1. Becomes(p, "refresh", proc[p].op, proc[p].acct, events + 1, proc[p].todo)
      BY <1>12, WriteStatusMoves
    <2>2. proc[p].acct \in Account
      BY <1>12 DEF WriteStatus, At, ProcsKnowTheirWork
    <2>3. TypeOK'
      BY <1>12, <2>1, <2>2, WriteStatusRow, RecordAppends DEF WriteStatus, TypeOK, Becomes, Continues, Ends
    <2>4. ProcsKnowTheirWork'
      BY <1>12, <2>1, <2>2 DEF WriteStatus, At, TypeOK, ProcsKnowTheirWork, LoopsKnowTheirWork, Becomes, Continues, Ends, Record, Operation, Process
    <2>5. LoopsKnowTheirWork'
      BY <1>12, <2>1, ProcAssumption DEF WriteStatus, TypeOK, LoopsKnowTheirWork, Becomes, Continues, Ends, Record, Proc
    <2> QED
      BY <2>3, <2>4, <2>5
  <1>13. ASSUME NEW p \in Proc, WriteStale(p)
        PROVE  TypeInv'
    <2>1. Ends(p)
      BY <1>13, WriteStaleMoves
    <2>3. TypeOK'
      BY <1>13, <2>1 DEF WriteStale, TypeOK, Becomes, Continues, Ends
    <2>4. ProcsKnowTheirWork'
      BY <1>13, <2>1 DEF WriteStale, At, TypeOK, ProcsKnowTheirWork, LoopsKnowTheirWork, Becomes, Continues, Ends, Record, Operation
    <2>5. LoopsKnowTheirWork'
      BY <1>13, <2>1, ProcAssumption DEF WriteStale, TypeOK, LoopsKnowTheirWork, Becomes, Continues, Ends, Record, Proc
    <2> QED
      BY <2>3, <2>4, <2>5
  <1>14. ASSUME NEW p \in Proc, Refresh(p)
        PROVE  TypeInv'
    <2>1. \/ Continues(p, "mint") /\ proc[p].op = "login"
          \/ Continues(p, "queue") /\ proc[p].op # "login"
          \/ Ends(p)
      BY <1>14, RefreshMoves
    <2>3. TypeOK'
      BY <1>14, <2>1 DEF Refresh, TypeOK, Becomes, Continues, Ends
    <2>4. ProcsKnowTheirWork'
      BY <1>14, <2>1 DEF Refresh, At, TypeOK, ProcsKnowTheirWork, LoopsKnowTheirWork, Becomes, Continues, Ends, Record, Operation
    <2>5. LoopsKnowTheirWork'
      BY <1>14, <2>1, ProcAssumption DEF Refresh, TypeOK, LoopsKnowTheirWork, Becomes, Continues, Ends, Record, Proc
    <2> QED
      BY <2>3, <2>4, <2>5
  <1>15. ASSUME NEW p \in Proc, RevokeDeleted(p)
        PROVE  TypeInv'
    <2>1. Ends(p)
      BY <1>15, RevokeDeletedMoves
    <2>3. TypeOK'
      <3>1. live' \in [Account -> BOOLEAN]
        BY <1>15 DEF RevokeDeleted, TypeOK
      <3>2. faults' \in 0..MaxFaults
        BY <1>15 DEF RevokeDeleted, TypeOK, Sound, Fault
      <3> QED
        BY <1>15, <2>1, <3>1, <3>2 DEF RevokeDeleted, TypeOK, Ends, Becomes
    <2>4. ProcsKnowTheirWork'
      BY <1>15, <2>1 DEF RevokeDeleted, At, TypeOK, ProcsKnowTheirWork, LoopsKnowTheirWork, Becomes, Continues, Ends, Record, Operation
    <2>5. LoopsKnowTheirWork'
      BY <1>15, <2>1, ProcAssumption DEF RevokeDeleted, TypeOK, LoopsKnowTheirWork, Becomes, Continues, Ends, Record, Proc
    <2> QED
      BY <2>3, <2>4, <2>5
  <1>16. ASSUME NEW p \in Proc, LockUser(p)
        PROVE  TypeInv'
    <2>1. Continues(p, "bump") \/ Continues(p, "next") \/ Ends(p)
      BY <1>16, LockUserMoves
    <2>3. TypeOK'
      BY <1>16, <2>1, SkipLocks DEF LockUser, TypeOK, Becomes, Continues, Ends, Proc
    <2>4. ProcsKnowTheirWork'
      BY <1>16, <2>1 DEF LockUser, At, TypeOK, ProcsKnowTheirWork, LoopsKnowTheirWork, Becomes, Continues, Ends, Record, Operation
    <2>5. LoopsKnowTheirWork'
      BY <1>16, <2>1, ProcAssumption DEF LockUser, TypeOK, LoopsKnowTheirWork, Becomes, Continues, Ends, Record, Proc
    <2> QED
      BY <2>3, <2>4, <2>5
  <1>17. ASSUME NEW p \in Proc, PurgeBump(p)
        PROVE  TypeInv'
    <2>1. \/ /\ Continues(p, "revoke_rows")
             /\ live' = [live EXCEPT ![proc[p].acct] = FALSE]
             /\ late' = [late EXCEPT ![proc[p].acct] = FALSE]
          \/ /\ Continues(p, "next") \/ Ends(p)
             /\ live' \in {live, [live EXCEPT ![proc[p].acct] = FALSE]} /\ UNCHANGED late
      BY <1>17, PurgeBumpMoves
    <2>3. TypeOK'
      <3>1. live' \in [Account -> BOOLEAN] /\ late' \in [Account -> BOOLEAN]
        BY <2>1 DEF TypeOK
      <3>2. faults' \in 0..MaxFaults
        BY <1>17 DEF PurgeBump, TypeOK, Sound, Fault
      <3>3. lock' \in [Account -> Proc \cup {None}]
        BY <1>17, SkipLocks DEF PurgeBump, TypeOK
      <3>4. proc' \in [Proc -> Process]
        BY <2>1 DEF Continues, Ends, Becomes
      <3> QED
        BY <1>17, <3>1, <3>2, <3>3, <3>4 DEF PurgeBump, TypeOK
    <2>4. ProcsKnowTheirWork'
      BY <1>17, <2>1 DEF PurgeBump, At, TypeOK, ProcsKnowTheirWork, LoopsKnowTheirWork, Becomes, Continues, Ends, Record, Operation
    <2>5. LoopsKnowTheirWork'
      BY <1>17, <2>1, ProcAssumption DEF PurgeBump, TypeOK, LoopsKnowTheirWork, Becomes, Continues, Ends, Record, Proc
    <2> QED
      BY <2>3, <2>4, <2>5
  <1>18. ASSUME NEW p \in Proc, PurgeRevokeRows(p)
        PROVE  TypeInv'
    <2>1. Continues(p, "purge")
      BY <1>18, PurgeRevokeRowsMoves
    <2>3. TypeOK'
      BY <1>18, <2>1, ReleaseType DEF PurgeRevokeRows, TypeOK, Becomes, Continues, Ends
    <2>4. ProcsKnowTheirWork'
      BY <1>18, <2>1 DEF PurgeRevokeRows, At, TypeOK, ProcsKnowTheirWork, LoopsKnowTheirWork, Becomes, Continues, Ends, Record, Operation
    <2>5. LoopsKnowTheirWork'
      BY <1>18, <2>1, ProcAssumption DEF PurgeRevokeRows, TypeOK, LoopsKnowTheirWork, Becomes, Continues, Ends, Record, Proc
    <2> QED
      BY <2>3, <2>4, <2>5
  <1>19. ASSUME NEW p \in Proc, PurgeDelete(p)
        PROVE  TypeInv'
    <2>1. Becomes(p, "queue", proc[p].op, proc[p].acct, events + 1, proc[p].todo)
      BY <1>19, PurgeDeleteMoves
    <2>2. proc[p].acct \in Account
      BY <1>19 DEF PurgeDelete, At, ProcsKnowTheirWork
    <2>3. TypeOK'
      BY <1>19, <2>1, <2>2, RecordAppends DEF PurgeDelete, TypeOK, Becomes, Continues, Ends, Absent, Row
    <2>4. ProcsKnowTheirWork'
      BY <1>19, <2>1, <2>2 DEF PurgeDelete, At, TypeOK, ProcsKnowTheirWork, LoopsKnowTheirWork, Becomes, Continues, Ends, Record, Operation, Process
    <2>5. LoopsKnowTheirWork'
      BY <1>19, <2>1, ProcAssumption DEF PurgeDelete, TypeOK, LoopsKnowTheirWork, Becomes, Continues, Ends, Record, Proc
    <2> QED
      BY <2>3, <2>4, <2>5
  <1>20. ASSUME NEW p \in Proc, ClaimEvent(p)
        PROVE  TypeInv'
    <2>1. \/ Continues(p, "defer") /\ ~ outbox[proc[p].event].queued /\ ~ Claimed(proc[p].event)
          \/ Continues(p, "revoke") /\ proc[p].op = "delete"
          \/ Continues(p, "next")
          \/ Ends(p)
      BY <1>20, ClaimEventMoves
    <2>3. TypeOK'
      BY <1>20, <2>1 DEF ClaimEvent, TypeOK, Becomes, Continues, Ends
    <2>4. ProcsKnowTheirWork'
      BY <1>20, <2>1 DEF ClaimEvent, At, TypeOK, ProcsKnowTheirWork, LoopsKnowTheirWork, Becomes, Continues, Ends, Record, Operation
    <2>5. LoopsKnowTheirWork'
      BY <1>20, <2>1, ProcAssumption DEF ClaimEvent, TypeOK, LoopsKnowTheirWork, Becomes, Continues, Ends, Record, Proc
    <2> QED
      BY <2>3, <2>4, <2>5
  <1>21. ASSUME NEW p \in Proc, Defer(p)
        PROVE  TypeInv'
    <2>1. \/ Continues(p, "commit") /\ UNCHANGED faults
          \/ UNCHANGED queue /\ faults' = faults + 1
             /\ (\/ Continues(p, "revoke") /\ proc[p].op = "delete"
                 \/ Continues(p, "next")
                 \/ Ends(p))
      BY <1>21, DeferMoves
    <2>3. TypeOK'
      <3>1. /\ jobs' \in [Job -> DeliveryJob]
            /\ \A j \in Job : jobs'[j].state = "todo" => jobs'[j].tries < MaxTries
            /\ deferred' \in 0..(MaxEvents + MaxFaults)
        <4>1. proc[p].event \in 0..MaxEvents
          BY DEF TypeOK, Process
        <4> DEFINE new == [event |-> proc[p].event, named |-> proc[p].event \notin proc[p].redacted,
                           state |-> "todo", tries |-> 0]
        <4>2. new \in DeliveryJob /\ new.tries < MaxTries
          BY <4>1 DEF DeliveryJob
        <4>3. \/ UNCHANGED <<jobs, deferred>>
              \/ deferred' = deferred + 1 /\ deferred < MaxEvents + MaxFaults
                 /\ jobs' = [jobs EXCEPT ![deferred + 1] = new]
          BY <1>21 DEF Defer
        <4> HIDE DEF new
        <4>4. CASE UNCHANGED <<jobs, deferred>>
          BY <4>4 DEF TypeOK
        <4>5. CASE deferred' = deferred + 1 /\ deferred < MaxEvents + MaxFaults
                   /\ jobs' = [jobs EXCEPT ![deferred + 1] = new]
          <5>1. deferred' \in 0..(MaxEvents + MaxFaults)
            BY <4>5 DEF TypeOK
          <5>2. jobs' \in [Job -> DeliveryJob]
            BY <4>2, <4>5 DEF TypeOK
          <5>3. \A j \in Job : jobs'[j] \in {jobs[j], new}
            BY <4>5 DEF TypeOK
          <5> QED
            BY <4>2, <5>1, <5>2, <5>3 DEF TypeOK
        <4> QED
          BY <4>3, <4>4, <4>5
      <3>2. faults' \in 0..MaxFaults
        BY <1>21 DEF Defer, TypeOK, Sound, Fault
      <3>3. proc' \in [Proc -> Process]
        BY <2>1 DEF Continues, Ends, Becomes
      <3> QED
        BY <1>21, <3>1, <3>2, <3>3 DEF Defer, TypeOK
    <2>4. ProcsKnowTheirWork'
      BY <1>21, <2>1 DEF Defer, At, TypeOK, ProcsKnowTheirWork, LoopsKnowTheirWork, Becomes, Continues, Ends, Record, Operation
    <2>5. LoopsKnowTheirWork'
      BY <1>21, <2>1, ProcAssumption DEF Defer, TypeOK, LoopsKnowTheirWork, Becomes, Continues, Ends, Record, Proc
    <2> QED
      BY <2>3, <2>4, <2>5
  <1>22. ASSUME NEW p \in Proc, CommitQueued(p)
        PROVE  TypeInv'
    <2>1. \/ Continues(p, "revoke") /\ proc[p].op = "delete"
          \/ Continues(p, "next")
          \/ Ends(p)
      BY <1>22, CommitQueuedMoves
    <2>3. TypeOK'
      <3>1. outbox' \in [Event -> OutboxRow]
        <4>1. outbox' \in {outbox, [outbox EXCEPT ![proc[p].event].queued = TRUE]}
          BY <1>22 DEF CommitQueued
        <4>2. [outbox EXCEPT ![proc[p].event].queued = TRUE] \in [Event -> OutboxRow]
          BY DEF TypeOK, OutboxRow
        <4> QED
          BY <4>1, <4>2 DEF TypeOK
      <3>2. faults' \in 0..MaxFaults
        BY <1>22 DEF CommitQueued, TypeOK, Sound, Fault
      <3>3. proc' \in [Proc -> Process]
        BY <2>1 DEF Continues, Ends, Becomes
      <3> QED
        BY <1>22, <3>1, <3>2, <3>3 DEF CommitQueued, TypeOK
    <2>4. ProcsKnowTheirWork'
      BY <1>22, <2>1 DEF CommitQueued, At, TypeOK, ProcsKnowTheirWork, LoopsKnowTheirWork, Becomes, Continues, Ends, Record, Operation
    <2>5. LoopsKnowTheirWork'
      BY <1>22, <2>1, ProcAssumption DEF CommitQueued, TypeOK, LoopsKnowTheirWork, Becomes, Continues, Ends, Record, Proc
    <2> QED
      BY <2>3, <2>4, <2>5
  <1>23. ASSUME NEW p \in Proc, Dies(p)
        PROVE  TypeInv'
    <2>1. Ends(p)
      BY <1>23, DiesMoves
    <2>3. TypeOK'
      BY <1>23, <2>1, ReleaseType DEF Dies, TypeOK, Becomes, Continues, Ends, Sound, Fault
    <2>4. ProcsKnowTheirWork'
      BY <1>23, <2>1 DEF Dies, At, TypeOK, ProcsKnowTheirWork, LoopsKnowTheirWork, Becomes, Continues, Ends, Record, Operation
    <2>5. LoopsKnowTheirWork'
      BY <1>23, <2>1, ProcAssumption DEF Dies, TypeOK, LoopsKnowTheirWork, Becomes, Continues, Ends, Record, Proc
    <2> QED
      BY <2>3, <2>4, <2>5
  <1>24. ASSUME NEW j \in Job, Deliver(j)
        PROVE  TypeInv'
    <2>1. TypeOK'
      <3>1. outbox' \in [Event -> OutboxRow]
        <4>1. outbox' \in {outbox, [outbox EXCEPT ![jobs[j].event].delivered = TRUE]}
          BY <1>24 DEF Deliver
        <4>2. [outbox EXCEPT ![jobs[j].event].delivered = TRUE] \in [Event -> OutboxRow]
          BY DEF TypeOK, OutboxRow
        <4> QED
          BY <4>1, <4>2 DEF TypeOK
      <3>2. /\ jobs' \in [Job -> DeliveryJob]
            /\ \A i \in Job : jobs'[i].state = "todo" => jobs'[i].tries < MaxTries
        <4>1. \/ jobs' = [jobs EXCEPT ![j].state = "done"]
              \/ Retry(j) /\ jobs[j].state = "todo"
          BY <1>24 DEF Deliver
        <4>2. CASE jobs' = [jobs EXCEPT ![j].state = "done"]
          BY <4>2 DEF TypeOK, DeliveryJob
        <4>3. CASE Retry(j) /\ jobs[j].state = "todo"
          BY <4>3, RetryType DEF TypeOK
        <4> QED
          BY <4>1, <4>2, <4>3
      <3>3. faults' \in 0..MaxFaults
        BY <1>24 DEF Deliver, TypeOK, Sound, Fault
      <3> QED
        BY <1>24, <3>1, <3>2, <3>3 DEF Deliver, TypeOK
    <2>2. ProcsKnowTheirWork' /\ LoopsKnowTheirWork'
      BY <1>24 DEF Deliver, ProcsKnowTheirWork, LoopsKnowTheirWork
    <2> QED
      BY <2>1, <2>2
  <1>25. ASSUME NEW a \in Account, GraceElapses(a)
        PROVE  TypeInv'
    <2>1. TypeOK'
      BY <1>25 DEF GraceElapses, TypeOK, Row
    <2>2. ProcsKnowTheirWork' /\ LoopsKnowTheirWork'
      BY <1>25 DEF GraceElapses, ProcsKnowTheirWork, LoopsKnowTheirWork
    <2> QED
      BY <2>1, <2>2
  <1>26. CASE UNCHANGED vars
    BY <1>26 DEF vars, TypeOK, ProcsKnowTheirWork, LoopsKnowTheirWork
  <1> QED
    BY <1>1, <1>2, <1>3, <1>4, <1>5, <1>6, <1>7, <1>8, <1>9, <1>10, <1>11, <1>12, <1>13, <1>14, <1>15, <1>16, <1>17, <1>18, <1>19, <1>20, <1>21, <1>22, <1>23, <1>24, <1>25, <1>26 DEF Next, Arrive, Serve, Loop

\* Rows, locks, events, jobs and processes stay in their ranges, and a job that is
\* queued has runs left.
THEOREM TypeCorrect == Spec => []TypeOK
  <1>1. TypeInv => TypeOK
    BY DEF TypeInv
  <1> QED
    BY InitTypeInv, NextTypeInv, <1>1, PTL DEF Spec
-----------------------------------------------------------------------------
(* Jobs name their account *)

LEMMA InitNothingRedacted == Init => NothingRedacted
  BY DEF Init, NothingRedacted, JobsNameTheirAccount, NoProc, NoJob

\* A process that takes a step keeps its payloads or drops them.
Moved(p) ==
    /\ \A q \in Proc \ {p} : proc'[q] = proc[q]
    /\ proc'[p].redacted \in {proc[p].redacted, {}}

LEMMA NextMoves ==
  ASSUME TypeInv, Next
  PROVE  proc' = proc \/ \E p \in Proc : Moved(p)
  <1> USE DEF TypeInv
  <1>1. ASSUME NEW r \in Req, NEW a \in Account, BeginDelete(r, a)
        PROVE  Moved(r) /\ r \in Proc
    BY <1>1, BeginMoves DEF BeginDelete, Operation, Pc, Moved, Becomes, Proc
  <1>2. ASSUME NEW r \in Req, NEW a \in Account, BeginReactivate(r, a)
        PROVE  Moved(r) /\ r \in Proc
    BY <1>2, BeginMoves DEF BeginReactivate, Operation, Pc, Moved, Becomes, Proc
  <1>3. ASSUME NEW r \in Req, NEW a \in Account, BeginPurge(r, a)
        PROVE  Moved(r) /\ r \in Proc
    BY <1>3, BeginMoves DEF BeginPurge, Operation, Pc, Moved, Becomes, Proc
  <1>4. ASSUME NEW r \in Req, NEW a \in Account, BeginLogin(r, a)
        PROVE  Moved(r) /\ r \in Proc
    BY <1>4, BeginMoves DEF BeginLogin, Operation, Pc, Moved, Becomes, Proc
  <1>5. ASSUME BeginNightly PROVE Moved(Nightly) /\ Nightly \in Proc
    BY <1>5, BeginNightlyMoves DEF Moved, Becomes, Proc
  <1>6. ASSUME BeginReconcile PROVE Moved(Reconciler) /\ Reconciler \in Proc
    BY <1>6, BeginReconcileMoves DEF Moved, Becomes, Proc
  <1>7. ASSUME NEW a \in Account, NightlyNext(a) PROVE Moved(Nightly) /\ Nightly \in Proc
    BY <1>7, NightlyNextMoves DEF Moved, Becomes, Proc
  <1>8. ASSUME NightlyEnd PROVE Moved(Nightly) /\ Nightly \in Proc
    BY <1>8, FinishMoves DEF NightlyEnd, TypeOK, Ends, Moved, Becomes, Proc
  <1>9. ASSUME ReconcileNext PROVE Moved(Reconciler) /\ Reconciler \in Proc
    <2>1. CASE proc[Reconciler].todo = {}
      BY <1>9, <2>1, FinishMoves DEF ReconcileNext, TypeOK, Ends, Moved, Becomes, Proc
    <2>2. CASE proc[Reconciler].todo # {}
      BY <1>9, <2>2, ReconcileNextMoves DEF Moved, Becomes, Proc
    <2> QED
      BY <2>1, <2>2
  <1>10. ASSUME NEW p \in Proc, LoginUpdate(p) PROVE Moved(p)
    BY <1>10, LoginUpdateMoves DEF Continues, Ends, Moved, Becomes
  <1>11. ASSUME NEW p \in Proc, LoginMint(p) PROVE Moved(p)
    BY <1>11, LoginMintMoves DEF Continues, Ends, Moved, Becomes
  <1>12. ASSUME NEW p \in Proc, WriteStatus(p) PROVE Moved(p)
    BY <1>12, WriteStatusMoves DEF Continues, Ends, Moved, Becomes
  <1>13. ASSUME NEW p \in Proc, WriteStale(p) PROVE Moved(p)
    BY <1>13, WriteStaleMoves DEF Continues, Ends, Moved, Becomes
  <1>14. ASSUME NEW p \in Proc, Refresh(p) PROVE Moved(p)
    BY <1>14, RefreshMoves DEF Continues, Ends, Moved, Becomes
  <1>15. ASSUME NEW p \in Proc, RevokeDeleted(p) PROVE Moved(p)
    BY <1>15, RevokeDeletedMoves DEF Continues, Ends, Moved, Becomes
  <1>16. ASSUME NEW p \in Proc, LockUser(p) PROVE Moved(p)
    BY <1>16, LockUserMoves DEF Continues, Ends, Moved, Becomes
  <1>17. ASSUME NEW p \in Proc, PurgeBump(p) PROVE Moved(p)
    BY <1>17, PurgeBumpMoves DEF Continues, Ends, Moved, Becomes
  <1>18. ASSUME NEW p \in Proc, PurgeRevokeRows(p) PROVE Moved(p)
    BY <1>18, PurgeRevokeRowsMoves DEF Continues, Ends, Moved, Becomes
  <1>19. ASSUME NEW p \in Proc, PurgeDelete(p) PROVE Moved(p)
    BY <1>19, PurgeDeleteMoves DEF Continues, Ends, Moved, Becomes
  <1>20. ASSUME NEW p \in Proc, ClaimEvent(p) PROVE Moved(p)
    BY <1>20, ClaimEventMoves DEF Continues, Ends, Moved, Becomes
  <1>21. ASSUME NEW p \in Proc, Defer(p) PROVE Moved(p)
    BY <1>21, DeferMoves DEF Continues, Ends, Moved, Becomes
  <1>22. ASSUME NEW p \in Proc, CommitQueued(p) PROVE Moved(p)
    BY <1>22, CommitQueuedMoves DEF Continues, Ends, Moved, Becomes
  <1>23. ASSUME NEW p \in Proc, Dies(p) PROVE Moved(p)
    BY <1>23, DiesMoves DEF Continues, Ends, Moved, Becomes
  <1>24. ASSUME NEW p \in Proc, Serve(p) \/ Dies(p) PROVE Moved(p)
    BY <1>10, <1>11, <1>12, <1>13, <1>14, <1>15, <1>16, <1>17, <1>18, <1>19, <1>20, <1>21, <1>22, <1>23, <1>24 DEF Serve
  <1>25. ASSUME NEW j \in Job, Deliver(j) PROVE proc' = proc
    BY <1>25 DEF Deliver
  <1>26. ASSUME NEW a \in Account, GraceElapses(a) PROVE proc' = proc
    BY <1>26 DEF GraceElapses
  <1> QED
    BY <1>1, <1>2, <1>3, <1>4, <1>5, <1>6, <1>7, <1>8, <1>9, <1>24, <1>25, <1>26 DEF Next, Arrive, Loop

\* Only Defer makes a job; a run of one keeps what it names.
LEMMA NextJobs ==
  ASSUME Next
  PROVE  \/ UNCHANGED jobs
         \/ \E p \in Proc : Defer(p)
         \/ \E j \in Job : Deliver(j)
  BY DEF Next, Arrive, BeginDelete, BeginReactivate, BeginPurge, BeginLogin, Begin, BeginNightly, BeginReconcile,
         Loop, NightlyNext, NightlyEnd, ReconcileNext, Serve, LoginUpdate, LoginMint, WriteStatus, WriteStale,
         Refresh, RevokeDeleted, LockUser, PurgeBump, PurgeRevokeRows, PurgeDelete, ClaimEvent, CommitQueued,
         Dies, GraceElapses, queue

LEMMA NextNothingRedacted == TypeInv /\ NothingRedacted /\ [Next]_vars => NothingRedacted'
  <1> SUFFICES ASSUME TypeInv, NothingRedacted, [Next]_vars PROVE NothingRedacted'
    OBVIOUS
  <1>1. CASE UNCHANGED vars
    BY <1>1 DEF vars, NothingRedacted, JobsNameTheirAccount
  <1>2. CASE Next
    <2>1. (\A p \in Proc : proc[p].redacted = {})'
      BY <1>2, NextMoves DEF NothingRedacted, Moved
    <2>2. CASE UNCHANGED jobs
      BY <2>1, <2>2 DEF NothingRedacted, JobsNameTheirAccount
    <2>3. ASSUME NEW p \in Proc, Defer(p) PROVE NothingRedacted'
      <3> DEFINE new == [event |-> proc[p].event, named |-> proc[p].event \notin proc[p].redacted,
                         state |-> "todo", tries |-> 0]
      <3>1. UNCHANGED jobs \/ jobs' = [jobs EXCEPT ![deferred + 1] = new]
        BY <2>3 DEF Defer, queue
      <3>2. new.named
        BY DEF NothingRedacted
      <3> HIDE DEF new
      <3>3. \A j \in Job : jobs'[j] \in {jobs[j], new}
        BY <3>1 DEF TypeInv, TypeOK
      <3> QED
        BY <2>1, <3>2, <3>3 DEF NothingRedacted, JobsNameTheirAccount
    <2>4. ASSUME NEW j \in Job, Deliver(j) PROVE NothingRedacted'
      <3>1. Retry(j) \/ jobs' = [jobs EXCEPT ![j].state = "done"]
        BY <2>4 DEF Deliver
      <3>2. \A i \in Job : jobs'[i].named = jobs[i].named
        <4>1. CASE jobs' = [jobs EXCEPT ![j].state = "done"]
          BY <4>1 DEF TypeInv, TypeOK, DeliveryJob
        <4>2. CASE Retry(j)
          <5> DEFINE new == [jobs[j] EXCEPT !.tries = jobs[j].tries + 1,
                                            !.state = IF jobs[j].tries + 1 < MaxTries THEN "todo" ELSE "failed"]
          <5>1. jobs' = [jobs EXCEPT ![j] = new]
            BY <4>2 DEF Retry
          <5>2. new.named = jobs[j].named
            BY DEF TypeInv, TypeOK, DeliveryJob
          <5> HIDE DEF new
          <5> QED
            BY <5>1, <5>2 DEF TypeInv, TypeOK
        <4> QED
          BY <3>1, <4>1, <4>2
      <3> QED
        BY <2>1, <3>2 DEF NothingRedacted, JobsNameTheirAccount
    <2> QED
      BY <1>2, <2>2, <2>3, <2>4, NextJobs
  <1> QED
    BY <1>1, <1>2

\* No job is ever built from a redacted row: the reconciler carries the payloads it
\* read across the delivery of an event, yet none of them was redacted when it read it.
THEOREM JobsNamed == Spec => []JobsNameTheirAccount
  <1>1. TypeInv /\ NothingRedacted => JobsNameTheirAccount
    BY DEF NothingRedacted
  <1> QED
    BY InitTypeInv, NextTypeInv, InitNothingRedacted, NextNothingRedacted, <1>1, PTL DEF Spec
-----------------------------------------------------------------------------
(* The last event of an account matches its row *)

LEMMA InitLastEventInv == Init => LastEventInv
  BY DEF Init, LastEventInv, NoEventYet

\* Rows and events are as they were, but for the queued and delivered marks.
SameEvents ==
    /\ UNCHANGED <<user, events>>
    /\ \A e \in Event : outbox'[e].acct = outbox[e].acct /\ outbox'[e].type = outbox[e].type

LEMMA NextEvents ==
  ASSUME TypeInv, Next
  PROVE  \/ SameEvents
         \/ \E p \in Proc : WriteStatus(p) \/ PurgeDelete(p)
         \/ \E a \in Account : GraceElapses(a)
  <1>1. ASSUME UNCHANGED <<user, events, outbox>> PROVE SameEvents
    BY <1>1 DEF SameEvents
  <1>2. ASSUME NEW p \in Proc, CommitQueued(p) PROVE SameEvents
    <2>1. outbox' \in {outbox, [outbox EXCEPT ![proc[p].event].queued = TRUE]}
      BY <1>2 DEF CommitQueued
    <2> QED
      BY <1>2, <2>1 DEF CommitQueued, account, SameEvents, TypeInv, TypeOK, OutboxRow
  <1>3. ASSUME NEW j \in Job, Deliver(j) PROVE SameEvents
    <2>1. outbox' \in {outbox, [outbox EXCEPT ![jobs[j].event].delivered = TRUE]}
      BY <1>3 DEF Deliver
    <2> QED
      BY <1>3, <2>1 DEF Deliver, account, SameEvents, TypeInv, TypeOK, OutboxRow
  <1> QED
    BY <1>1, <1>2, <1>3
    DEF Next, Arrive, BeginDelete, BeginReactivate, BeginPurge, BeginLogin, Begin, BeginNightly, BeginReconcile,
        Loop, NightlyNext, NightlyEnd, ReconcileNext, Serve, LoginUpdate, LoginMint, WriteStale, Refresh,
        RevokeDeleted, LockUser, PurgeBump, PurgeRevokeRows, ClaimEvent, Defer, Dies, account

\* A transition that appends the event of its account and leaves the other rows alone.
LEMMA AppendKeepsLast ==
  ASSUME TypeInv, LastEventInv, NEW a \in Account, NEW type \in {"soft_deleted", "reactivated", "purged"},
         Record(type, a), Matches(type, user'[a]), \A b \in Account \ {a} : user'[b] = user[b]
  PROVE  LastEventInv'
  <1>1. /\ events' = events + 1 /\ events \in Nat
        /\ outbox'[events + 1].acct = a /\ outbox'[events + 1].type = type
        /\ \A e \in 1..events : outbox'[e] = outbox[e]
    <2>1. outbox'[events + 1] = [type |-> type, acct |-> a, queued |-> FALSE, delivered |-> FALSE]
      BY RecordAppends DEF TypeInv
    <2>2. events' = events + 1 /\ \A e \in 1..events : outbox'[e] = outbox[e]
      BY RecordAppends DEF TypeInv
    <2>3. events \in Nat
      BY BoundAssumption DEF TypeInv, TypeOK
    <2>4. outbox'[events + 1].acct = a /\ outbox'[events + 1].type = type
      BY <2>1
    <2> QED
      BY <2>2, <2>3, <2>4
  <1>2. 1..events' = (1..events) \cup {events + 1}
    BY <1>1
  <1>3. ASSUME NEW b \in Account, b # a, NoEventYet(b) PROVE NoEventYet(b)'
    BY <1>1, <1>2, <1>3 DEF NoEventYet
  <1>4. ASSUME NEW b \in Account, b # a, NEW e \in 1..events, IsLastEvent(b, e)
        PROVE  IsLastEvent(b, e)'
    BY <1>1, <1>2, <1>4 DEF IsLastEvent
  <1>5. /\ events + 1 \in 1..events'
        /\ \A f \in 1..events' : f <= events + 1
        /\ Matches(outbox'[events + 1].type, user'[a])
    BY <1>1
  <1> QED
    <2> SUFFICES ASSUME NEW b \in Account
                 PROVE  \/ NoEventYet(b)' /\ user'[b].here
                        \/ \E e \in 1..events' : IsLastEvent(b, e)' /\ Matches(outbox'[e].type, user'[b])
      BY DEF LastEventInv
    <2>1. CASE b = a
      BY <1>1, <1>5, <2>1 DEF IsLastEvent
    <2>2. CASE b # a /\ NoEventYet(b) /\ user[b].here
      BY <1>3, <2>2
    <2>3. CASE b # a /\ \E e \in 1..events : IsLastEvent(b, e) /\ Matches(outbox[e].type, user[b])
      BY <1>1, <1>2, <1>4, <2>3
    <2> QED
      BY <2>1, <2>2, <2>3 DEF LastEventInv

LEMMA NextLastEventInv == TypeInv /\ LastEventInv /\ [Next]_vars => LastEventInv'
  <1> SUFFICES ASSUME TypeInv, LastEventInv, [Next]_vars PROVE LastEventInv'
    OBVIOUS
  <1>1. CASE SameEvents
    <2>1. 1..events \subseteq Event
      BY BoundAssumption DEF TypeInv, TypeOK, Event
    <2> QED
      BY <1>1, <2>1 DEF SameEvents, LastEventInv, NoEventYet, IsLastEvent
  <1>2. ASSUME NEW p \in Proc, WriteStatus(p) PROVE LastEventInv'
    <2> DEFINE a    == proc[p].acct
               on   == proc[p].op = "reactivate"
               type == IF on THEN "reactivated" ELSE "soft_deleted"
    <2>1. a \in Account /\ user[a] \in Row
      BY <1>2 DEF WriteStatus, At, TypeInv, TypeOK, ProcsKnowTheirWork
    <2>2. Record(type, a) /\ user' = [user EXCEPT ![a] = Written(proc[p].saw[a], user[a], on)] /\ user[a].here
      BY <1>2 DEF WriteStatus
    <2>3. Matches(type, Written(proc[p].saw[a], user[a], on))
      <3>1. CASE on
        BY <2>1, <2>2, <3>1 DEF Written, Matches, Row
      <3>2. CASE ~ on
        BY <2>1, <2>2, <3>2 DEF Written, Matches, Row
      <3> QED
        BY <3>1, <3>2
    <2>4. type \in {"soft_deleted", "reactivated", "purged"}
      OBVIOUS
    <2>5. Matches(type, user'[a]) /\ \A b \in Account \ {a} : user'[b] = user[b]
      BY <2>1, <2>2, <2>3 DEF TypeInv, TypeOK
    <2> HIDE DEF type, a
    <2> QED
      BY <2>1, <2>2, <2>4, <2>5, AppendKeepsLast
  <1>3. ASSUME NEW p \in Proc, PurgeDelete(p) PROVE LastEventInv'
    <2> DEFINE a == proc[p].acct
    <2>1. a \in Account /\ Record("purged", a) /\ user' = [user EXCEPT ![a] = Absent]
      BY <1>3 DEF PurgeDelete, At, TypeInv, ProcsKnowTheirWork
    <2>2. Matches("purged", user'[a]) /\ \A b \in Account \ {a} : user'[b] = user[b]
      BY <2>1 DEF TypeInv, TypeOK, Matches, Absent
    <2> HIDE DEF a
    <2> QED
      BY <2>1, <2>2, AppendKeepsLast
  <1>4. ASSUME NEW a \in Account, GraceElapses(a) PROVE LastEventInv'
    <2>1. UNCHANGED <<events, outbox>>
      BY <1>4 DEF GraceElapses
    <2>2. ASSUME NEW b \in Account
          PROVE  user'[b].here = user[b].here /\ (user'[b].deleted = "no" <=> user[b].deleted = "no")
      BY <1>4 DEF GraceElapses, TypeInv, TypeOK, Row
    <2> QED
      BY <2>1, <2>2 DEF LastEventInv, NoEventYet, IsLastEvent, Matches
  <1>5. CASE UNCHANGED vars
    <2>1. SameEvents
      BY <1>5 DEF vars, SameEvents
    <2> QED
      BY <1>1, <2>1
  <1> QED
    BY <1>1, <1>2, <1>3, <1>4, <1>5, NextEvents

\* The events of an account, read in commit order, end in the state its row is in,
\* whatever deletions, reactivations and purges overlap on it: the row and its event
\* are committed together, and a status change that finds no row commits neither.
THEOREM EventsMatchRows == Spec => []LastEventMatchesRow
  <1>1. TypeInv /\ LastEventInv => LastEventMatchesRow
    <2> SUFFICES ASSUME TypeInv, LastEventInv, NEW a \in Account
                 PROVE  CASE LastEvent(a) = "soft_deleted" -> user[a].here /\ user[a].deleted # "no"
                          [] LastEvent(a) = "reactivated" -> user[a].here /\ user[a].deleted = "no"
                          [] LastEvent(a) = "purged" -> ~ user[a].here
                          [] OTHER -> user[a].here
      BY DEF LastEventMatchesRow
    <2> DEFINE mine == {e \in 1..events : outbox[e].acct = a}
    <2>1. CASE NoEventYet(a) /\ user[a].here
      <3>1. mine = {}
        BY <2>1 DEF NoEventYet
      <3>2. LastEvent(a) = "none"
        BY <3>1 DEF LastEvent
      <3> QED
        BY <2>1, <3>2
    <2>2. ASSUME NEW e \in 1..events, IsLastEvent(a, e), Matches(outbox[e].type, user[a])
          PROVE  /\ LastEvent(a) = outbox[e].type
                 /\ Matches(LastEvent(a), user[a])
      <3>1. e \in mine /\ \A f \in mine : f <= e
        BY <2>2 DEF IsLastEvent
      <3>2. \A g \in mine : (\A f \in mine : f <= g) => g = e
        BY <3>1
      <3>3. (CHOOSE g \in mine : \A f \in mine : f <= g) = e
        BY <3>1, <3>2
      <3>4. LastEvent(a) = outbox[e].type
        BY <3>1, <3>3 DEF LastEvent
      <3> QED
        BY <2>2, <3>4
    <2>3. ASSUME Matches(LastEvent(a), user[a])
          PROVE  CASE LastEvent(a) = "soft_deleted" -> user[a].here /\ user[a].deleted # "no"
                   [] LastEvent(a) = "reactivated" -> user[a].here /\ user[a].deleted = "no"
                   [] LastEvent(a) = "purged" -> ~ user[a].here
                   [] OTHER -> user[a].here
      BY <2>3 DEF Matches
    <2> QED
      BY <2>1, <2>2, <2>3 DEF LastEventInv
  <1> QED
    BY InitTypeInv, NextTypeInv, InitLastEventInv, NextLastEventInv, <1>1, PTL DEF Spec
-----------------------------------------------------------------------------
(* A purged account is signed out *)

LEMMA InitSignOutInv == Init => SignOutInv
  BY DEF Init, SignOutInv, PurgesSignOutFirst, PurgedAccountsAreSignedOut, NoProc

\* A step that changes no account and starts no purge of one.
LEMMA QuietStep ==
  ASSUME SignOutInv, NEW p \in Proc, UNCHANGED account,
         \A q \in Proc \ {p} : proc'[q] = proc[q], proc'[p].pc \notin {"revoke_rows", "purge"}
  PROVE  SignOutInv'
  BY DEF SignOutInv, PurgesSignOutFirst, PurgedAccountsAreSignedOut, account

LEMMA NextSignOutInv == TypeInv /\ SignOutInv /\ [Next]_vars => SignOutInv'
  <1> SUFFICES ASSUME TypeInv, SignOutInv, [Next]_vars PROVE SignOutInv'
    OBVIOUS
  <1> USE DEF TypeInv
  <1>1. ASSUME NEW r \in Req, NEW a \in Account, BeginDelete(r, a) PROVE SignOutInv'
    <2>1. r \in Proc /\ proc'[r].pc \notin {"revoke_rows", "purge"} /\ \A q \in Proc \ {r} : proc'[q] = proc[q]
      BY <1>1, BeginMoves DEF BeginDelete, Operation, Pc, Becomes, Proc
    <2> QED
      BY <1>1, <2>1, QuietStep DEF BeginDelete, Begin
  <1>2. ASSUME NEW r \in Req, NEW a \in Account, BeginReactivate(r, a) PROVE SignOutInv'
    <2>1. r \in Proc /\ proc'[r].pc \notin {"revoke_rows", "purge"} /\ \A q \in Proc \ {r} : proc'[q] = proc[q]
      BY <1>2, BeginMoves DEF BeginReactivate, Operation, Pc, Becomes, Proc
    <2> QED
      BY <1>2, <2>1, QuietStep DEF BeginReactivate, Begin
  <1>3. ASSUME NEW r \in Req, NEW a \in Account, BeginPurge(r, a) PROVE SignOutInv'
    <2>1. r \in Proc /\ proc'[r].pc \notin {"revoke_rows", "purge"} /\ \A q \in Proc \ {r} : proc'[q] = proc[q]
      BY <1>3, BeginMoves DEF BeginPurge, Operation, Pc, Becomes, Proc
    <2> QED
      BY <1>3, <2>1, QuietStep DEF BeginPurge, Begin
  <1>4. ASSUME NEW r \in Req, NEW a \in Account, BeginLogin(r, a) PROVE SignOutInv'
    <2>1. r \in Proc /\ proc'[r].pc \notin {"revoke_rows", "purge"} /\ \A q \in Proc \ {r} : proc'[q] = proc[q]
      BY <1>4, BeginMoves DEF BeginLogin, Operation, Pc, Becomes, Proc
    <2> QED
      BY <1>4, <2>1, QuietStep DEF BeginLogin, Begin
  <1>5. ASSUME BeginNightly PROVE SignOutInv'
    <2>1. Nightly \in Proc /\ proc'[Nightly].pc \notin {"revoke_rows", "purge"} /\ \A q \in Proc \ {Nightly} : proc'[q] = proc[q]
      BY <1>5, BeginNightlyMoves DEF Becomes, Proc
    <2> QED
      BY <1>5, <2>1, QuietStep DEF BeginNightly
  <1>6. ASSUME BeginReconcile PROVE SignOutInv'
    <2>1. Reconciler \in Proc /\ proc'[Reconciler].pc \notin {"revoke_rows", "purge"} /\ \A q \in Proc \ {Reconciler} : proc'[q] = proc[q]
      BY <1>6, BeginReconcileMoves DEF Becomes, Proc
    <2> QED
      BY <1>6, <2>1, QuietStep DEF BeginReconcile
  <1>7. ASSUME NEW a \in Account, NightlyNext(a) PROVE SignOutInv'
    <2>1. Nightly \in Proc /\ proc'[Nightly].pc \notin {"revoke_rows", "purge"} /\ \A q \in Proc \ {Nightly} : proc'[q] = proc[q]
      BY <1>7, NightlyNextMoves DEF Becomes, Proc
    <2> QED
      BY <1>7, <2>1, QuietStep DEF NightlyNext
  <1>8. ASSUME NightlyEnd PROVE SignOutInv'
    <2>1. Nightly \in Proc /\ proc'[Nightly].pc \notin {"revoke_rows", "purge"} /\ \A q \in Proc \ {Nightly} : proc'[q] = proc[q]
      BY <1>8, FinishMoves DEF NightlyEnd, TypeOK, Ends, Becomes, Proc
    <2> QED
      BY <1>8, <2>1, QuietStep DEF NightlyEnd
  <1>9. ASSUME ReconcileNext PROVE SignOutInv'
    <2>1. Reconciler \in Proc /\ proc'[Reconciler].pc \notin {"revoke_rows", "purge"}
          /\ \A q \in Proc \ {Reconciler} : proc'[q] = proc[q]
      <3>1. CASE proc[Reconciler].todo = {}
        BY <1>9, <3>1, FinishMoves DEF ReconcileNext, TypeOK, Ends, Becomes, Proc
      <3>2. CASE proc[Reconciler].todo # {}
        BY <1>9, <3>2, ReconcileNextMoves DEF Becomes, Proc
      <3> QED
        BY <3>1, <3>2
    <2> QED
      BY <1>9, <2>1, QuietStep DEF ReconcileNext
  <1>10. ASSUME NEW p \in Proc, LoginUpdate(p) PROVE SignOutInv'
    <2>1. proc'[p].pc \notin {"revoke_rows", "purge"} /\ \A q \in Proc \ {p} : proc'[q] = proc[q]
      BY <1>10, LoginUpdateMoves DEF Continues, Ends, Becomes
    <2> QED
      BY <1>10, <2>1, QuietStep DEF LoginUpdate
  <1>11. ASSUME NEW p \in Proc, WriteStale(p) PROVE SignOutInv'
    <2>1. proc'[p].pc \notin {"revoke_rows", "purge"} /\ \A q \in Proc \ {p} : proc'[q] = proc[q]
      BY <1>11, WriteStaleMoves DEF Continues, Ends, Becomes
    <2> QED
      BY <1>11, <2>1, QuietStep DEF WriteStale
  <1>12. ASSUME NEW p \in Proc, Refresh(p) PROVE SignOutInv'
    <2>1. proc'[p].pc \notin {"revoke_rows", "purge"} /\ \A q \in Proc \ {p} : proc'[q] = proc[q]
      BY <1>12, RefreshMoves DEF Continues, Ends, Becomes
    <2> QED
      BY <1>12, <2>1, QuietStep DEF Refresh
  <1>13. ASSUME NEW p \in Proc, LockUser(p) PROVE SignOutInv'
    <2>1. proc'[p].pc \notin {"revoke_rows", "purge"} /\ \A q \in Proc \ {p} : proc'[q] = proc[q]
      BY <1>13, LockUserMoves DEF Continues, Ends, Becomes
    <2> QED
      BY <1>13, <2>1, QuietStep DEF LockUser
  <1>14. ASSUME NEW p \in Proc, ClaimEvent(p) PROVE SignOutInv'
    <2>1. proc'[p].pc \notin {"revoke_rows", "purge"} /\ \A q \in Proc \ {p} : proc'[q] = proc[q]
      BY <1>14, ClaimEventMoves DEF Continues, Ends, Becomes
    <2> QED
      BY <1>14, <2>1, QuietStep DEF ClaimEvent
  <1>15. ASSUME NEW p \in Proc, Defer(p) PROVE SignOutInv'
    <2>1. proc'[p].pc \notin {"revoke_rows", "purge"} /\ \A q \in Proc \ {p} : proc'[q] = proc[q]
      BY <1>15, DeferMoves DEF Continues, Ends, Becomes
    <2> QED
      BY <1>15, <2>1, QuietStep DEF Defer
  <1>16. ASSUME NEW p \in Proc, CommitQueued(p) PROVE SignOutInv'
    <2>1. proc'[p].pc \notin {"revoke_rows", "purge"} /\ \A q \in Proc \ {p} : proc'[q] = proc[q]
      BY <1>16, CommitQueuedMoves DEF Continues, Ends, Becomes
    <2> QED
      BY <1>16, <2>1, QuietStep DEF CommitQueued
  <1>17. ASSUME NEW p \in Proc, Dies(p) PROVE SignOutInv'
    <2>1. proc'[p].pc \notin {"revoke_rows", "purge"} /\ \A q \in Proc \ {p} : proc'[q] = proc[q]
      BY <1>17, DiesMoves DEF Continues, Ends, Becomes
    <2> QED
      BY <1>17, <2>1, QuietStep DEF Dies
  <1>18. ASSUME NEW p \in Proc, LoginMint(p) PROVE SignOutInv'
    <2> DEFINE a == proc[p].acct
    <2>1. Ends(p)
      BY <1>18, LoginMintMoves
    <2>2. a \in Account /\ At(p, "mint")
      BY <1>18 DEF LoginMint, At, ProcsKnowTheirWork
    <2>3. /\ \A b \in Account \ {a} : live'[b] = live[b] /\ late'[b] = late[b]
          /\ late'[a] = (late[a] \/ Bumped(a) \/ ~ user[a].here) /\ UNCHANGED user
      <3> DEFINE new == late[a] \/ Bumped(a) \/ ~ user[a].here
      <3>1. live' = [live EXCEPT ![a] = TRUE] /\ late' = [late EXCEPT ![a] = new] /\ UNCHANGED user
        BY <1>18 DEF LoginMint
      <3> HIDE DEF new
      <3>2. /\ \A b \in Account \ {a} : live'[b] = live[b] /\ late'[b] = late[b]
            /\ late'[a] = new
        BY <2>2, <3>1 DEF TypeOK
      <3> QED
        BY <3>1, <3>2 DEF new
    <2>4. ASSUME NEW q \in Proc, proc'[q].pc \in {"revoke_rows", "purge"}
          PROVE  q # p /\ proc'[q] = proc[q] /\ proc[q].acct \in Account
      BY <2>1, <2>4 DEF Ends, Becomes, ProcsKnowTheirWork
    <2>5. PurgesSignOutFirst'
      <3> SUFFICES ASSUME NEW q \in Proc, proc'[q].pc \in {"revoke_rows", "purge"}, live'[proc'[q].acct]
                   PROVE  late'[proc'[q].acct]
        BY DEF PurgesSignOutFirst
      <3>1. CASE proc[q].acct = a
        BY <2>3, <2>4, <3>1 DEF Bumped
      <3>2. CASE proc[q].acct # a
        BY <2>3, <2>4, <3>2 DEF SignOutInv, PurgesSignOutFirst
      <3> QED
        BY <3>1, <3>2
    <2>6. PurgedAccountsAreSignedOut'
      <3> SUFFICES ASSUME NEW b \in Account, ~ user'[b].here, live'[b]
                   PROVE  late'[b]
        BY DEF PurgedAccountsAreSignedOut
      <3> QED
        BY <2>2, <2>3 DEF SignOutInv, PurgedAccountsAreSignedOut
    <2> QED
      BY <2>5, <2>6 DEF SignOutInv
  <1>19. ASSUME NEW p \in Proc, WriteStatus(p) PROVE SignOutInv'
    <2>1. proc'[p].pc \notin {"revoke_rows", "purge"} /\ \A q \in Proc \ {p} : proc'[q] = proc[q]
      BY <1>19, WriteStatusMoves DEF Becomes
    <2>2. UNCHANGED <<live, late>> /\ user[proc[p].acct].here /\ proc[p].acct \in Account
      BY <1>19 DEF WriteStatus, At, ProcsKnowTheirWork
    <2>3. \A b \in Account : user'[b].here = user[b].here
      <3> DEFINE row == Written(proc[p].saw[proc[p].acct], user[proc[p].acct], proc[p].op = "reactivate")
      <3>1. user' = [user EXCEPT ![proc[p].acct] = row]
        BY <1>19 DEF WriteStatus
      <3>2. row.here = user[proc[p].acct].here
        BY <2>2 DEF Written, TypeOK, Row
      <3> HIDE DEF row
      <3> QED
        BY <3>1, <3>2, <2>2 DEF TypeOK
    <2> QED
      BY <2>1, <2>2, <2>3 DEF SignOutInv, PurgesSignOutFirst, PurgedAccountsAreSignedOut
  <1>20. ASSUME NEW p \in Proc, RevokeDeleted(p) PROVE SignOutInv'
    <2>1. proc'[p].pc \notin {"revoke_rows", "purge"} /\ \A q \in Proc \ {p} : proc'[q] = proc[q]
      BY <1>20, RevokeDeletedMoves DEF Ends, Becomes
    <2>2. UNCHANGED <<user, late>> /\ live' \in {live, [live EXCEPT ![proc[p].acct] = FALSE]}
      BY <1>20 DEF RevokeDeleted
    <2>3. \A q \in Proc : proc[q].pc \in {"revoke_rows", "purge"} => proc[q].acct \in Account
      BY DEF ProcsKnowTheirWork
    <2>4. \A b \in Account : live'[b] => live[b]
      BY <2>2 DEF TypeOK
    <2> QED
      BY <2>1, <2>2, <2>3, <2>4 DEF SignOutInv, PurgesSignOutFirst, PurgedAccountsAreSignedOut
  <1>21. ASSUME NEW p \in Proc, PurgeBump(p) PROVE SignOutInv'
    <2> DEFINE a == proc[p].acct
    <2>1. UNCHANGED user
      BY <1>21 DEF PurgeBump
    <2>2. \A q \in Proc : proc[q].pc \in {"bump", "revoke_rows", "purge"} => proc[q].acct \in Account
      BY DEF ProcsKnowTheirWork
    <2>3. At(p, "bump")
      BY <1>21 DEF PurgeBump
    <2>4. CASE Continues(p, "revoke_rows") /\ live' = [live EXCEPT ![a] = FALSE] /\ late' = [late EXCEPT ![a] = FALSE]
      <3>1. /\ ~ live'[a]
            /\ \A b \in Account \ {a} : live'[b] = live[b] /\ late'[b] = late[b]
        BY <2>2, <2>3, <2>4 DEF At, TypeOK
      <3>2. proc'[p].acct = a /\ \A q \in Proc \ {p} : proc'[q] = proc[q]
        BY <2>4 DEF Continues, Becomes
      <3> HIDE DEF a
      <3> QED
        BY <2>1, <2>2, <3>1, <3>2 DEF SignOutInv, PurgesSignOutFirst, PurgedAccountsAreSignedOut
    <2>5. CASE /\ Continues(p, "next") \/ Ends(p)
               /\ live' \in {live, [live EXCEPT ![a] = FALSE]} /\ UNCHANGED late
      <3>1. proc'[p].pc \notin {"revoke_rows", "purge"} /\ \A q \in Proc \ {p} : proc'[q] = proc[q]
        BY <2>5 DEF Continues, Ends, Becomes
      <3>2. \A b \in Account : live'[b] => live[b]
        BY <2>5 DEF TypeOK
      <3> QED
        BY <2>1, <2>2, <2>5, <3>1, <3>2 DEF SignOutInv, PurgesSignOutFirst, PurgedAccountsAreSignedOut
    <2> QED
      BY <1>21, <2>4, <2>5, PurgeBumpMoves
  <1>22. ASSUME NEW p \in Proc, PurgeRevokeRows(p) PROVE SignOutInv'
    <2>1. proc'[p].acct = proc[p].acct /\ \A q \in Proc \ {p} : proc'[q] = proc[q]
      BY <1>22, PurgeRevokeRowsMoves DEF Continues, Becomes
    <2> QED
      BY <1>22, <2>1 DEF PurgeRevokeRows, At, account, SignOutInv, PurgesSignOutFirst, PurgedAccountsAreSignedOut
  <1>23. ASSUME NEW p \in Proc, PurgeDelete(p) PROVE SignOutInv'
    <2> DEFINE a == proc[p].acct
    <2>1. proc'[p].pc \notin {"revoke_rows", "purge"} /\ \A q \in Proc \ {p} : proc'[q] = proc[q]
      BY <1>23, PurgeDeleteMoves DEF Becomes
    <2>2. UNCHANGED <<live, late>> /\ \A b \in Account \ {a} : user'[b] = user[b]
      BY <1>23 DEF PurgeDelete, TypeOK
    <2>3. live[a] => late[a]
      BY <1>23 DEF PurgeDelete, At, SignOutInv, PurgesSignOutFirst
    <2> HIDE DEF a
    <2> QED
      BY <2>1, <2>2, <2>3 DEF SignOutInv, PurgesSignOutFirst, PurgedAccountsAreSignedOut
  <1>24. ASSUME NEW j \in Job, Deliver(j) PROVE SignOutInv'
    BY <1>24 DEF Deliver, account, SignOutInv, PurgesSignOutFirst, PurgedAccountsAreSignedOut
  <1>25. ASSUME NEW a \in Account, GraceElapses(a) PROVE SignOutInv'
    <2>1. \A b \in Account : user'[b].here = user[b].here
      BY <1>25 DEF GraceElapses, TypeOK, Row
    <2> QED
      BY <1>25, <2>1 DEF GraceElapses, SignOutInv, PurgesSignOutFirst, PurgedAccountsAreSignedOut
  <1>26. CASE UNCHANGED vars
    BY <1>26 DEF vars, SignOutInv, PurgesSignOutFirst, PurgedAccountsAreSignedOut
  <1> QED
    BY <1>1, <1>2, <1>3, <1>4, <1>5, <1>6, <1>7, <1>8, <1>9, <1>10, <1>11, <1>12, <1>13, <1>14, <1>15, <1>16, <1>17, <1>18, <1>19, <1>20, <1>21, <1>22, <1>23, <1>24, <1>25, <1>26 DEF Next, Arrive, Serve, Loop

\* A purged account keeps no session but one minted since its purge revoked them:
\* the row is deleted by nobody whose revocation was not confirmed first.
THEOREM PurgedSignedOut == Spec => []PurgedAccountsAreSignedOut
  <1>1. SignOutInv => PurgedAccountsAreSignedOut
    BY DEF SignOutInv
  <1> QED
    BY InitTypeInv, NextTypeInv, InitSignOutInv, NextSignOutInv, <1>1, PTL DEF Spec
-----------------------------------------------------------------------------
(* One job for an event *)

LEMMA JobsAreFinite ==
  ASSUME NEW e
  PROVE  IsFiniteSet(JobsOf(e)) /\ Cardinality(JobsOf(e)) \in Nat
  <1>1. IsFiniteSet(Job)
    BY FS_Interval, BoundAssumption DEF Job
  <1>2. JobsOf(e) \subseteq Job
    BY DEF JobsOf
  <1> QED
    BY <1>1, <1>2, FS_Subset, FS_CardinalityType

LEMMA NoJobsYet ==
  ASSUME JobsAreForEvents, NEW e \in Nat, events \in Nat, jobs \in [Job -> DeliveryJob], e > events
  PROVE  Cardinality(JobsOf(e)) = 0
  <1>1. JobsOf(e) = {}
    BY DEF JobsOf, JobsAreForEvents, DeliveryJob
  <1> QED
    BY <1>1, FS_EmptySet

LEMMA InitJobInv == Init => JobInv
  <1> SUFFICES ASSUME Init PROVE JobInv
    OBVIOUS
  <1>1. JobsAreForEvents
    BY DEF Init, JobsAreForEvents, NoJob
  <1>2. ClaimsAreExclusive
    BY DEF Init, ClaimsAreExclusive, NoProc
  <1>3. ASSUME NEW e \in Event PROVE Cardinality(JobsOf(e)) = 0
    <2>1. e \in Nat /\ e > events /\ events \in Nat /\ jobs \in [Job -> DeliveryJob]
      BY BoundAssumption DEF Init, Event, NoJob, DeliveryJob
    <2> QED
      BY <1>1, <2>1, NoJobsYet
  <1>4. LostMarksAreFaults
    BY <1>3 DEF Init, LostMarksAreFaults
  <1> QED
    BY <1>1, <1>2, <1>4 DEF JobInv

\* A step that defers nothing, marks nothing and claims nothing; whoever gives up a
\* claim after its job was deferred has failed.
QuietForJobs ==
    /\ events' \in Nat /\ events <= events'
    /\ faults' \in {faults, faults + 1}
    /\ \A j \in Job : jobs'[j].event = jobs[j].event
    /\ \A e \in 1..events : outbox'[e].queued = outbox[e].queued
    /\ \A q \in Proc : \/ proc'[q] = proc[q]
                       \/ /\ proc'[q].pc \notin {"defer", "commit"}
                          /\ proc[q].pc = "commit" => faults' = faults + 1

LEMMA QuietKeepsJobInv ==
  ASSUME TypeInv, JobInv, QuietForJobs
  PROVE  JobInv'
  <1>1. events \in Nat /\ faults \in Nat /\ faults' \in Nat /\ faults <= faults' /\ jobs \in [Job -> DeliveryJob]
    BY BoundAssumption DEF TypeInv, TypeOK, QuietForJobs
  <1>2. JobsAreForEvents'
    BY <1>1 DEF JobInv, JobsAreForEvents, QuietForJobs, DeliveryJob
  <1>3. ASSUME NEW q \in Proc, proc'[q].pc \in {"defer", "commit"}
        PROVE  proc'[q] = proc[q] /\ proc[q].event \in 1..events
    BY <1>1, <1>3 DEF QuietForJobs, TypeInv, TypeOK, ProcsKnowTheirWork, Process
  <1>4. ClaimsAreExclusive'
    BY <1>3 DEF JobInv, ClaimsAreExclusive, QuietForJobs
  <1>5. ASSUME NEW e \in Event
        PROVE  /\ Cardinality(JobsOf(e))' <= 1 + faults'
               /\ ~ outbox'[e].queued /\ (\A p \in Proc : ~ (proc'[p].pc = "commit" /\ proc'[p].event = e))
                    => Cardinality(JobsOf(e))' <= faults'
    <2>1. JobsOf(e)' = JobsOf(e) /\ Cardinality(JobsOf(e)) \in Nat
      BY JobsAreFinite DEF JobsOf, QuietForJobs
    <2>2. CASE e > events
      BY <1>1, <2>1, <2>2, NoJobsYet DEF JobInv, Event
    <2>3. CASE e \in 1..events
      <3>1. Cardinality(JobsOf(e)) <= 1 + faults
        BY DEF JobInv, LostMarksAreFaults
      <3>2. CASE \E p \in Proc : proc[p].pc = "commit" /\ proc[p].event = e /\ proc'[p] # proc[p]
        BY <1>1, <2>1, <3>1, <3>2 DEF QuietForJobs
      <3>3. CASE \A p \in Proc : proc[p].pc = "commit" /\ proc[p].event = e => proc'[p] = proc[p]
        <4>1. ASSUME ~ outbox'[e].queued, \A p \in Proc : ~ (proc'[p].pc = "commit" /\ proc'[p].event = e)
              PROVE  Cardinality(JobsOf(e)) <= faults
          BY <2>3, <3>3, <4>1 DEF JobInv, LostMarksAreFaults, QuietForJobs
        <4> QED
          BY <1>1, <2>1, <3>1, <4>1
      <3> QED
        BY <3>2, <3>3
    <2> QED
      BY <1>1, <2>2, <2>3 DEF Event
  <1> QED
    BY <1>2, <1>4, <1>5 DEF JobInv, LostMarksAreFaults

LEMMA NextJobInv == TypeInv /\ JobInv /\ [Next]_vars => JobInv'
  <1> SUFFICES ASSUME TypeInv, JobInv, [Next]_vars PROVE JobInv'
    OBVIOUS
  <1> USE DEF TypeInv
  <1>a. events \in Nat /\ events <= events /\ faults \in Nat
    BY BoundAssumption DEF TypeOK
  <1>1. ASSUME NEW r \in Req, NEW a \in Account, BeginDelete(r, a) PROVE JobInv'
    <2>1. /\ proc'[r].pc \notin {"defer", "commit"} /\ proc[r].pc = "idle"
          /\ \A q \in Proc \ {r} : proc'[q] = proc[q]
      BY <1>1, BeginMoves DEF BeginDelete, Begin, At, Operation, Pc, Becomes
    <2>2. UNCHANGED <<events, outbox, jobs, faults>>
      BY <1>1 DEF BeginDelete, Begin, queue
    <2> QED
      BY <1>a, <2>1, <2>2, QuietKeepsJobInv DEF QuietForJobs
  <1>2. ASSUME NEW r \in Req, NEW a \in Account, BeginReactivate(r, a) PROVE JobInv'
    <2>1. /\ proc'[r].pc \notin {"defer", "commit"} /\ proc[r].pc = "idle"
          /\ \A q \in Proc \ {r} : proc'[q] = proc[q]
      BY <1>2, BeginMoves DEF BeginReactivate, Begin, At, Operation, Pc, Becomes
    <2>2. UNCHANGED <<events, outbox, jobs, faults>>
      BY <1>2 DEF BeginReactivate, Begin, queue
    <2> QED
      BY <1>a, <2>1, <2>2, QuietKeepsJobInv DEF QuietForJobs
  <1>3. ASSUME NEW r \in Req, NEW a \in Account, BeginPurge(r, a) PROVE JobInv'
    <2>1. /\ proc'[r].pc \notin {"defer", "commit"} /\ proc[r].pc = "idle"
          /\ \A q \in Proc \ {r} : proc'[q] = proc[q]
      BY <1>3, BeginMoves DEF BeginPurge, Begin, At, Operation, Pc, Becomes
    <2>2. UNCHANGED <<events, outbox, jobs, faults>>
      BY <1>3 DEF BeginPurge, Begin, queue
    <2> QED
      BY <1>a, <2>1, <2>2, QuietKeepsJobInv DEF QuietForJobs
  <1>4. ASSUME NEW r \in Req, NEW a \in Account, BeginLogin(r, a) PROVE JobInv'
    <2>1. /\ proc'[r].pc \notin {"defer", "commit"} /\ proc[r].pc = "idle"
          /\ \A q \in Proc \ {r} : proc'[q] = proc[q]
      BY <1>4, BeginMoves DEF BeginLogin, Begin, At, Operation, Pc, Becomes
    <2>2. UNCHANGED <<events, outbox, jobs, faults>>
      BY <1>4 DEF BeginLogin, Begin, queue
    <2> QED
      BY <1>a, <2>1, <2>2, QuietKeepsJobInv DEF QuietForJobs
  <1>5. ASSUME BeginNightly PROVE JobInv'
    <2>1. /\ proc'[Nightly].pc \notin {"defer", "commit"} /\ proc[Nightly].pc = "idle"
          /\ \A q \in Proc \ {Nightly} : proc'[q] = proc[q]
      BY <1>5, BeginNightlyMoves DEF BeginNightly, At, Becomes
    <2>2. UNCHANGED <<events, outbox, jobs, faults>>
      BY <1>5 DEF BeginNightly, queue
    <2> QED
      BY <1>a, <2>1, <2>2, QuietKeepsJobInv DEF QuietForJobs
  <1>6. ASSUME BeginReconcile PROVE JobInv'
    <2>1. /\ proc'[Reconciler].pc \notin {"defer", "commit"} /\ proc[Reconciler].pc = "idle"
          /\ \A q \in Proc \ {Reconciler} : proc'[q] = proc[q]
      BY <1>6, BeginReconcileMoves DEF BeginReconcile, At, Becomes
    <2>2. UNCHANGED <<events, outbox, jobs, faults>>
      BY <1>6 DEF BeginReconcile, queue
    <2> QED
      BY <1>a, <2>1, <2>2, QuietKeepsJobInv DEF QuietForJobs
  <1>7. ASSUME NEW a \in Account, NightlyNext(a) PROVE JobInv'
    <2>1. /\ proc'[Nightly].pc \notin {"defer", "commit"} /\ proc[Nightly].pc = "next"
          /\ \A q \in Proc \ {Nightly} : proc'[q] = proc[q]
      BY <1>7, NightlyNextMoves DEF NightlyNext, At, Becomes
    <2>2. UNCHANGED <<events, outbox, jobs, faults>>
      BY <1>7 DEF NightlyNext, queue
    <2> QED
      BY <1>a, <2>1, <2>2, QuietKeepsJobInv DEF QuietForJobs
  <1>8. ASSUME NightlyEnd PROVE JobInv'
    <2>1. /\ proc'[Nightly].pc \notin {"defer", "commit"} /\ proc[Nightly].pc = "next"
          /\ \A q \in Proc \ {Nightly} : proc'[q] = proc[q]
      BY <1>8, FinishMoves DEF NightlyEnd, At, Proc, TypeOK, Ends, Becomes
    <2>2. UNCHANGED <<events, outbox, jobs, faults>>
      BY <1>8 DEF NightlyEnd, queue
    <2> QED
      BY <1>a, <2>1, <2>2, QuietKeepsJobInv DEF QuietForJobs
  <1>9. ASSUME ReconcileNext PROVE JobInv'
    <2>1. proc'[Reconciler].pc \notin {"defer", "commit"} /\ \A q \in Proc \ {Reconciler} : proc'[q] = proc[q]
      <3>1. CASE proc[Reconciler].todo = {}
        BY <1>9, <3>1, FinishMoves DEF ReconcileNext, TypeOK, Ends, Becomes, Proc
      <3>2. CASE proc[Reconciler].todo # {}
        BY <1>9, <3>2, ReconcileNextMoves DEF Becomes, Proc
      <3> QED
        BY <3>1, <3>2
    <2>2. proc[Reconciler].pc = "next" /\ UNCHANGED <<events, outbox, jobs, faults>>
      BY <1>9 DEF ReconcileNext, At, queue
    <2> QED
      BY <1>a, <2>1, <2>2, QuietKeepsJobInv DEF QuietForJobs
  <1>10. ASSUME NEW p \in Proc, LoginUpdate(p) PROVE JobInv'
    <2>1. proc'[p].pc \notin {"defer", "commit"} /\ \A q \in Proc \ {p} : proc'[q] = proc[q]
      BY <1>10, LoginUpdateMoves DEF Continues, Ends, Becomes
    <2>2. /\ UNCHANGED <<events, outbox, jobs>> /\ faults' \in {faults, faults + 1}
          /\ proc[p].pc # "commit"
      BY <1>10 DEF LoginUpdate, At, queue
    <2> QED
      BY <1>a, <2>1, <2>2, QuietKeepsJobInv DEF QuietForJobs
  <1>11. ASSUME NEW p \in Proc, LoginMint(p) PROVE JobInv'
    <2>1. proc'[p].pc \notin {"defer", "commit"} /\ \A q \in Proc \ {p} : proc'[q] = proc[q]
      BY <1>11, LoginMintMoves DEF Continues, Ends, Becomes
    <2>2. /\ UNCHANGED <<events, outbox, jobs>> /\ faults' \in {faults, faults + 1}
          /\ proc[p].pc # "commit"
      BY <1>11 DEF LoginMint, At, queue
    <2> QED
      BY <1>a, <2>1, <2>2, QuietKeepsJobInv DEF QuietForJobs
  <1>12. ASSUME NEW p \in Proc, WriteStale(p) PROVE JobInv'
    <2>1. proc'[p].pc \notin {"defer", "commit"} /\ \A q \in Proc \ {p} : proc'[q] = proc[q]
      BY <1>12, WriteStaleMoves DEF Continues, Ends, Becomes
    <2>2. /\ UNCHANGED <<events, outbox, jobs>> /\ faults' \in {faults, faults + 1}
          /\ proc[p].pc # "commit"
      BY <1>12 DEF WriteStale, At, queue
    <2> QED
      BY <1>a, <2>1, <2>2, QuietKeepsJobInv DEF QuietForJobs
  <1>13. ASSUME NEW p \in Proc, Refresh(p) PROVE JobInv'
    <2>1. proc'[p].pc \notin {"defer", "commit"} /\ \A q \in Proc \ {p} : proc'[q] = proc[q]
      BY <1>13, RefreshMoves DEF Continues, Ends, Becomes
    <2>2. /\ UNCHANGED <<events, outbox, jobs>> /\ faults' \in {faults, faults + 1}
          /\ proc[p].pc # "commit"
      BY <1>13 DEF Refresh, At, queue
    <2> QED
      BY <1>a, <2>1, <2>2, QuietKeepsJobInv DEF QuietForJobs
  <1>14. ASSUME NEW p \in Proc, RevokeDeleted(p) PROVE JobInv'
    <2>1. proc'[p].pc \notin {"defer", "commit"} /\ \A q \in Proc \ {p} : proc'[q] = proc[q]
      BY <1>14, RevokeDeletedMoves DEF Continues, Ends, Becomes
    <2>2. /\ UNCHANGED <<events, outbox, jobs>> /\ faults' \in {faults, faults + 1}
          /\ proc[p].pc # "commit"
      BY <1>14 DEF RevokeDeleted, At, queue, Sound, Fault
    <2> QED
      BY <1>a, <2>1, <2>2, QuietKeepsJobInv DEF QuietForJobs
  <1>15. ASSUME NEW p \in Proc, LockUser(p) PROVE JobInv'
    <2>1. proc'[p].pc \notin {"defer", "commit"} /\ \A q \in Proc \ {p} : proc'[q] = proc[q]
      BY <1>15, LockUserMoves DEF Continues, Ends, Becomes
    <2>2. /\ UNCHANGED <<events, outbox, jobs>> /\ faults' \in {faults, faults + 1}
          /\ proc[p].pc # "commit"
      BY <1>15 DEF LockUser, At, queue
    <2> QED
      BY <1>a, <2>1, <2>2, QuietKeepsJobInv DEF QuietForJobs
  <1>16. ASSUME NEW p \in Proc, PurgeBump(p) PROVE JobInv'
    <2>1. proc'[p].pc \notin {"defer", "commit"} /\ \A q \in Proc \ {p} : proc'[q] = proc[q]
      BY <1>16, PurgeBumpMoves DEF Continues, Ends, Becomes
    <2>2. /\ UNCHANGED <<events, outbox, jobs>> /\ faults' \in {faults, faults + 1}
          /\ proc[p].pc # "commit"
      BY <1>16 DEF PurgeBump, At, queue, Sound, Fault
    <2> QED
      BY <1>a, <2>1, <2>2, QuietKeepsJobInv DEF QuietForJobs
  <1>17. ASSUME NEW p \in Proc, PurgeRevokeRows(p) PROVE JobInv'
    <2>1. proc'[p].pc \notin {"defer", "commit"} /\ \A q \in Proc \ {p} : proc'[q] = proc[q]
      BY <1>17, PurgeRevokeRowsMoves DEF Continues, Ends, Becomes
    <2>2. /\ UNCHANGED <<events, outbox, jobs>> /\ faults' \in {faults, faults + 1}
          /\ proc[p].pc # "commit"
      BY <1>17 DEF PurgeRevokeRows, At, queue
    <2> QED
      BY <1>a, <2>1, <2>2, QuietKeepsJobInv DEF QuietForJobs
  <1>18. ASSUME NEW p \in Proc, Dies(p) PROVE JobInv'
    <2>1. proc'[p].pc \notin {"defer", "commit"} /\ \A q \in Proc \ {p} : proc'[q] = proc[q]
      BY <1>18, DiesMoves DEF Continues, Ends, Becomes
    <2>2. /\ UNCHANGED <<events, outbox, jobs>> /\ faults' \in {faults, faults + 1}
          /\ proc[p].pc = "commit" => faults' = faults + 1
      BY <1>18 DEF Dies, At, queue, Sound, Fault
    <2> QED
      BY <1>a, <2>1, <2>2, QuietKeepsJobInv DEF QuietForJobs
  <1>19. ASSUME NEW p \in Proc, WriteStatus(p) PROVE JobInv'
    <2>1. proc'[p].pc \notin {"defer", "commit"} /\ \A q \in Proc \ {p} : proc'[q] = proc[q]
      BY <1>19, WriteStatusMoves DEF Becomes
    <2>2. PICK type \in {"soft_deleted", "reactivated", "purged"} : Record(type, proc[p].acct)
      BY <1>19 DEF WriteStatus
    <2>3. events' = events + 1 /\ \A e \in 1..events : outbox'[e] = outbox[e]
      BY <1>19, <2>2, RecordAppends DEF WriteStatus, At, ProcsKnowTheirWork
    <2>4. UNCHANGED <<jobs, faults>> /\ proc[p].pc # "commit"
      BY <1>19 DEF WriteStatus, At, queue
    <2> QED
      BY <1>a, <2>1, <2>3, <2>4, QuietKeepsJobInv DEF QuietForJobs
  <1>20. ASSUME NEW p \in Proc, PurgeDelete(p) PROVE JobInv'
    <2>1. proc'[p].pc \notin {"defer", "commit"} /\ \A q \in Proc \ {p} : proc'[q] = proc[q]
      BY <1>20, PurgeDeleteMoves DEF Becomes
    <2>2. PICK type \in {"soft_deleted", "reactivated", "purged"} : Record(type, proc[p].acct)
      BY <1>20 DEF PurgeDelete
    <2>3. events' = events + 1 /\ \A e \in 1..events : outbox'[e] = outbox[e]
      BY <1>20, <2>2, RecordAppends DEF PurgeDelete, At, ProcsKnowTheirWork
    <2>4. UNCHANGED <<jobs, faults>> /\ proc[p].pc # "commit"
      BY <1>20 DEF PurgeDelete, At, queue
    <2> QED
      BY <1>a, <2>1, <2>3, <2>4, QuietKeepsJobInv DEF QuietForJobs
  <1>21. ASSUME NEW p \in Proc, ClaimEvent(p) PROVE JobInv'
    <2> DEFINE e == proc[p].event
    <2>1. UNCHANGED <<events, outbox, jobs, faults>> /\ proc[p].pc = "queue"
      BY <1>21 DEF ClaimEvent, At, queue
    <2>2. CASE Continues(p, "defer") /\ ~ outbox[e].queued /\ ~ Claimed(e)
      <3>1. proc'[p].pc = "defer" /\ proc'[p].event = e /\ \A q \in Proc \ {p} : proc'[q] = proc[q]
        BY <2>2 DEF Continues, Becomes
      <3>2. ClaimsAreExclusive'
        BY <2>1, <2>2, <3>1 DEF JobInv, ClaimsAreExclusive, Claimed
      <3>3. LostMarksAreFaults'
        BY <2>1, <3>1 DEF JobInv, LostMarksAreFaults, JobsOf
      <3> QED
        BY <2>1, <3>2, <3>3 DEF JobInv, JobsAreForEvents
    <2>3. CASE Continues(p, "revoke") \/ Continues(p, "next") \/ Ends(p)
      <3>1. proc'[p].pc \notin {"defer", "commit"} /\ \A q \in Proc \ {p} : proc'[q] = proc[q]
        BY <2>3 DEF Continues, Ends, Becomes
      <3> QED
        BY <1>a, <2>1, <3>1, QuietKeepsJobInv DEF QuietForJobs
    <2> QED
      BY <1>21, <2>2, <2>3, ClaimEventMoves
  <1>22. ASSUME NEW p \in Proc, Defer(p) PROVE JobInv'
    <2> DEFINE e   == proc[p].event
               new == [event |-> e, named |-> e \notin proc[p].redacted, state |-> "todo", tries |-> 0]
    <2>1. UNCHANGED <<events, outbox>> /\ proc[p].pc = "defer" /\ e \in 1..events
      BY <1>22, <1>a DEF Defer, At, TypeOK, ProcsKnowTheirWork, Process
    <2>2. CASE /\ UNCHANGED queue /\ faults' = faults + 1
               /\ Continues(p, "revoke") \/ Continues(p, "next") \/ Ends(p)
      <3>1. proc'[p].pc \notin {"defer", "commit"} /\ \A q \in Proc \ {p} : proc'[q] = proc[q]
        BY <2>2 DEF Continues, Ends, Becomes
      <3> QED
        BY <1>a, <2>1, <2>2, <3>1, QuietKeepsJobInv DEF QuietForJobs, queue
    <2>3. CASE Continues(p, "commit") /\ UNCHANGED faults /\ jobs' = [jobs EXCEPT ![deferred + 1] = new]
      <3>1. proc'[p].pc = "commit" /\ proc'[p].event = e /\ \A q \in Proc \ {p} : proc'[q] = proc[q]
        BY <2>3 DEF Continues, Becomes
      <3>2. \A j \in Job : jobs'[j] = IF j = deferred + 1 THEN new ELSE jobs[j]
        BY <2>3 DEF TypeOK
      <3>3. new.event = e
        OBVIOUS
      <3> HIDE DEF new
      <3>4. JobsAreForEvents'
        BY <1>a, <2>1, <3>2, <3>3 DEF JobInv, JobsAreForEvents
      <3>5. ClaimsAreExclusive'
        BY <2>1, <3>1 DEF JobInv, ClaimsAreExclusive
      <3>6. Cardinality(JobsOf(e)) <= faults
        <4>1. \A q \in Proc : ~ (proc[q].pc = "commit" /\ proc[q].event = e)
          BY <2>1 DEF JobInv, ClaimsAreExclusive
        <4>2. ~ outbox[e].queued /\ e \in Event
          BY <2>1, BoundAssumption DEF JobInv, ClaimsAreExclusive, TypeOK, Event
        <4> HIDE DEF e
        <4> QED
          BY <4>1, <4>2 DEF JobInv, LostMarksAreFaults
      <3>7. LostMarksAreFaults'
        <4> SUFFICES ASSUME NEW d \in Event
                     PROVE  /\ Cardinality(JobsOf(d))' <= 1 + faults'
                            /\ ~ outbox'[d].queued
                               /\ (\A q \in Proc : ~ (proc'[q].pc = "commit" /\ proc'[q].event = d))
                                 => Cardinality(JobsOf(d))' <= faults'
          BY DEF LostMarksAreFaults
        <4>1. IsFiniteSet(JobsOf(d)) /\ Cardinality(JobsOf(d)) \in Nat
          BY JobsAreFinite
        <4>2. CASE d = e
          <5>1. JobsOf(d)' \subseteq JobsOf(d) \cup {deferred + 1}
            BY <3>2 DEF JobsOf
          <5>2. /\ IsFiniteSet(JobsOf(d) \cup {deferred + 1})
                /\ Cardinality(JobsOf(d) \cup {deferred + 1}) \in {Cardinality(JobsOf(d)), Cardinality(JobsOf(d)) + 1}
            BY <4>1, FS_AddElement
          <5>3. Cardinality(JobsOf(d)') <= Cardinality(JobsOf(d) \cup {deferred + 1}) /\ Cardinality(JobsOf(d)') \in Nat
            BY <5>1, <5>2, FS_Subset, FS_CardinalityType
          <5> QED
            BY <1>a, <2>3, <3>1, <3>6, <4>1, <4>2, <5>2, <5>3
        <4>3. CASE d # e
          <5>1. JobsOf(d)' \subseteq JobsOf(d)
            BY <3>2, <3>3, <4>3 DEF JobsOf
          <5>2. Cardinality(JobsOf(d)') <= Cardinality(JobsOf(d)) /\ Cardinality(JobsOf(d)') \in Nat
            BY <4>1, <5>1, FS_Subset, FS_CardinalityType
          <5>3. \A q \in Proc : proc'[q].pc = "commit" /\ proc'[q].event = d <=> proc[q].pc = "commit" /\ proc[q].event = d
            BY <2>1, <3>1, <4>3
          <5>4. /\ Cardinality(JobsOf(d)) <= 1 + faults
                /\ ~ outbox[d].queued /\ (\A q \in Proc : ~ (proc[q].pc = "commit" /\ proc[q].event = d))
                     => Cardinality(JobsOf(d)) <= faults
            BY DEF JobInv, LostMarksAreFaults
          <5> QED
            BY <1>a, <2>1, <2>3, <4>1, <5>2, <5>3, <5>4
        <4> QED
          BY <4>2, <4>3
      <3> QED
        BY <3>4, <3>5, <3>7 DEF JobInv
    <2>4. \/ jobs' = [jobs EXCEPT ![deferred + 1] = new] /\ Goto(p, "commit") /\ Sound
          \/ Fault /\ After(p) /\ UNCHANGED queue
      BY <1>22 DEF Defer
    <2> HIDE DEF new, e
    <2>5. ASSUME Goto(p, "commit") PROVE Continues(p, "commit")
      BY <2>5, GotoMoves DEF TypeOK, Pc
    <2>6. ASSUME After(p) PROVE Continues(p, "revoke") \/ Continues(p, "next") \/ Ends(p)
      BY <2>6, AfterMoves DEF TypeOK
    <2> QED
      BY <2>2, <2>3, <2>4, <2>5, <2>6 DEF Sound, Fault
  <1>23. ASSUME NEW p \in Proc, CommitQueued(p) PROVE JobInv'
    <2> DEFINE e == proc[p].event
    <2>1. proc'[p].pc \notin {"defer", "commit"} /\ \A q \in Proc \ {p} : proc'[q] = proc[q]
      BY <1>23, CommitQueuedMoves DEF Continues, Ends, Becomes
    <2>2. UNCHANGED <<events, jobs>> /\ proc[p].pc = "commit" /\ faults' \in {faults, faults + 1}
      BY <1>23 DEF CommitQueued, At, queue, Sound, Fault
    <2>3. CASE UNCHANGED outbox /\ faults' = faults + 1
      BY <1>a, <2>1, <2>2, <2>3, QuietKeepsJobInv DEF QuietForJobs
    <2>4. CASE outbox' = [outbox EXCEPT ![e].queued = TRUE]
      <3>1. e \in Event
        BY <2>2, BoundAssumption DEF TypeOK, ProcsKnowTheirWork, Process, Event
      <3>2. outbox'[e].queued /\ \A d \in Event \ {e} : outbox'[d].queued = outbox[d].queued
        BY <2>4, <3>1 DEF TypeOK, OutboxRow
      <3>3. \A q \in Proc : proc'[q].pc \in {"defer", "commit"} => proc'[q] = proc[q] /\ proc[q].event \in Event /\ proc[q].event # e
        <4> SUFFICES ASSUME NEW q \in Proc, proc'[q].pc \in {"defer", "commit"}
                     PROVE  proc'[q] = proc[q] /\ proc[q].event \in Event /\ proc[q].event # e
          OBVIOUS
        <4>1. q # p /\ proc'[q] = proc[q]
          BY <2>1
        <4>2. proc[q].event # e
          BY <2>2, <4>1 DEF JobInv, ClaimsAreExclusive
        <4>3. proc[q].event \in Event
          BY <4>1, BoundAssumption DEF TypeOK, ProcsKnowTheirWork, Process, Event
        <4> QED
          BY <4>1, <4>2, <4>3
      <3>4. ClaimsAreExclusive'
        BY <3>2, <3>3 DEF JobInv, ClaimsAreExclusive
      <3>5. LostMarksAreFaults'
        <4> SUFFICES ASSUME NEW d \in Event
                     PROVE  /\ Cardinality(JobsOf(d))' <= 1 + faults'
                            /\ ~ outbox'[d].queued
                               /\ (\A q \in Proc : ~ (proc'[q].pc = "commit" /\ proc'[q].event = d))
                                 => Cardinality(JobsOf(d))' <= faults'
          BY DEF LostMarksAreFaults
        <4>1. JobsOf(d)' = JobsOf(d) /\ Cardinality(JobsOf(d)) \in Nat
          BY <2>2, JobsAreFinite DEF JobsOf
        <4>2. /\ Cardinality(JobsOf(d)) <= 1 + faults
              /\ ~ outbox[d].queued /\ (\A q \in Proc : ~ (proc[q].pc = "commit" /\ proc[q].event = d))
                   => Cardinality(JobsOf(d)) <= faults
          BY DEF JobInv, LostMarksAreFaults
        <4>3. CASE d = e
          BY <1>a, <2>2, <3>2, <4>1, <4>2, <4>3
        <4>4. CASE d # e
          <5>1. \A q \in Proc : proc[q].pc = "commit" /\ proc[q].event = d => proc'[q] = proc[q]
            BY <2>1, <4>4
          <5> QED
            BY <1>a, <2>2, <3>2, <4>1, <4>2, <4>4, <5>1
        <4> QED
          BY <4>3, <4>4
      <3> QED
        BY <2>2, <3>4, <3>5 DEF JobInv, JobsAreForEvents
    <2> QED
      BY <1>23, <2>3, <2>4 DEF CommitQueued, Fault
  <1>24. ASSUME NEW j \in Job, Deliver(j) PROVE JobInv'
    <2>1. UNCHANGED <<events, proc>> /\ faults' \in {faults, faults + 1}
      BY <1>24 DEF Deliver, Sound, Fault
    <2>2. \A i \in Job : jobs'[i].event = jobs[i].event
      <3>1. Retry(j) \/ jobs' = [jobs EXCEPT ![j].state = "done"]
        BY <1>24 DEF Deliver
      <3>2. CASE jobs' = [jobs EXCEPT ![j].state = "done"]
        BY <3>2 DEF TypeOK, DeliveryJob
      <3>3. CASE Retry(j)
        <4> DEFINE new == [jobs[j] EXCEPT !.tries = jobs[j].tries + 1,
                                          !.state = IF jobs[j].tries + 1 < MaxTries THEN "todo" ELSE "failed"]
        <4>1. jobs' = [jobs EXCEPT ![j] = new]
          BY <3>3 DEF Retry
        <4>2. new.event = jobs[j].event
          BY DEF TypeOK, DeliveryJob
        <4> HIDE DEF new
        <4> QED
          BY <4>1, <4>2 DEF TypeOK
      <3> QED
        BY <3>1, <3>2, <3>3
    <2>3. \A e \in 1..events : outbox'[e].queued = outbox[e].queued
      <3>1. outbox' \in {outbox, [outbox EXCEPT ![jobs[j].event].delivered = TRUE]}
        BY <1>24 DEF Deliver
      <3>2. 1..events \subseteq Event
        BY BoundAssumption DEF TypeOK, Event
      <3> QED
        BY <3>1, <3>2 DEF TypeOK, OutboxRow
    <2> QED
      BY <1>a, <2>1, <2>2, <2>3, QuietKeepsJobInv DEF QuietForJobs
  <1>25. ASSUME NEW a \in Account, GraceElapses(a) PROVE JobInv'
    <2>1. UNCHANGED <<events, outbox, jobs, proc, faults>>
      BY <1>25 DEF GraceElapses, queue
    <2> QED
      BY <1>a, <2>1, QuietKeepsJobInv DEF QuietForJobs
  <1>26. CASE UNCHANGED vars
    <2>1. UNCHANGED <<events, outbox, jobs, proc, faults>>
      BY <1>26 DEF vars
    <2> QED
      BY <1>a, <2>1, QuietKeepsJobInv DEF QuietForJobs
  <1> QED
    BY <1>1, <1>2, <1>3, <1>4, <1>5, <1>6, <1>7, <1>8, <1>9, <1>10, <1>11, <1>12, <1>13, <1>14, <1>15, <1>16, <1>17, <1>18, <1>19, <1>20, <1>21, <1>22, <1>23, <1>24, <1>25, <1>26 DEF Next, Arrive, Serve, Loop

\* An event has one job, and one more at most for each failed call or crash: the
\* submitter and the reconciler never both defer one for the same row.
THEOREM OneJob == Spec => []OneJobPerEvent
  <1>1. JobInv => OneJobPerEvent
    BY DEF JobInv, LostMarksAreFaults, OneJobPerEvent, JobsOf
  <1> QED
    BY InitTypeInv, NextTypeInv, InitJobInv, NextJobInv, <1>1, PTL DEF Spec
=============================================================================
