-------------------------- MODULE AccountLifecycle --------------------------
(***************************************************************************)
(* Deleting, reactivating and purging accounts, and telling others of it:  *)
(*   - soft delete and reactivation (user_lifecycle_crud.py, called by     *)
(*     user_lifecycle_routes.py and user_self_deletion_service.py);        *)
(*   - the purge (user_purge_service.py), by a manager or by the nightly   *)
(*     batch (account_purge_tasks.py);                                     *)
(*   - the transactional outbox: every transition commits its event with   *)
(*     the row, then submits a job for it (account_lifecycle_events.py);   *)
(*     a five-minute reconciler submits what was missed and a worker       *)
(*     delivers the jobs (account_lifecycle_tasks.py).                     *)
(*                                                                         *)
(* One action is one awaited call.  An account is its users.id; events are *)
(* numbered in the order of their commits.                                 *)
(***************************************************************************)
EXTENDS Naturals, FiniteSets

CONSTANTS
    Account,     \* users.id
    Req,         \* slots for HTTP requests
    Reconciler,  \* dispatch_pending_account_lifecycle_events
    Nightly,     \* purge_expired_soft_deleted_accounts
    None,
    Op,          \* what HTTP requests ask for
    Batch,       \* how many rows the reconciler takes at a time (100)
    MaxTries,    \* runs of a delivery job before it is given up
    MaxEvents,   \* bound: transitions
    MaxFaults    \* bound: failed calls and crashed processes

Operation == {"delete", "reactivate", "purge", "login"}
Proc      == Req \cup {Reconciler, Nightly}
Event     == 1..MaxEvents
Job       == 1..(MaxEvents + MaxFaults)

ASSUME ProcAssumption  == Reconciler \notin Req /\ Nightly \notin Req /\ Reconciler # Nightly /\ None \notin Proc
ASSUME OpAssumption    == Op \subseteq Operation /\ None \notin Account
ASSUME BoundAssumption == Batch \in Nat \ {0} /\ MaxTries \in Nat \ {0} /\ MaxEvents \in Nat /\ MaxFaults \in Nat

VARIABLES
    user,      \* users: is the row here, is_active, deleted_at against the grace period
    lock,      \* the process whose transaction holds the row FOR UPDATE
    live,      \* a session of the account is current
    late,      \* history: a session was minted after a purge had revoked them
    events,    \* events committed so far
    outbox,    \* account_lifecycle_outbox; delivering an event also redacts its row
    jobs,      \* delivery jobs, in the order they were deferred
    deferred,  \* how many there are
    proc,      \* the processes
    faults     \* faults so far

vars == <<user, lock, live, late, events, outbox, jobs, deferred, proc, faults>>

account == <<user, live, late>>
queue   == <<jobs, deferred>>

Absent == [here |-> FALSE, active |-> FALSE, deleted |-> "no"]
NoEvent == [type |-> "none", acct |-> None, queued |-> FALSE, delivered |-> FALSE]
NoJob   == [event |-> 0, named |-> TRUE, state |-> "none", tries |-> 0]
NoProc  == [op |-> "none", pc |-> "idle", acct |-> None, event |-> 0,
            saw |-> [a \in Account |-> Absent], todo |-> {}, redacted |-> {}]

\* Some accounts are in use and some were soft-deleted long ago, whose events are
\* delivered; their sessions may be left over from a failed revocation.
Init ==
    /\ user \in [Account -> {[here |-> TRUE, active |-> TRUE, deleted |-> "no"],
                            [here |-> TRUE, active |-> FALSE, deleted |-> "old"]}]
    /\ lock = [a \in Account |-> None]
    /\ live = [a \in Account |-> TRUE]
    /\ late = [a \in Account |-> FALSE]
    /\ events = 0
    /\ outbox = [e \in Event |-> NoEvent]
    /\ jobs = [j \in Job |-> NoJob]
    /\ deferred = 0
    /\ proc = [p \in Proc |-> NoProc]
    /\ faults = 0

At(p, pc) == proc[p].pc = pc
Goto(p, pc) == proc' = [proc EXCEPT ![p].pc = pc]
Finish(p) == proc' = [proc EXCEPT ![p] = NoProc]

Fault == faults < MaxFaults /\ faults' = faults + 1
Sound == UNCHANGED faults

\* A commit, a rollback and the end of a session all release the row locks.
Release(p) == lock' = [a \in Account |-> IF lock[a] = p THEN None ELSE lock[a]]
\* FOR UPDATE, UPDATE and DELETE wait for the row.
Free(p, a) == lock[a] \in {None, p}

\* The event goes into the transaction that changes the row.
Record(type, a) ==
    /\ events < MaxEvents
    /\ events' = events + 1
    /\ outbox' = [outbox EXCEPT ![events + 1] =
                     [type |-> type, acct |-> a, queued |-> FALSE, delivered |-> FALSE]]
-----------------------------------------------------------------------------
(* Requests read the row first; what they do later rests on that reading. *)

Snapshot(S) == [a \in Account |-> IF a \in S THEN user[a] ELSE Absent]

Begin(r, op, pc, a) ==
    /\ At(r, "idle")
    /\ op \in Op
    /\ user[a].here
    /\ proc' = [proc EXCEPT ![r] = [NoProc EXCEPT !.op = op, !.pc = pc, !.acct = a,
                                                !.saw = Snapshot({a})]]
    /\ UNCHANGED <<account, lock, events, outbox, queue, faults>>

BeginDelete(r, a) == Begin(r, "delete", "write", a)

BeginReactivate(r, a) ==
    /\ user[a].deleted # "no"
    /\ Begin(r, "reactivate", "write", a)

BeginPurge(r, a) == Begin(r, "purge", "lock", a)

BeginLogin(r, a) ==
    /\ user[a].active
    /\ Begin(r, "login", "touch", a)

\* last_login_at: the UPDATE waits for the row and fails when it has gone.
LoginUpdate(r) ==
    LET a == proc[r].acct
    IN /\ At(r, "touch")
       /\ Free(r, a)
       /\ IF user[a].here THEN Goto(r, "refresh") ELSE Finish(r)
       /\ UNCHANGED <<account, lock, events, outbox, queue, faults>>

Bumped(a) == \E p \in Proc : proc[p].acct = a /\ proc[p].pc \in {"revoke_rows", "purge"}

LoginMint(r) ==
    LET a == proc[r].acct
    IN /\ At(r, "mint")
       /\ live' = [live EXCEPT ![a] = TRUE]
       /\ late' = [late EXCEPT ![a] = @ \/ Bumped(a) \/ ~ user[a].here]
       /\ Finish(r)
       /\ UNCHANGED <<user, lock, events, outbox, queue, faults>>
-----------------------------------------------------------------------------
(* soft_delete and reactivate *)

\* The UPDATE sets the columns that differ from the row as it was read: always
\* deleted_at, and is_active unless it already had its new value.
Written(saw, row, active) ==
    [row EXCEPT !.active = IF saw.active # active THEN active ELSE @,
                !.deleted = IF active THEN "no" ELSE "recent"]

\* Mutant of WriteStatus: an UPDATE that matches no row passes unnoticed.
WriteStatusBlind(r) ==
    LET a  == proc[r].acct
        on == proc[r].op = "reactivate"
    IN /\ At(r, "write")
       /\ Free(r, a)
       /\ user' = [user EXCEPT ![a] = Written(proc[r].saw[a], user[a], on)]
       /\ Record(IF on THEN "reactivated" ELSE "soft_deleted", a)
       /\ proc' = [proc EXCEPT ![r] = [@ EXCEPT !.pc = "refresh", !.event = events + 1, !.saw = NoProc.saw]]
       /\ UNCHANGED <<lock, live, late, queue, faults>>

WriteStatus(r) ==
    LET a  == proc[r].acct
        on == proc[r].op = "reactivate"
    IN /\ At(r, "write")
       /\ Free(r, a)
       /\ user[a].here
       /\ user' = [user EXCEPT ![a] = Written(proc[r].saw[a], user[a], on)]
       /\ Record(IF on THEN "reactivated" ELSE "soft_deleted", a)
       /\ proc' = [proc EXCEPT ![r] = [@ EXCEPT !.pc = "refresh", !.event = events + 1, !.saw = NoProc.saw]]
       /\ UNCHANGED <<lock, live, late, queue, faults>>

\* StaleDataError: the UPDATE matched no row; the event is rolled back too.
WriteStale(r) ==
    /\ At(r, "write")
    /\ ~ user[proc[r].acct].here
    /\ Finish(r)
    /\ UNCHANGED <<account, lock, events, outbox, queue, faults>>

\* db.refresh raises when the row has gone since the commit: nothing after it runs.
Refresh(r) ==
    /\ At(r, "refresh")
    /\ IF user[proc[r].acct].here
       THEN Goto(r, IF proc[r].op = "login" THEN "mint" ELSE "queue")
       ELSE Finish(r)
    /\ UNCHANGED <<account, lock, events, outbox, queue, faults>>

\* revoke_all_tokens_for_user after a soft delete: the deletion stands either way.
RevokeDeleted(r) ==
    LET a == proc[r].acct
    IN /\ At(r, "revoke")
       /\ \/ live' = [live EXCEPT ![a] = FALSE] /\ Sound
          \/ live' \in {live, [live EXCEPT ![a] = FALSE]} /\ Fault
       /\ Finish(r)
       /\ UNCHANGED <<user, late, lock, events, outbox, queue>>
-----------------------------------------------------------------------------
(* purge_user_account *)

\* get_deleted_before: the whole batch is read up front.
BeginNightly ==
    LET due == {a \in Account : user[a].here /\ user[a].deleted = "old"}
    IN /\ At(Nightly, "idle")
       /\ due # {}
       /\ proc' = [proc EXCEPT ![Nightly] =
                      [NoProc EXCEPT !.op = "nightly", !.pc = "next", !.saw = Snapshot(due), !.todo = due]]
       /\ UNCHANGED <<account, lock, events, outbox, queue, faults>>

NightlyNext(a) ==
    /\ At(Nightly, "next")
    /\ a \in proc[Nightly].todo
    /\ proc' = [proc EXCEPT ![Nightly] =
                   [@ EXCEPT !.pc = "lock", !.acct = a, !.todo = proc[Nightly].todo \ {a}]]
    /\ UNCHANGED <<account, lock, events, outbox, queue, faults>>

NightlyEnd ==
    /\ At(Nightly, "next")
    /\ proc[Nightly].todo = {}
    /\ Finish(Nightly)
    /\ Release(Nightly)
    /\ UNCHANGED <<account, events, outbox, queue, faults>>

\* The caller catches the exception: the batch goes on in the same transaction,
\* the route answers and its session ends.
Skip(p) ==
    IF p = Nightly THEN Goto(p, "next") /\ UNCHANGED lock ELSE Finish(p) /\ Release(p)

\* The session returns the instance it already has for this id.  Without
\* populate_existing the columns just selected do not replace its attributes,
\* and expire_on_commit is off.
Reread(p) == proc[p].saw[proc[p].acct]

\* AccountNoLongerEligibleForPurgeError
NotEligible(p) ==
    LET a == proc[p].acct
    IN ~ user[a].here \/ (proc[p].saw[a].deleted # "no" /\ Reread(p).deleted = "no")

LockUser(p) ==
    LET a == proc[p].acct
    IN /\ At(p, "lock")
       /\ Free(p, a)
       /\ IF NotEligible(p)
          THEN Skip(p)
          ELSE /\ lock' = [lock EXCEPT ![a] = p]
               /\ Goto(p, "bump")
       /\ UNCHANGED <<account, events, outbox, queue, faults>>

\* Mutant of PurgeBump: an unconfirmed bump does not stop the purge.
PurgeBumpOpen(p) ==
    LET a == proc[p].acct
    IN /\ At(p, "bump")
       /\ \/ live' = [live EXCEPT ![a] = FALSE] /\ Sound
          \/ live' \in {live, [live EXCEPT ![a] = FALSE]} /\ Fault
       /\ Goto(p, "revoke_rows")
       /\ UNCHANGED <<user, late, lock, events, outbox, queue>>

\* The bump runs in a session of its own.  Unconfirmed, it ends the purge.
PurgeBump(p) ==
    LET a == proc[p].acct
    IN /\ At(p, "bump")
       /\ \/ live' = [live EXCEPT ![a] = FALSE] /\ late' = [late EXCEPT ![a] = FALSE]
             /\ Sound /\ Goto(p, "revoke_rows") /\ UNCHANGED lock
          \/ live' \in {live, [live EXCEPT ![a] = FALSE]} /\ Fault /\ Skip(p) /\ UNCHANGED late
       /\ UNCHANGED <<user, events, outbox, queue>>

\* revoke_all_for_user commits, which gives up the row lock; the audit entry
\* that follows commits again.
PurgeRevokeRows(p) ==
    /\ At(p, "revoke_rows")
    /\ Release(p)
    /\ Goto(p, "purge")
    /\ UNCHANGED <<account, events, outbox, queue, faults>>

\* A DELETE that matches no row is only a warning.
PurgeDelete(p) ==
    LET a == proc[p].acct
    IN /\ At(p, "purge")
       /\ Free(p, a)
       /\ user' = [user EXCEPT ![a] = Absent]
       /\ Record("purged", a)
       /\ proc' = [proc EXCEPT ![p] = [@ EXCEPT !.pc = "queue", !.event = events + 1]]
       /\ UNCHANGED <<live, late, lock, queue, faults>>
-----------------------------------------------------------------------------
(* queue_account_lifecycle_event *)

\* Between its SELECT ... FOR UPDATE SKIP LOCKED and its commit a caller holds
\* the outbox row.
Claimed(e) == \E p \in Proc : proc[p].event = e /\ proc[p].pc \in {"defer", "commit"}

\* Where the caller goes on.
After(p) ==
    CASE proc[p].op = "delete" -> Goto(p, "revoke")
      [] proc[p].op \in {"nightly", "reconcile"} -> Goto(p, "next")
      [] OTHER -> Finish(p)

\* Mutant of ClaimEvent: the row is read without a lock.
ClaimEventUnlocked(p) ==
    /\ At(p, "queue")
    /\ IF outbox[proc[p].event].queued THEN After(p) ELSE Goto(p, "defer")
    /\ UNCHANGED <<account, lock, events, outbox, queue, faults>>

ClaimEvent(p) ==
    LET e == proc[p].event
    IN /\ At(p, "queue")
       /\ IF outbox[e].queued \/ Claimed(e) THEN After(p) ELSE Goto(p, "defer")
       /\ UNCHANGED <<account, lock, events, outbox, queue, faults>>

\* Mutant of Defer: queued_at is set before the job is deferred.
DeferMarksFirst(p) ==
    /\ At(p, "defer")
    /\ outbox' = [outbox EXCEPT ![proc[p].event].queued = TRUE]
    /\ \/ /\ deferred' = deferred + 1
          /\ jobs' = [jobs EXCEPT ![deferred + 1] =
                         [NoJob EXCEPT !.event = proc[p].event, !.state = "todo"]]
          /\ Sound
       \/ Fault /\ UNCHANGED queue
    /\ After(p)
    /\ UNCHANGED <<account, lock, events>>

\* defer_async commits on Procrastinate's own connection.
Defer(p) ==
    /\ At(p, "defer")
    /\ \/ /\ deferred < MaxEvents + MaxFaults
          /\ deferred' = deferred + 1
          /\ jobs' = [jobs EXCEPT ![deferred + 1] =
                         [event |-> proc[p].event, named |-> proc[p].event \notin proc[p].redacted,
                          state |-> "todo", tries |-> 0]]
          /\ Goto(p, "commit")
          /\ Sound
       \/ Fault /\ After(p) /\ UNCHANGED queue
    /\ UNCHANGED <<account, lock, events, outbox>>

\* A commit that fails may still have happened.
CommitQueued(p) ==
    LET set == [outbox EXCEPT ![proc[p].event].queued = TRUE]
    IN /\ At(p, "commit")
       /\ \/ outbox' = set /\ Sound
          \/ outbox' \in {outbox, set} /\ Fault
       /\ After(p)
       /\ UNCHANGED <<account, lock, events, queue>>
-----------------------------------------------------------------------------
(* The reconciler and the worker *)

\* Mutant of BeginReconcile: delivered rows are taken as well.
BeginReconcileAll ==
    LET pending == {e \in 1..events : ~ outbox[e].queued}
    IN /\ At(Reconciler, "idle")
       /\ pending # {}
       /\ proc' = [proc EXCEPT ![Reconciler] =
                      [NoProc EXCEPT !.op = "reconcile", !.pc = "next", !.todo = pending,
                                     !.redacted = {e \in pending : outbox[e].delivered}]]
       /\ UNCHANGED <<account, lock, events, outbox, queue, faults>>

\* The oldest pending rows, read with their payloads in a session that is closed
\* before any of them is queued.
BeginReconcile ==
    LET pending == {e \in 1..events : ~ outbox[e].queued /\ ~ outbox[e].delivered}
        batch   == {e \in pending : Cardinality({f \in pending : f < e}) < Batch}
    IN /\ At(Reconciler, "idle")
       /\ pending # {}
       /\ proc' = [proc EXCEPT ![Reconciler] =
                      [NoProc EXCEPT !.op = "reconcile", !.pc = "next", !.todo = batch,
                                     !.redacted = {e \in batch : outbox[e].delivered}]]
       /\ UNCHANGED <<account, lock, events, outbox, queue, faults>>

ReconcileNext ==
    /\ At(Reconciler, "next")
    /\ IF proc[Reconciler].todo = {}
       THEN Finish(Reconciler)
       ELSE \E e \in proc[Reconciler].todo :
               /\ \A f \in proc[Reconciler].todo : e <= f
               /\ proc' = [proc EXCEPT ![Reconciler] =
                              [@ EXCEPT !.pc = "queue", !.event = e,
                                        !.todo = proc[Reconciler].todo \ {e}]]
    /\ UNCHANGED <<account, lock, events, outbox, queue, faults>>

\* A failed or stalled run: queued again, or given up for good.
Retry(j) ==
    jobs' = [jobs EXCEPT ![j] = [@ EXCEPT !.tries = jobs[j].tries + 1,
                                          !.state = IF jobs[j].tries + 1 < MaxTries THEN "todo" ELSE "failed"]]

\* deliver_account_lifecycle_event_task: the listeners are called, then the row
\* is marked; that UPDATE waits while a caller of queue_account_lifecycle_event
\* holds the row.  A run that fails may have done either already.
Deliver(j) ==
    LET e    == jobs[j].event
        mark == [outbox EXCEPT ![e].delivered = TRUE]
    IN /\ jobs[j].state = "todo"
       /\ \/ /\ outbox[e].delivered \/ ~ Claimed(e)
             /\ outbox' = mark
             /\ jobs' = [jobs EXCEPT ![j].state = "done"]
             /\ Sound
          \/ /\ outbox' = outbox \/ (outbox' = mark /\ ~ Claimed(e))
             /\ Retry(j)
             /\ Fault
       /\ UNCHANGED <<account, lock, events, deferred, proc>>
-----------------------------------------------------------------------------
\* A process is killed, or a database error aborts it: its transaction is
\* rolled back.
Dies(p) ==
    /\ ~ At(p, "idle")
    /\ Fault
    /\ Finish(p)
    /\ Release(p)
    /\ UNCHANGED <<account, events, outbox, queue>>

GraceElapses(a) ==
    /\ user[a].here /\ user[a].deleted = "recent"
    /\ user' = [user EXCEPT ![a].deleted = "old"]
    /\ UNCHANGED <<live, late, lock, events, outbox, queue, proc, faults>>

Arrive(r, a) ==
    BeginDelete(r, a) \/ BeginReactivate(r, a) \/ BeginPurge(r, a) \/ BeginLogin(r, a)

Serve(p) ==
    \/ LoginUpdate(p) \/ LoginMint(p)
    \/ WriteStatus(p) \/ WriteStale(p) \/ Refresh(p) \/ RevokeDeleted(p)
    \/ LockUser(p) \/ PurgeBump(p) \/ PurgeRevokeRows(p) \/ PurgeDelete(p)
    \/ ClaimEvent(p) \/ Defer(p) \/ CommitQueued(p)

Loop == (\E a \in Account : NightlyNext(a)) \/ NightlyEnd \/ ReconcileNext

Next ==
    \/ \E r \in Req, a \in Account : Arrive(r, a)
    \/ BeginNightly \/ BeginReconcile \/ Loop
    \/ \E p \in Proc : Serve(p) \/ Dies(p)
    \/ \E j \in Job : Deliver(j)
    \/ \E a \in Account : GraceElapses(a)

Spec == Init /\ [][Next]_vars

\* Accepted requests and started tasks run on, the reconciler's cron tick comes
\* round, and a worker takes the jobs.
FairSpec ==
    /\ Spec
    /\ \A p \in Proc : WF_vars(Serve(p))
    /\ WF_vars(Loop) /\ WF_vars(BeginReconcile)
    /\ \A j \in Job : WF_vars(Deliver(j))
-----------------------------------------------------------------------------
(* Properties *)

Row == [here : BOOLEAN, active : BOOLEAN, deleted : {"no", "recent", "old"}]
OutboxRow ==
    [type : {"none", "soft_deleted", "reactivated", "purged"}, acct : Account \cup {None},
     queued : BOOLEAN, delivered : BOOLEAN]
DeliveryJob ==
    [event : 0..MaxEvents, named : BOOLEAN, tries : 0..MaxTries,
     state : {"none", "todo", "done", "failed"}]
Pc  == {"idle", "touch", "mint", "write", "refresh", "revoke",
        "next", "lock", "bump", "revoke_rows", "purge", "queue", "defer", "commit"}
Process ==
    [op : Operation \cup {"none", "nightly", "reconcile"}, pc : Pc, acct : Account \cup {None},
     event : 0..MaxEvents, saw : [Account -> Row], todo : SUBSET (Account \cup Event),
     redacted : SUBSET Event]

\* Rows, events, jobs and processes have their fields and ranges; a job is run
\* at most MaxTries times (procrastinate_app.py, ExponentialBackoffWithJitter).
TypeOK ==
    /\ user \in [Account -> Row]
    /\ lock \in [Account -> Proc \cup {None}]
    /\ live \in [Account -> BOOLEAN]
    /\ late \in [Account -> BOOLEAN]
    /\ events \in 0..MaxEvents
    /\ outbox \in [Event -> OutboxRow]
    /\ jobs \in [Job -> DeliveryJob]
    /\ \A j \in Job : jobs[j].state = "todo" => jobs[j].tries < MaxTries
    /\ deferred \in 0..(MaxEvents + MaxFaults)
    /\ faults \in 0..MaxFaults
    /\ proc \in [Proc -> Process]

\* The last committed event of an account.
LastEvent(a) ==
    LET mine == {e \in 1..events : outbox[e].acct = a}
    IN IF mine = {} THEN "none"
       ELSE outbox[CHOOSE e \in mine : \A f \in mine : f <= e].type

\* What downstream listeners learn, read in commit order, ends in the state the
\* row is in: soft_delete, reactivate and delete commit their event with the
\* change they announce and never announce one that did not happen, whatever
\* requests and purges overlap on the account.
LastEventMatchesRow ==
    \A a \in Account :
        CASE LastEvent(a) = "soft_deleted" -> user[a].here /\ user[a].deleted # "no"
          [] LastEvent(a) = "reactivated" -> user[a].here /\ user[a].deleted = "no"
          [] LastEvent(a) = "purged" -> ~ user[a].here
          [] OTHER -> user[a].here

\* The submitter and the reconciler produce one job for a row between them
\* (queue_account_lifecycle_event): a second one takes a queued_at that was lost
\* after its job was deferred.
OneJobPerEvent ==
    \A e \in Event : Cardinality({j \in Job : jobs[j].event = e}) <= 1 + faults

\* Delivering an event redacts its row; a job is never built from a redacted row
\* (dispatch_pending_account_lifecycle_events), so every listener call names
\* its account.
JobsNameTheirAccount == \A j \in Job : jobs[j].named

\* A purged account has no session left, unless one was minted after the purge
\* had revoked them: an unconfirmed revocation stops purge_user_account before
\* the row is deleted.
PurgedAccountsAreSignedOut ==
    \A a \in Account : ~ user[a].here /\ live[a] => late[a]

Settled(e) == outbox[e].delivered \/ \E j \in Job : jobs[j].event = e /\ jobs[j].state = "failed"

\* Every committed event is delivered, or its job is given up after all its
\* retries: no crash or failed submission loses it, because the reconciler
\* submits every row that has no queued_at.
EventsAreDelivered == \A e \in Event : (events >= e) ~> Settled(e)

\* A purge that was decided on a soft-deleted account never deletes one that has
\* been reactivated since, as purge_user_account's docstring says.
PurgeRechecks ==
    [][\A p \in Proc, a \in Account :
          PurgeDelete(p) /\ proc[p].acct = a /\ proc[p].saw[a].deleted # "no"
             => ~ user[a].here \/ user[a].deleted # "no"]_vars
=============================================================================
