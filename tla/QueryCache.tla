----------------------------- MODULE QueryCache -----------------------------
(***************************************************************************)
(* One entry of the TanStack Query cache, as the pages use it: its data    *)
(* ({} or one value), the request under way and its answer.  stale: the    *)
(* entry was invalidated since its data came.  failed: its last request    *)
(* failed.  missed: an invalidation came while its request was out and did *)
(* not start it over (a history flag).                                     *)
(***************************************************************************)
Unused == [data |-> {}, fetch |-> "idle", answer |-> {}, stale |-> FALSE,
           failed |-> FALSE, missed |-> FALSE]

Refetch(e) == [e EXCEPT !.fetch = "sent", !.answer = {}, !.missed = FALSE]
Opened     == Refetch(Unused)
Loading(e) == e.fetch # "idle"

\* What a table or list that reports errors shows: an error hides data from before.
Shown(e) == e.data # {} /\ ~e.failed
Value(e) == CHOOSE v \in e.data : TRUE

\* The entries that may result when a component comes to observe e: within the
\* stale time the data is used as it is, after it a request goes out as well.
Observed(e) ==
    IF Loading(e) THEN {e}
    ELSE IF e.stale \/ e.data = {} THEN {Refetch(e)}
    ELSE {e, Refetch(e)}

Answered(e, v) == [e EXCEPT !.fetch = "answered", !.answer = {v}]
Received(e)    == [Unused EXCEPT !.data = e.answer, !.missed = e.missed]
Failed(e)      == [e EXCEPT !.fetch = "idle", !.answer = {}, !.failed = TRUE]

\* Mutant of Invalidated: a request that is out is taken to be enough.
InvalidatedOnce(e, active) ==
    IF active /\ ~Loading(e) THEN Refetch([e EXCEPT !.stale = TRUE]) ELSE [e EXCEPT !.stale = TRUE]

\* invalidateQueries: an entry that is observed is fetched again, and a request
\* under way is cancelled for it, unless the entry has no data yet.  The answer
\* of a request that goes on makes the entry fresh again.
Invalidated(e, active) ==
    IF e = Unused THEN e
    ELSE IF active /\ (e.data # {} \/ ~Loading(e))
    THEN Refetch([e EXCEPT !.stale = TRUE])
    ELSE [e EXCEPT !.stale = TRUE, !.missed = Loading(e) \/ @]

IsEntry(e) ==
    /\ e.fetch \in {"idle", "sent", "answered"}
    /\ \A v, w \in e.data : v = w
    /\ \A v, w \in e.answer : v = w
    /\ {e.stale, e.failed, e.missed} \subseteq BOOLEAN
=============================================================================
