---------------------------- MODULE Authorization ----------------------------
(***************************************************************************)
(* Policy-based access control (authorization/, api/pbac_routes/): who     *)
(* holds which policy or direct grant, how a request is decided from lists *)
(* that are cached in Valkey, and the management routes that change what   *)
(* the lists are read from.                                                *)
(*                                                                         *)
(* Every request first authorises its caller: it reads two cached lists,   *)
(* fills them from Postgres where they miss, and evaluates.  A management  *)
(* request does the same once per action it hands out or takes away        *)
(* (assert_authorized_to_grant), then commits, then deletes cache keys.    *)
(* One action is one awaited call to Valkey or Postgres.                   *)
(*                                                                         *)
(* Data.  A condition block is the set of its conditions, {} being         *)
(* unconditional, and a request's context is the set of conditions it      *)
(* satisfies.  All actions belong to one resource type, and the actions    *)
(* the routes themselves require (policies:assign, policies:update, ...)   *)
(* are the one action Manage.                                              *)
(***************************************************************************)
EXTENDS Integers, FiniteSets, Sequences

CONSTANTS
    User, Policy, Action, Cond,
    Req,            \* request slots
    Manage,         \* the action the management routes require
    BuiltIn,        \* the members of the Permission enum; the rest is app-owned
    Superuser,      \* the protected policy system_superuser
    System,         \* accounts with role system: the routes refuse to touch them
    None,
    Caller,         \* the accounts whose requests are modelled
    Op,             \* the kinds of management requests
    Edits,          \* what PUT /policies may carry: each field a value or None
    Contexts,       \* the contexts requests come with
    InitPolicy, InitHeld, InitDirect,
    Bounds          \* bounds on the committed changes and on the Valkey commands
                    \* that fail; each behaviour has one of them

Scope == SUBSET Cond
\* A policy grants at least one action.
Definition == [actions : (SUBSET Action) \ {{}}, scope : Scope, active : BOOLEAN]
Grant == [action : Action, scope : Scope]
Edit == [actions : {None} \cup ((SUBSET Action) \ {{}}), scope : {None} \cup Scope, active : {None} \cup BOOLEAN]

ASSUME ConstantAssumption ==
    /\ Manage \in Action /\ BuiltIn \subseteq Action /\ Superuser \in Policy /\ System \cup Caller \subseteq User
    /\ None \notin User \cup Policy \cup Action \cup Definition
    /\ Edits \subseteq Edit
    /\ Contexts \subseteq Scope
    /\ InitPolicy \in [Policy -> Definition \cup {None}]
    /\ InitHeld \subseteq User \X Policy
    /\ InitDirect \in [User -> SUBSET Grant]
    /\ Bounds \subseteq [writes : Nat, faults : Nat]

VARIABLES
    policy,     \* policies: the definition of each, None when there is no such row
    held,       \* user_policies
    direct,     \* user_permissions: one grant per user and action
    history,    \* policy_history, in commit order
    listed,     \* authz:user_policies:<user>: a list, or None on a miss
    granted,    \* authz:user_permissions:<user>: a list, or None on a miss
    req,        \* the requests
    left,       \* what is left of the bounds
    was,        \* history: every grant a user has ever had the use of
    credited,   \* history: what a policy a request had loaded before it changed
                \* credits its caller with, who never had the use of it
    always      \* history: what a user has been allowed in every state so far

tables == <<policy, held, direct, history>>
cache == <<listed, granted>>
ghosts == <<was, credited, always>>
vars == <<policy, held, direct, history, listed, granted, req, left, was, credited, always>>

NoReq == [pc |-> "idle", op |-> "check", caller |-> None, ctx |-> {}, policy |-> None, users |-> {},
          action |-> None, scope |-> {}, edit |-> None, saw |-> None, phase |-> "require", ps |-> <<>>,
          gs |-> {}, checks |-> <<>>, todo |-> {}, super |-> FALSE, rows |-> {}, alone |-> FALSE]

-----------------------------------------------------------------------------
(* Evaluation                                                              *)

\* A policy list and direct grants, normalised into one set of grants.
Rights(ps, gs) ==
    gs \cup UNION {{[action |-> a, scope |-> ps[p].scope] : a \in ps[p].actions} : p \in DOMAIN ps}

\* The conditions of the grants that allow action a in context ctx.
Matched(rights, a, ctx) == {g.scope : g \in {h \in rights : h.action = a /\ h.scope \subseteq ctx}}

\* Mutant of HasScopeForGrant: holding the action under any conditions is enough.
HasScopeIgnored(matched, proposed) == matched # {}

\* A caller may add conditions to what they hold, never drop one.
HasScopeForGrant(matched, proposed) == \E s \in matched : s \subseteq proposed

ActivePolicies(u) == {p \in Policy : <<u, p>> \in held /\ policy[p] # None /\ policy[p].active}

\* What user u may do, by the tables.
Effective(u) == Rights([p \in ActivePolicies(u) |-> policy[p]], direct[u])

Allowed == {x \in User \X Action \X Contexts : Matched(Effective(x[1]), x[2], x[3]) # {}}

\* The grants users have the use of.
InUse == {x \in User \X Grant : x[2] \in Effective(x[1])}

Init ==
    /\ policy = InitPolicy /\ held = InitHeld /\ direct = InitDirect
    /\ history = <<>>
    /\ listed = [u \in User |-> None] /\ granted = [u \in User |-> None]
    /\ req = [r \in Req |-> NoReq]
    /\ left \in Bounds
    /\ was = InUse
    /\ credited = {}
    /\ always = Allowed

\* Every commit is remembered.
Commit ==
    /\ left' = [left EXCEPT !.writes = @ - 1]
    /\ was' = was \cup InUse'
    /\ always' = always \cap Allowed'
    /\ UNCHANGED <<cache, credited>>

Becomes(r, q) == req' = [req EXCEPT ![r] = q]
Ends(r) == Becomes(r, NoReq)
Fails == left.faults > 0 /\ left' = [left EXCEPT !.faults = @ - 1]

-----------------------------------------------------------------------------
(* Requests arrive                                                         *)

Starts(r, q) ==
    /\ req[r].pc = "idle"
    /\ req' = [s \in Req |->
                 IF s = r THEN [q EXCEPT !.pc = "get", !.alone = q.op = "check" /\ \A t \in Req \ {r} : req[t].pc = "idle"]
                          ELSE [req[s] EXCEPT !.alone = FALSE]]
    /\ UNCHANGED <<tables, cache, left, ghosts>>

\* Any protected route that changes nothing in this module.
Check(r) ==
    \E u \in Caller, c \in Contexts, a \in Action :
        Starts(r, [NoReq EXCEPT !.caller = u, !.ctx = c, !.action = a])

\* A request that may commit a change starts only below the bound.
MayWrite == Cardinality({s \in Req : req[s].op # "check"}) < left.writes

\* A management route.  What it asks for makes no difference until its caller is
\* known to have Manage, and is chosen when the handler loads it.
ManagementRequest(r) ==
    \E u \in Caller, c \in Contexts :
        /\ MayWrite
        /\ Starts(r, [NoReq EXCEPT !.op = "manage", !.caller = u, !.ctx = c])

-----------------------------------------------------------------------------
(* Reading the two lists, and deciding                                     *)

\* What follows the last check: the handler's own work.
Ready(q) ==
    [q EXCEPT !.phase = "done", !.ps = <<>>, !.ctx = {},
              !.pc = IF q.op \in {"assign", "remove", "revoke_action"} THEN "holds" ELSE "apply"]

\* assert_authorized_to_grant starts on the next action list, if there is one.  An
\* app-owned action in it makes the guard look for system_superuser first.
NextCheck(q) ==
    IF q.checks = <<>> THEN Ready(q)
    ELSE [q EXCEPT !.pc = "get", !.todo = Head(q.checks).actions, !.ps = <<>>,
                   !.phase = IF Head(q.checks).actions \subseteq BuiltIn THEN "guard" ELSE "super"]

\* The policy list has been read.
WithList(q, ps) ==
    CASE q.phase # "super" -> [q EXCEPT !.pc = "getGrants", !.ps = ps]
      [] q.phase = "super" /\ Superuser \in DOMAIN ps ->
            NextCheck([q EXCEPT !.checks = Tail(q.checks), !.super = TRUE])
      [] OTHER -> [q EXCEPT !.pc = "get", !.phase = "guard"]

\* The direct grants have been read too: the decision, and what follows it.
WithGrants(q, gs) ==
    LET a == IF q.phase = "guard" THEN CHOOSE b \in q.todo : TRUE
             ELSE IF q.op = "check" THEN q.action ELSE Manage
        matched == Matched(Rights(q.ps, gs), a, q.ctx)
        rest == [q EXCEPT !.todo = q.todo \ {a}, !.ps = <<>>, !.gs = {}]
    IN  CASE q.phase = "require" /\ q.op = "check" ->
                [rest EXCEPT !.pc = IF matched # {} THEN "allowed" ELSE "denied"]
          [] q.phase = "require" /\ q.op # "check" /\ matched # {} -> [rest EXCEPT !.pc = "load"]
          [] q.phase = "guard" /\ HasScopeForGrant(matched, Head(q.checks).scope) ->
                IF q.todo = {a} THEN NextCheck([rest EXCEPT !.checks = Tail(q.checks)])
                                ELSE [rest EXCEPT !.pc = "get"]
          [] OTHER -> NoReq                                             \* 403

\* get_user_policies finds the key.
CachedPolicies(r) ==
    LET q == req[r] IN
    /\ q.pc = "get" /\ listed[q.caller] # None
    /\ Becomes(r, WithList(q, listed[q.caller]))
    /\ UNCHANGED <<tables, cache, left, ghosts>>

\* It does not, or not in time, or Valkey fails: all of them are a miss.  Postgres
\* filters the rows by what it has now, but a policy that the handler holds already
\* keeps the attributes it was loaded with.
SelectPolicies(r) ==
    LET q == req[r]
        ps == [p \in ActivePolicies(q.caller) |-> IF p = q.policy /\ q.saw # None THEN q.saw ELSE policy[p]]
        loaded == IF q.saw # None /\ q.policy \in DOMAIN ps
                  THEN {[action |-> a, scope |-> q.saw.scope] : a \in q.saw.actions} ELSE {}
    IN
    /\ q.pc = "get"
    /\ Becomes(r, [q EXCEPT !.pc = "set", !.ps = ps])
    /\ credited' = credited \cup (({q.caller} \X loaded) \ was)
    /\ UNCHANGED <<tables, cache, left, was, always>>

SetPolicies(r) ==
    LET q == req[r] IN
    /\ q.pc = "set"
    /\ \/ listed' = [listed EXCEPT ![q.caller] = q.ps] /\ UNCHANGED left
       \/ Fails /\ UNCHANGED listed
    /\ Becomes(r, WithList(q, q.ps))
    /\ UNCHANGED <<tables, granted, ghosts>>

CachedPermissions(r) ==
    LET q == req[r] IN
    /\ q.pc = "getGrants" /\ granted[q.caller] # None
    /\ Becomes(r, WithGrants(q, granted[q.caller]))
    /\ UNCHANGED <<tables, cache, left, ghosts>>

SelectPermissions(r) ==
    /\ req[r].pc = "getGrants"
    /\ Becomes(r, [req[r] EXCEPT !.pc = "setGrants", !.gs = direct[req[r].caller]])
    /\ UNCHANGED <<tables, cache, left, ghosts>>

SetPermissions(r) ==
    LET q == req[r] IN
    /\ q.pc = "setGrants"
    /\ \/ granted' = [granted EXCEPT ![q.caller] = q.gs] /\ UNCHANGED left
       \/ Fails /\ UNCHANGED granted
    /\ Becomes(r, WithGrants(q, q.gs))
    /\ UNCHANGED <<tables, listed, ghosts>>

\* The response to a request that changed nothing.
Respond(r) ==
    /\ req[r].pc \in {"allowed", "denied"}
    /\ Ends(r)
    /\ UNCHANGED <<tables, cache, left, ghosts>>

-----------------------------------------------------------------------------
(* The handlers, after the caller's right to use the route is established   *)

\* An edit applied to a definition: only the fields it carries.
Edited(d, e) ==
    [actions |-> IF e.actions = None THEN d.actions ELSE e.actions,
     scope   |-> IF e.scope = None THEN d.scope ELSE e.scope,
     active  |-> IF e.active = None THEN d.active ELSE e.active]

\* definition_for_entry
DefinitionOf(h) == IF h.next # None THEN h.next ELSE h.prev

Loaded(q, checks) == NextCheck([q EXCEPT !.saw = policy[q.policy], !.checks = checks])

\* A request whose caller may manage turns out to ask for one of these.
Asks(r, ops) == req[r].pc = "load" /\ ops \cap Op # {}

Assignments == {"assign", "remove", "revoke_action", "bulk_assign", "bulk_remove"}

\* get_by_name, and what is refused before the guard runs.
LoadForAssignment(r) ==
    /\ Asks(r, Assignments)
    /\ \E op \in Assignments \cap Op, p \in Policy, us \in (SUBSET User) \ {{}}, a \in Action :
        LET q == [req[r] EXCEPT !.op = op, !.policy = p, !.users = us \ System,
                                !.action = IF op = "revoke_action" THEN a ELSE None]
            d == policy[p]
        IN
        /\ op \notin {"bulk_assign", "bulk_remove"} => Cardinality(us) = 1
        /\ IF d = None \/ us \subseteq System THEN Ends(r)
           ELSE IF op = "bulk_remove" /\ p = Superuser
           THEN Becomes(r, [q EXCEPT !.pc = "lock", !.saw = d])
           ELSE Becomes(r, Loaded(q, <<d>>))
        /\ UNCHANGED <<tables, cache, left, ghosts>>

\* get_holder_emails_for_update waits for rows another request has locked.
LockHolders(r) ==
    LET q == req[r]  holders == {u \in User : <<u, q.policy>> \in held} IN
    /\ q.pc = "lock"
    /\ \A s \in Req \ {r} : req[s].rows = {}
    /\ Becomes(r, NextCheck([q EXCEPT !.checks = <<q.saw>>, !.rows = holders]))
    /\ UNCHANGED <<tables, cache, left, ghosts>>

\* The caller must hold what the policy grants now, and what it would grant.
LoadForUpdate(r) ==
    /\ Asks(r, {"update"})
    /\ \E p \in Policy, e \in Edits :
        LET d == policy[p]  grants == e.actions # None \/ e.scope # None IN
        /\ IF d = None \/ (p = Superuser /\ e.active = FALSE) THEN Ends(r)
           ELSE Becomes(r, Loaded([req[r] EXCEPT !.op = "update", !.policy = p, !.edit = e],
                                  (IF grants \/ e.active = FALSE THEN <<d>> ELSE <<>>)
                                  \o (IF grants THEN <<Edited(d, e)>> ELSE <<>>)))
        /\ UNCHANGED <<tables, cache, left, ghosts>>

\* Any recorded version of the policy may be asked for.
LoadForRollback(r) ==
    /\ Asks(r, {"rollback"})
    /\ \E i \in DOMAIN history :
        LET p == history[i].policy  e == DefinitionOf(history[i]) IN
        /\ IF policy[p] = None \/ (p = Superuser /\ ~e.active) THEN Ends(r)
           ELSE Becomes(r, Loaded([req[r] EXCEPT !.op = "rollback", !.policy = p, !.edit = e],
                                  <<policy[p], e>>))
        /\ UNCHANGED <<tables, cache, left, ghosts>>

LoadForDelete(r) ==
    /\ Asks(r, {"delete"})
    /\ \E p \in Policy :
        LET d == policy[p] IN
        /\ IF d = None \/ p = Superuser \/ d.active THEN Ends(r)
           ELSE Becomes(r, Loaded([req[r] EXCEPT !.op = "delete", !.policy = p], <<d>>))
        /\ UNCHANGED <<tables, cache, left, ghosts>>

New(e) == Edited([actions |-> {}, scope |-> {}, active |-> TRUE], [e EXCEPT !.active = None])

\* A name is not used again after a deletion: a row would have another id.
LoadForCreate(r) ==
    /\ Asks(r, {"create"})
    /\ \E p \in Policy, e \in Edits :
        /\ e.actions # None
        /\ IF policy[p] # None THEN Ends(r)
           ELSE /\ \A i \in DOMAIN history : history[i].policy # p
                /\ Becomes(r, NextCheck([req[r] EXCEPT !.op = "create", !.policy = p, !.edit = e,
                                                       !.checks = <<New(e)>>]))
        /\ UNCHANGED <<tables, cache, left, ghosts>>

\* One action for some users; revoking passes no conditions to the guard.
LoadForGrant(r) ==
    /\ Asks(r, {"grant", "ungrant"})
    /\ \E op \in {"grant", "ungrant"} \cap Op, us \in (SUBSET User) \ {{}}, a \in Action, s \in Scope :
        /\ op = "ungrant" => s = {}
        /\ IF us \subseteq System THEN Ends(r)
           ELSE Becomes(r, NextCheck([req[r] EXCEPT !.op = op, !.users = us \ System, !.action = a, !.scope = s,
                                                    !.checks = <<[actions |-> {a}, scope |-> s]>>]))
        /\ UNCHANGED <<tables, cache, left, ghosts>>

\* The existing row: assigning twice is a no-op, removing what is not held a 404.
Holds(r) ==
    LET q == req[r]  has == \A u \in q.users : <<u, q.policy>> \in held IN
    /\ q.pc = "holds"
    /\ IF has = (q.op = "assign") THEN Ends(r)
       ELSE Becomes(r, [q EXCEPT !.pc = IF q.op # "assign" /\ q.policy = Superuser THEN "count" ELSE "apply"])
    /\ UNCHANGED <<tables, cache, left, ghosts>>

\* count_assignments, read without a lock.
CountHolders(r) ==
    LET q == req[r] IN
    /\ q.pc = "count"
    /\ IF Cardinality({u \in User : <<u, q.policy>> \in held}) <= 1 THEN Ends(r)    \* 409
       ELSE Becomes(r, [q EXCEPT !.pc = "apply"])
    /\ UNCHANGED <<tables, cache, left, ghosts>>

-----------------------------------------------------------------------------
(* The transactions, and the keys each deletes afterwards                   *)

\* The users whose cached policy lists have to go; nobody's ends the request.
Invalidates(r, us) ==
    IF us = {} THEN Ends(r) ELSE Becomes(r, [NoReq EXCEPT !.pc = "drop", !.op = req[r].op, !.users = us])

\* A row that another request has locked cannot be deleted yet.
Unlocked(r, us) == req[r].policy = Superuser => \A s \in Req \ {r} : us \cap req[s].rows = {}

Assign(r) ==
    LET q == req[r] IN
    /\ q.pc = "apply" /\ q.op \in {"assign", "bulk_assign"}
    /\ \/ /\ policy[q.policy] # None
          /\ held' = held \cup q.users \X {q.policy}
          /\ UNCHANGED <<policy, direct, history>>
          /\ Invalidates(r, q.users)
          /\ Commit
       \/ /\ policy[q.policy] = None            \* the foreign key refuses every insert
          /\ IF q.op = "assign" THEN Ends(r) ELSE Invalidates(r, q.users)
          /\ UNCHANGED <<tables, cache, left, ghosts>>

\* Of system_superuser a batch removes all but one of the holders it has locked.
Remove(r) ==
    LET q == req[r]
        us == {u \in q.users : <<u, q.policy>> \in held}
    IN
    /\ q.pc = "apply" /\ q.op \in {"remove", "bulk_remove"}
    /\ Unlocked(r, us)
    /\ \/ /\ us = {}
          /\ Ends(r)
          /\ UNCHANGED <<tables, cache, left, ghosts>>
       \/ /\ us # {}
          /\ \E kept \in SUBSET q.rows :
               /\ Cardinality(kept) = IF q.rows # {} /\ q.rows \subseteq us THEN 1 ELSE 0
               /\ held' = held \ ((us \ kept) \X {q.policy})
               /\ Invalidates(r, us \ kept)
          /\ UNCHANGED <<policy, direct, history>>
          /\ Commit

\* The other actions of the policy become direct grants under its conditions.
Regranted(gs, actions, scope) ==
    {g \in gs : g.action \notin actions} \cup {[action |-> a, scope |-> scope] : a \in actions}

RevokeSingleAction(r) ==
    LET q == req[r] IN
    /\ q.pc = "apply" /\ q.op = "revoke_action"
    /\ Unlocked(r, q.users)
    /\ IF q.action \notin q.saw.actions \/ \E u \in q.users : <<u, q.policy>> \notin held
       THEN /\ Ends(r)
            /\ UNCHANGED <<tables, cache, left, ghosts>>
       ELSE /\ direct' = [u \in User |->
                 IF u \in q.users THEN Regranted(direct[u], q.saw.actions \ {q.action}, q.saw.scope)
                                  ELSE direct[u]]
            /\ held' = held \ (q.users \X {q.policy})
            /\ UNCHANGED <<policy, history>>
            /\ Invalidates(r, q.users)
            /\ Commit

Recorded(p, kind, prev, next) ==
    history' = Append(history, [policy |-> p, kind |-> kind, prev |-> prev, next |-> next])

\* Mutant of Update: the edit starts from the definition loaded before the checks.
UpdateUnread(r) ==
    LET q == req[r] IN
    /\ q.pc = "apply" /\ q.op \in {"update", "rollback"}
    /\ policy[q.policy] # None
    /\ policy' = [policy EXCEPT ![q.policy] = Edited(q.saw, q.edit)]
    /\ Recorded(q.policy, q.op, q.saw, Edited(q.saw, q.edit))
    /\ Becomes(r, [NoReq EXCEPT !.pc = "refresh", !.op = q.op, !.policy = q.policy])
    /\ UNCHANGED <<held, direct>>
    /\ Commit

\* SELECT ... FOR UPDATE re-reads the row, and the fields are applied to that.
Update(r) ==
    LET q == req[r]  d == policy[q.policy] IN
    /\ q.pc = "apply" /\ q.op \in {"update", "rollback"}
    /\ IF d = None
       THEN /\ Ends(r)
            /\ UNCHANGED <<tables, cache, left, ghosts>>
       ELSE /\ policy' = [policy EXCEPT ![q.policy] = Edited(d, q.edit)]
            /\ Recorded(q.policy, q.op, d, Edited(d, q.edit))
            /\ Becomes(r, [NoReq EXCEPT !.pc = "refresh", !.op = q.op, !.policy = q.policy])
            /\ UNCHANGED <<held, direct>>
            /\ Commit

\* A policy deleted right after the update: 404, and the deletion invalidates.
Refresh(r) ==
    /\ req[r].pc = "refresh"
    /\ IF policy[req[r].policy] = None THEN Ends(r) ELSE Invalidates(r, User)
    /\ UNCHANGED <<tables, cache, left, ghosts>>

\* No lock, no re-read: the row goes as it was when the handler loaded it.
Delete(r) ==
    LET q == req[r] IN
    /\ q.pc = "apply" /\ q.op = "delete"
    /\ policy' = [policy EXCEPT ![q.policy] = None]
    /\ held' = held \ (User \X {q.policy})
    /\ Recorded(q.policy, q.op, q.saw, None)
    /\ Invalidates(r, User)
    /\ UNCHANGED direct
    /\ Commit

\* Nobody holds a new policy; a lost race for the name is a 409.
Create(r) ==
    LET q == req[r] IN
    /\ q.pc = "apply" /\ q.op = "create"
    /\ Ends(r)
    /\ IF policy[q.policy] # None
       THEN UNCHANGED <<tables, cache, left, ghosts>>
       ELSE /\ policy' = [policy EXCEPT ![q.policy] = New(q.edit)]
            /\ Recorded(q.policy, q.op, None, New(q.edit))
            /\ UNCHANGED <<held, direct>>
            /\ Commit

\* Granting again replaces the conditions.
GrantPermission(r) ==
    LET q == req[r] IN
    /\ q.pc = "apply" /\ q.op = "grant"
    /\ direct' = [u \in User |-> IF u \in q.users THEN Regranted(direct[u], {q.action}, q.scope)
                                                  ELSE direct[u]]
    /\ Becomes(r, [NoReq EXCEPT !.pc = "dropGrants", !.op = q.op, !.users = q.users])
    /\ UNCHANGED <<policy, held, history>>
    /\ Commit

RemovePermission(r) ==
    LET q == req[r]
        us == {u \in q.users : \E g \in direct[u] : g.action = q.action}
    IN
    /\ q.pc = "apply" /\ q.op = "ungrant"
    /\ IF us = {}
       THEN /\ Ends(r)
            /\ UNCHANGED <<tables, cache, left, ghosts>>
       ELSE /\ direct' = [u \in User |-> {g \in direct[u] : u \notin us \/ g.action # q.action}]
            /\ Becomes(r, [NoReq EXCEPT !.pc = "dropGrants", !.op = q.op, !.users = us])
            /\ UNCHANGED <<policy, held, history>>
            /\ Commit

\* One DEL, or the SCAN of the whole namespace: a failure is swallowed.
InvalidatePolicies(r) ==
    LET q == req[r] IN
    /\ q.pc = "drop"
    /\ \/ listed' = [u \in User |-> IF u \in q.users THEN None ELSE listed[u]] /\ UNCHANGED left
       \/ Fails /\ UNCHANGED listed
    /\ IF q.op = "revoke_action" THEN Becomes(r, [q EXCEPT !.pc = "dropGrants"]) ELSE Ends(r)
    /\ UNCHANGED <<tables, granted, ghosts>>

InvalidatePermissions(r) ==
    LET q == req[r] IN
    /\ q.pc = "dropGrants"
    /\ \/ granted' = [u \in User |-> IF u \in q.users THEN None ELSE granted[u]] /\ UNCHANGED left
       \/ Fails /\ UNCHANGED granted
    /\ Ends(r)
    /\ UNCHANGED <<tables, listed, ghosts>>

\* Mutant of ExpirePolicies: the key is set without its 60 seconds.
NeverExpires(u) == listed[u] = None /\ UNCHANGED vars

\* A key's 60 seconds are over.
ExpirePolicies(u) ==
    /\ listed[u] # None
    /\ listed' = [listed EXCEPT ![u] = None]
    /\ UNCHANGED <<tables, granted, req, left, ghosts>>

ExpirePermissions(u) ==
    /\ granted[u] # None
    /\ granted' = [granted EXCEPT ![u] = None]
    /\ UNCHANGED <<tables, listed, req, left, ghosts>>

-----------------------------------------------------------------------------
Authorises(r) ==
    \/ CachedPolicies(r) \/ SelectPolicies(r) \/ SetPolicies(r)
    \/ CachedPermissions(r) \/ SelectPermissions(r) \/ SetPermissions(r) \/ Respond(r)

Prepares(r) ==
    \/ LoadForAssignment(r) \/ LockHolders(r) \/ LoadForUpdate(r) \/ LoadForRollback(r) \/ LoadForDelete(r)
    \/ LoadForCreate(r) \/ LoadForGrant(r) \/ Holds(r) \/ CountHolders(r)

Applies(r) ==
    \/ Assign(r) \/ Remove(r) \/ RevokeSingleAction(r) \/ Update(r) \/ Refresh(r) \/ Delete(r) \/ Create(r)
    \/ GrantPermission(r) \/ RemovePermission(r) \/ InvalidatePolicies(r) \/ InvalidatePermissions(r)

Serve(r) == Authorises(r) \/ Prepares(r) \/ Applies(r)

Arrives(r) == Check(r) \/ ManagementRequest(r)

Next ==
    \/ \E r \in Req : Arrives(r) \/ Serve(r)
    \/ \E u \in User : ExpirePolicies(u) \/ ExpirePermissions(u)

Spec == Init /\ [][Next]_vars

\* asyncio runs an accepted request to its response, and Valkey removes a key
\* whose time is over.
FairSpec ==
    /\ Spec
    /\ \A r \in Req : WF_vars(Serve(r))
    /\ \A u \in User : WF_vars(ExpirePolicies(u)) /\ WF_vars(ExpirePermissions(u))

-----------------------------------------------------------------------------
(* Properties                                                              *)

List == UNION {[ps -> Definition] : ps \in SUBSET Policy}

Pc == {"idle", "get", "set", "getGrants", "setGrants", "allowed", "denied", "load", "lock", "holds", "count",
       "apply", "refresh", "drop", "dropGrants"}
Operation == Assignments \cup {"check", "manage", "create", "update", "rollback", "delete", "grant", "ungrant"}

\* What the guard is asked about: a definition, or one action to be granted.
Proposal == Definition \cup [actions : (SUBSET Action) \ {{}}, scope : Scope]

Request == [pc : Pc, op : Operation, caller : User \cup {None}, ctx : Scope, policy : Policy \cup {None},
            users : SUBSET User, action : Action \cup {None}, scope : Scope,
            edit : {None} \cup Edit, saw : {None} \cup Definition, phase : {"require", "super", "guard", "done"},
            ps : {<<>>} \cup List, gs : SUBSET Grant, checks : Seq(Proposal), todo : SUBSET Action,
            super : BOOLEAN, rows : SUBSET User, alone : BOOLEAN]

Record == [policy : Policy, kind : {"create", "update", "rollback", "delete"},
           prev : {None} \cup Definition, next : {None} \cup Definition]

\* Every variable has its type.
TypeOK ==
    /\ policy \in [Policy -> {None} \cup Definition]
    /\ held \subseteq User \X Policy
    /\ direct \in [User -> SUBSET Grant]
    /\ history \in Seq(Record)
    /\ listed \in [User -> {None} \cup List]
    /\ granted \in [User -> {None} \cup SUBSET Grant]
    /\ req \in [Req -> Request]
    /\ left \in [writes : Int, faults : Nat]
    /\ was \subseteq User \X Grant
    /\ credited \subseteq User \X Grant
    /\ always \subseteq User \X Action \X Contexts

\* What request q hands out by committing now.
HandsOut(q) ==
    CASE q.op \in {"assign", "bulk_assign"} -> q.saw
      [] q.op = "create" -> New(q.edit)
      [] q.op = "rollback" -> q.edit
      [] q.op = "grant" -> [actions |-> {q.action}, scope |-> q.scope]
      [] OTHER -> [actions |-> {}, scope |-> {}]

HadIn(grants, u, a, scope) == \E x \in grants : x[1] = u /\ x[2].action = a /\ x[2].scope \subseteq scope

Had(u, a, scope) == HadIn(was \cup credited, u, a, scope)

\* Nobody hands out an action they never had, nor one of their own under fewer
\* conditions, whatever the caches say while the guard runs; only a holder of
\* system_superuser may hand out an app-owned action
\* (assert_authorized_to_grant).  The exception is what a policy granted when
\* the request loaded it, if the caller came to hold the policy only after that
\* was taken out of it: the guard goes by the attributes loaded.
GrantsStayWithinOwn ==
    [][\A r \in Req :
        req[r].pc = "apply" /\ req'[r].pc # "apply" /\ ~req[r].super =>
            \A a \in HandsOut(req[r]).actions : Had(req[r].caller, a, HandsOut(req[r]).scope)]_vars

\* Each recorded edit starts from the version the record before it ended with, so
\* that the history can be replayed and rolled back (policy_repository.update:
\* "silently overwriting each other's changes and corrupting the history chain").
EditsFormAChain ==
    \A j \in DOMAIN history : history[j].kind \in {"update", "rollback"} =>
        \A i \in 1..(j - 1) :
            history[i].policy = history[j].policy
              /\ ~(\E k \in (i + 1)..(j - 1) : history[k].policy = history[j].policy)
            => history[i].next = history[j].prev

\* Once the changes stop, what is cached becomes what the tables say, and stays so:
\* a list that was filled by a racing read, or missed its invalidation, does not
\* outlive its key (_USER_POLICIES_TTL_SECONDS).
CachesCatchUp ==
    \A u \in User :
        /\ <>[](listed[u] \in {None, [p \in ActivePolicies(u) |-> policy[p]]})
        /\ <>[](granted[u] \in {None, direct[u]})

-----------------------------------------------------------------------------
(* What the documentation says, and the code does not do                   *)

\* docs/mystic_auth/authorization/architecture/real-time-push.md:15: "the next
\* request after a grant/revoke/update/delete always evaluates against the current
\* policy set, cache or no cache."
NextRequestIsCurrent ==
    \A r \in Req : req[r].alone =>
        /\ req[r].pc = "allowed" => <<req[r].caller, req[r].action, req[r].ctx>> \in Allowed
        /\ req[r].pc = "denied" => <<req[r].caller, req[r].action, req[r].ctx>> \notin Allowed

\* policy_action_revocation_service.py:16-18: "without dropping the user's other
\* actions from that same policy".  Nobody is denied what they have had throughout.
KeptActionsStayAllowed ==
    \A r \in Req : req[r].pc = "denied" => <<req[r].caller, req[r].action, req[r].ctx>> \notin always

\* policy_action_revocation_service.py:29-31: "so the user's effective access is
\* unchanged except for the revoked action."
OtherAccessIsUnchanged ==
    [][\A r \in Req :
        req[r].pc = "apply" /\ req[r].op = "revoke_action" /\ req'[r].pc = "drop" =>
            \A u \in req[r].users, a \in Action \ {req[r].action}, c \in Contexts :
                (<<u, a, c>> \in Allowed) <=> (<<u, a, c>> \in Allowed')]_vars

\* policy_crud_routes.py:316-319: "direct API callers cannot bypass the operator
\* workflow and immediately remove a policy that is still actively granting access."
DeletedWasInactive ==
    [][\A p \in Policy : policy[p] # None /\ policy'[p] = None => ~policy[p].active]_vars

\* policy_history_model.py:40-42: previous_definition is the "full policy definition
\* [...] before this change", a deletion's too.
HistoryIsAChain ==
    \A i \in 1..(Len(history) - 1) :
        history[i].policy = history[i + 1].policy => history[i].next = history[i + 1].prev

\* authorization_grant_guard.py:22-23: "Every action confirms that the caller already
\* holds it".  The same without the exception.
HandsOutOnlyHeld ==
    [][\A r \in Req :
        req[r].pc = "apply" /\ req'[r].pc # "apply" /\ ~req[r].super =>
            \A a \in HandsOut(req[r]).actions : HadIn(was, req[r].caller, a, HandsOut(req[r]).scope)]_vars

\* policy_crud_routes.py:178-181: "the caller must already hold every action the
\* policy would grant afterwards".
EditsStayWithinOwn ==
    [][\A r \in Req :
        req[r].pc = "apply" /\ req[r].op = "update" /\ req'[r].pc = "refresh" /\ ~req[r].super
          /\ (req[r].edit.actions # None \/ req[r].edit.scope # None) =>
            LET d == policy'[req[r].policy] IN \A a \in d.actions : Had(req[r].caller, a, d.scope)]_vars
=============================================================================
