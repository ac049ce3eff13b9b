------------------------- MODULE AuthorizationProofs -------------------------
(***************************************************************************)
(* Proofs about Authorization, for every set of users, policies, actions,  *)
(* conditions and requests, whatever the initial tables are.               *)
(***************************************************************************)
EXTENDS Authorization, TLAPS

Finished == {"idle", "refresh", "drop", "dropGrants"}
Checking == {"get", "set", "getGrants", "setGrants"}

\* A request that is being served has a caller and, once it is known what it asks
\* for, what that takes.
Equipped(q) ==
    /\ q.caller \in User
    /\ q.op \in Assignments => q.policy \in Policy /\ q.saw \in Definition
    /\ q.op \in {"create", "update", "rollback"} => q.policy \in Policy /\ q.edit \in Edit
    /\ q.op = "create" => q.edit.actions # None
    /\ q.op = "rollback" => q.edit \in Definition
    /\ q.op = "delete" => q.policy \in Policy /\ q.saw \in Definition
    /\ q.op \in {"grant", "ungrant"} => q.action \in Action

\* It goes by a list it has read, and the guard by a question.
ReqOK(q) ==
    /\ q.pc \in {"set", "getGrants", "setGrants"} => q.ps \in List
    /\ q.pc \in Checking /\ q.phase \in {"super", "guard"} => q.checks # <<>>
    /\ q.pc = "lock" => q.op = "bulk_remove"
    /\ q.pc \notin Finished => Equipped(q)

Good(q) == q \in Request /\ ReqOK(q)

\* Every record of the history has a definition to go back to.
TypeInv ==
    /\ TypeOK
    /\ \A r \in Req : ReqOK(req[r])
    /\ \A i \in DOMAIN history : DefinitionOf(history[i]) \in Definition


LEMMA NoReqGood == Good(NoReq)
  BY DEF Good, NoReq, Request, Pc, Operation, Scope, List, Proposal, ReqOK, Finished, Checking

LEMMA InitTypeInv == Init => TypeInv
  <1> SUFFICES ASSUME Init PROVE TypeInv
    OBVIOUS
  <1> USE ConstantAssumption DEF Init
  <1>1. NoReq \in Request /\ ReqOK(NoReq)
    BY NoReqGood DEF Good
  <1>2. req \in [Req -> Request] /\ \A r \in Req : ReqOK(req[r])
    BY <1>1
  <1>3. policy \in [Policy -> {None} \cup Definition] /\ direct \in [User -> SUBSET Grant] /\ held \subseteq User \X Policy
    OBVIOUS
  <1>4. left \in [writes : Int, faults : Nat]
    OBVIOUS
  <1>5. history \in Seq(Record) /\ listed \in [User -> {None} \cup List]
        /\ granted \in [User -> {None} \cup SUBSET Grant]
    OBVIOUS
  <1>6. was \subseteq User \X Grant /\ credited \subseteq User \X Grant /\ always \subseteq User \X Action \X Contexts
    BY DEF Allowed, InUse
  <1> QED
    BY <1>2, <1>3, <1>4, <1>5, <1>6 DEF TypeInv, TypeOK

\* The guard's next question, or the handler's own work.
LEMMA NextCheckFacts ==
  ASSUME NEW q \in Request
  PROVE  LET n == NextCheck(q) IN
         /\ n \in Request
         /\ n.op = q.op /\ n.caller = q.caller /\ n.policy = q.policy /\ n.users = q.users
         /\ n.action = q.action /\ n.scope = q.scope /\ n.edit = q.edit /\ n.saw = q.saw
         /\ n.super = q.super /\ n.rows = q.rows /\ n.checks = q.checks
         /\ q.checks = <<>> => n.pc \in {"holds", "apply"} /\ n.phase = "done"
         /\ q.checks # <<>> => n.pc = "get" /\ n.phase \in {"super", "guard"} /\ n.todo = Head(q.checks).actions
  <1>1. CASE q.checks = <<>>
    <2> DEFINE pc == IF q.op \in {"assign", "remove", "revoke_action"} THEN "holds" ELSE "apply"
               n == [q EXCEPT !.phase = "done", !.ps = <<>>, !.ctx = {}, !.pc = pc]
    <2>1. NextCheck(q) = n
      BY <1>1 DEF NextCheck, Ready
    <2>2. pc \in Pc /\ pc \in {"holds", "apply"} /\ {} \in Scope
      BY DEF Pc, Scope
    <2> HIDE DEF pc
    <2>3. n \in Request
      <3>1. "done" \in {"require", "super", "guard", "done"} /\ <<>> \in {<<>>} \cup List
        OBVIOUS
      <3> QED
        BY <2>2, <3>1 DEF Request
    <2>4. n.pc = pc /\ n.phase = "done"
          /\ n.op = q.op /\ n.caller = q.caller /\ n.policy = q.policy /\ n.users = q.users
          /\ n.action = q.action /\ n.scope = q.scope /\ n.edit = q.edit /\ n.saw = q.saw
          /\ n.super = q.super /\ n.rows = q.rows /\ n.checks = q.checks
      BY DEF Request
    <2> HIDE DEF n
    <2> QED
      BY <1>1, <2>1, <2>2, <2>3, <2>4
  <1>2. CASE q.checks # <<>>
    <2> DEFINE todo == Head(q.checks).actions
               phase == IF todo \subseteq BuiltIn THEN "guard" ELSE "super"
               n == [q EXCEPT !.pc = "get", !.todo = todo, !.ps = <<>>, !.phase = phase]
    <2>1. NextCheck(q) = n
      BY <1>2 DEF NextCheck
    <2>2. Head(q.checks) \in Proposal
      BY <1>2 DEF Request
    <2>3. todo \in SUBSET Action /\ phase \in {"super", "guard"}
      BY <2>2 DEF Proposal, Definition
    <2> HIDE DEF todo, phase
    <2>4. n \in Request
      <3>1. "get" \in Pc /\ phase \in {"require", "super", "guard", "done"} /\ <<>> \in {<<>>} \cup List
        BY <2>3 DEF Pc
      <3> QED
        BY <2>3, <3>1 DEF Request
    <2>5. n.todo = todo /\ n.phase = phase /\ n.pc = "get"
      BY DEF Request
    <2>6. n.op = q.op /\ n.caller = q.caller /\ n.policy = q.policy /\ n.users = q.users
          /\ n.action = q.action /\ n.scope = q.scope /\ n.edit = q.edit /\ n.saw = q.saw
          /\ n.super = q.super /\ n.rows = q.rows /\ n.checks = q.checks
      BY DEF Request
    <2> QED
      BY <1>2, <2>1, <2>3, <2>4, <2>5, <2>6 DEF todo
  <1> QED
    BY <1>1, <1>2

LEMMA NextCheckGood ==
  ASSUME NEW q \in Request, Equipped(q)
  PROVE  Good(NextCheck(q))
  <1> DEFINE n == NextCheck(q)
  <1> HIDE DEF n
  <1>1. /\ n \in Request
        /\ n.op = q.op /\ n.caller = q.caller /\ n.policy = q.policy /\ n.action = q.action
        /\ n.edit = q.edit /\ n.saw = q.saw /\ n.checks = q.checks
        /\ q.checks = <<>> => n.pc \in {"holds", "apply"}
        /\ q.checks # <<>> => n.pc = "get"
    BY NextCheckFacts DEF n
  <1>2. Equipped(n)
    BY <1>1 DEF Equipped
  <1>3. ReqOK(n)
    BY <1>1, <1>2 DEF ReqOK, Checking
  <1> QED
    BY <1>1, <1>3 DEF Good, n

LEMMA WithListGood ==
  ASSUME NEW q, Good(q), q.pc \in {"get", "set"}, NEW ps \in List
  PROVE  Good(WithList(q, ps))
  <1> USE DEF Good
  <1>0. Equipped(q)
    BY DEF ReqOK, Finished
  <1>1. CASE q.phase # "super"
    <2> DEFINE n == [q EXCEPT !.pc = "getGrants", !.ps = ps]
    <2>1. WithList(q, ps) = n
      BY <1>1 DEF WithList
    <2>2. n \in Request /\ n.pc = "getGrants" /\ n.ps = ps /\ n.phase = q.phase /\ n.checks = q.checks
      BY DEF Request, Pc
    <2>3. Equipped(n)
      BY <1>0 DEF Request, Equipped
    <2> HIDE DEF n
    <2>4. ReqOK(n)
      BY <2>2, <2>3 DEF ReqOK, Checking
    <2> QED
      BY <2>1, <2>2, <2>4
  <1>2. CASE q.phase = "super" /\ Superuser \in DOMAIN ps
    <2> DEFINE n == [q EXCEPT !.checks = Tail(q.checks), !.super = TRUE]
    <2>1. WithList(q, ps) = NextCheck(n)
      BY <1>2 DEF WithList
    <2>2. q.checks # <<>> /\ q.checks \in Seq(Proposal)
      BY <1>2 DEF ReqOK, Checking, Request
    <2>3. Tail(q.checks) \in Seq(Proposal)
      BY <2>2
    <2>4. n \in Request
      BY <2>3 DEF Request
    <2>5. Equipped(n)
      BY <1>0 DEF Request, Equipped
    <2> QED
      BY <2>1, <2>4, <2>5, NextCheckGood
  <1>3. CASE q.phase = "super" /\ Superuser \notin DOMAIN ps
    <2> DEFINE n == [q EXCEPT !.pc = "get", !.phase = "guard"]
    <2>1. WithList(q, ps) = n
      BY <1>3 DEF WithList
    <2>2. n \in Request /\ n.pc = "get" /\ n.checks = q.checks
      BY DEF Request, Pc
    <2>3. Equipped(n)
      BY <1>0 DEF Request, Equipped
    <2> HIDE DEF n
    <2>4. ReqOK(n)
      BY <1>3, <2>2, <2>3 DEF ReqOK, Checking
    <2> QED
      BY <2>1, <2>2, <2>4
  <1> QED
    BY <1>1, <1>2, <1>3

Rest(q, a) == [q EXCEPT !.todo = q.todo \ {a}, !.ps = <<>>, !.gs = {}]

LEMMA RestFacts ==
  ASSUME NEW q \in Request, NEW a
  PROVE  LET n == Rest(q, a) IN
         /\ n \in Request
         /\ n.pc = q.pc /\ n.op = q.op /\ n.caller = q.caller /\ n.ctx = q.ctx /\ n.policy = q.policy
         /\ n.users = q.users /\ n.action = q.action /\ n.scope = q.scope /\ n.edit = q.edit
         /\ n.saw = q.saw /\ n.phase = q.phase /\ n.super = q.super /\ n.rows = q.rows
         /\ n.checks = q.checks /\ n.todo = q.todo \ {a}
  <1> DEFINE n == [q EXCEPT !.todo = q.todo \ {a}, !.ps = <<>>, !.gs = {}]
  <1>1. n \in Request
    <2>1. q.todo \ {a} \in SUBSET Action /\ <<>> \in {<<>>} \cup List /\ {} \in SUBSET Grant
      BY DEF Request
    <2> QED
      BY <2>1 DEF Request
  <1>2. /\ n.pc = q.pc /\ n.op = q.op /\ n.caller = q.caller /\ n.ctx = q.ctx /\ n.policy = q.policy
        /\ n.users = q.users /\ n.action = q.action /\ n.scope = q.scope /\ n.edit = q.edit
        /\ n.saw = q.saw /\ n.phase = q.phase /\ n.super = q.super /\ n.rows = q.rows
        /\ n.checks = q.checks /\ n.todo = q.todo \ {a}
    BY DEF Request
  <1> QED
    BY <1>1, <1>2 DEF Rest

LEMMA NextQuestion ==
  ASSUME NEW q \in Request, NEW c \in Seq(Proposal)
  PROVE  LET n == [q EXCEPT !.checks = c] IN
         /\ n \in Request
         /\ n.pc = q.pc /\ n.op = q.op /\ n.caller = q.caller /\ n.ctx = q.ctx /\ n.policy = q.policy
         /\ n.users = q.users /\ n.action = q.action /\ n.scope = q.scope /\ n.edit = q.edit
         /\ n.saw = q.saw /\ n.phase = q.phase /\ n.super = q.super /\ n.rows = q.rows
         /\ n.checks = c /\ n.todo = q.todo
  BY DEF Request

\* The outcomes of a decision.
LEMMA WithGrantsCases ==
  ASSUME NEW q, NEW gs
  PROVE  \/ WithGrants(q, gs) = NoReq
         \/ \E a, pc : /\ q.phase = "require" /\ pc \in {"allowed", "denied", "load"}
                       /\ WithGrants(q, gs) = [Rest(q, a) EXCEPT !.pc = pc]
         \/ \E a : /\ q.phase = "guard"
                   /\ HasScopeForGrant(Matched(Rights(q.ps, gs), a, q.ctx), Head(q.checks).scope)
                   /\ \/ /\ q.todo = {a}
                         /\ WithGrants(q, gs) = NextCheck([Rest(q, a) EXCEPT !.checks = Tail(q.checks)])
                      \/ /\ q.todo # {a}
                         /\ WithGrants(q, gs) = [Rest(q, a) EXCEPT !.pc = "get"]
  BY DEF WithGrants, Rest

LEMMA WithGrantsGood ==
  ASSUME NEW q, Good(q), q.pc \in {"getGrants", "setGrants"}, NEW gs
  PROVE  Good(WithGrants(q, gs))
  <1> USE DEF Good
  <1>0. Equipped(q)
    BY DEF ReqOK, Finished
  <1>1. CASE WithGrants(q, gs) = NoReq
    BY <1>1, NoReqGood
  <1>2. ASSUME NEW a, NEW pc \in {"allowed", "denied", "load", "get"}, pc = "get" => q.checks # <<>>
        PROVE  Good([Rest(q, a) EXCEPT !.pc = pc])
    <2> DEFINE m == Rest(q, a)
               n == [m EXCEPT !.pc = pc]
    <2>1. m \in Request
      BY RestFacts
    <2>2. pc \in Pc
      BY DEF Pc
    <2> HIDE DEF m
    <2>3. /\ n \in Request /\ n.pc = pc /\ n.op = m.op /\ n.caller = m.caller /\ n.policy = m.policy
          /\ n.action = m.action /\ n.edit = m.edit /\ n.saw = m.saw /\ n.checks = m.checks
      BY <2>1, <2>2 DEF Request
    <2> HIDE DEF n
    <2>4. Equipped(n) /\ n.checks = q.checks
      BY <1>0, <2>3, RestFacts DEF m, Equipped
    <2>5. ReqOK(n)
      BY <1>2, <2>3, <2>4 DEF ReqOK, Checking
    <2> QED
      BY <2>3, <2>5 DEF n, m
  <1>3. ASSUME NEW a, q.phase = "guard"
        PROVE  Good(NextCheck([Rest(q, a) EXCEPT !.checks = Tail(q.checks)]))
    <2> DEFINE m == Rest(q, a)
               n == [m EXCEPT !.checks = Tail(q.checks)]
    <2>1. m \in Request
      BY RestFacts
    <2>2. Tail(q.checks) \in Seq(Proposal)
      BY <1>3 DEF ReqOK, Checking, Request
    <2> HIDE DEF m
    <2>3. /\ n \in Request
          /\ n.op = m.op /\ n.caller = m.caller /\ n.policy = m.policy
          /\ n.action = m.action /\ n.edit = m.edit /\ n.saw = m.saw
      BY <2>1, <2>2, NextQuestion, Zenon
    <2> HIDE DEF n
    <2>4. Equipped(n)
      BY <1>0, <2>3, RestFacts DEF m, Equipped
    <2> QED
      BY <2>3, <2>4, NextCheckGood DEF n, m
  <1>4. q.phase = "guard" => q.checks # <<>>
    BY DEF ReqOK, Checking
  <1> HIDE DEF Good
  <1>5. ASSUME NEW a, NEW pc, q.phase = "require", pc \in {"allowed", "denied", "load"},
               WithGrants(q, gs) = [Rest(q, a) EXCEPT !.pc = pc]
        PROVE  Good(WithGrants(q, gs))
    <2>1. Good([Rest(q, a) EXCEPT !.pc = pc])
      BY <1>2, <1>5
    <2> QED
      BY <1>5, <2>1
  <1>6. ASSUME NEW a, q.phase = "guard",
               WithGrants(q, gs) = [Rest(q, a) EXCEPT !.pc = "get"]
        PROVE  Good(WithGrants(q, gs))
    <2>1. Good([Rest(q, a) EXCEPT !.pc = "get"])
      BY <1>2, <1>4, <1>6
    <2> QED
      BY <1>6, <2>1
  <1>7. ASSUME NEW a, q.phase = "guard",
               WithGrants(q, gs) = NextCheck([Rest(q, a) EXCEPT !.checks = Tail(q.checks)])
        PROVE  Good(WithGrants(q, gs))
    <2>1. Good(NextCheck([Rest(q, a) EXCEPT !.checks = Tail(q.checks)]))
      BY <1>3, <1>7
    <2> QED
      BY <1>7, <2>1
  <1>8. CASE \E a, pc : /\ q.phase = "require" /\ pc \in {"allowed", "denied", "load"}
                        /\ WithGrants(q, gs) = [Rest(q, a) EXCEPT !.pc = pc]
    BY <1>5, <1>8
  <1>9. CASE \E a : /\ q.phase = "guard"
                    /\ HasScopeForGrant(Matched(Rights(q.ps, gs), a, q.ctx), Head(q.checks).scope)
                    /\ \/ /\ q.todo = {a}
                          /\ WithGrants(q, gs) = NextCheck([Rest(q, a) EXCEPT !.checks = Tail(q.checks)])
                       \/ /\ q.todo # {a}
                          /\ WithGrants(q, gs) = [Rest(q, a) EXCEPT !.pc = "get"]
    BY <1>6, <1>7, <1>9
  <1> QED
    BY <1>1, <1>8, <1>9, WithGrantsCases

-----------------------------------------------------------------------------
(* Every step keeps the types. *)

LEMMA EditTypes ==
  /\ Definition \subseteq Edit
  /\ \A d \in Definition, e \in Edit : Edited(d, e) \in Definition
  /\ \A e \in Edit : e.actions # None => New(e) \in Definition
  <1>1. Definition \subseteq Edit
    BY DEF Definition, Edit
  <1>2. ASSUME NEW d \in [actions : SUBSET Action, scope : Scope, active : BOOLEAN], NEW e \in Edit,
               e.actions # None \/ d \in Definition
        PROVE  Edited(d, e) \in Definition
    <2> DEFINE as == IF e.actions = None THEN d.actions ELSE e.actions
               sc == IF e.scope = None THEN d.scope ELSE e.scope
               ac == IF e.active = None THEN d.active ELSE e.active
    <2>1. as \in (SUBSET Action) \ {{}}
      BY <1>2 DEF Definition, Edit
    <2>2. sc \in Scope
      BY DEF Edit
    <2>3. ac \in BOOLEAN
      BY DEF Edit
    <2>4. Edited(d, e) = [actions |-> as, scope |-> sc, active |-> ac]
      BY DEF Edited
    <2> HIDE DEF as, sc, ac
    <2>5. [actions |-> as, scope |-> sc, active |-> ac] \in [actions : (SUBSET Action) \ {{}}, scope : Scope, active : BOOLEAN]
      BY <2>1, <2>2, <2>3, Zenon
    <2> QED
      BY <2>4, <2>5 DEF Definition
  <1>3. ASSUME NEW d \in Definition PROVE d \in [actions : SUBSET Action, scope : Scope, active : BOOLEAN]
    BY DEF Definition
  <1>4. ASSUME NEW e \in Edit, e.actions # None PROVE New(e) \in Definition
    <2> DEFINE f == [e EXCEPT !.active = None]
               d == [actions |-> {}, scope |-> {}, active |-> TRUE]
    <2>1. f \in Edit /\ f.actions # None
      BY <1>4 DEF Edit
    <2>2. d \in [actions : SUBSET Action, scope : Scope, active : BOOLEAN]
      BY DEF Scope
    <2>3. New(e) = Edited(d, f)
      BY DEF New
    <2> HIDE DEF f, d
    <2> QED
      BY <1>2, <2>1, <2>2, <2>3
  <1> QED
    BY <1>1, <1>2, <1>3, <1>4

LEMMA MovesOn ==
  ASSUME TypeInv, NEW r \in Req, NEW q, Good(q), Becomes(r, q)
  PROVE  req' \in [Req -> Request] /\ \A s \in Req : ReqOK(req'[s])
  BY DEF TypeInv, TypeOK, Good, Becomes

\* A step that changes no table and no cache.
LEMMA MovesOnAlone ==
  ASSUME TypeInv, NEW r \in Req, NEW q, Good(q), Becomes(r, q), UNCHANGED <<tables, cache, left, ghosts>>
  PROVE  TypeInv'
  BY MovesOn DEF TypeInv, TypeOK, tables, cache, ghosts

LEMMA SetAlone ==
  ASSUME NEW q \in Request, NEW b \in BOOLEAN
  PROVE  LET n == [q EXCEPT !.alone = b] IN
         /\ n \in Request
         /\ n.pc = q.pc /\ n.op = q.op /\ n.caller = q.caller /\ n.ctx = q.ctx /\ n.policy = q.policy
         /\ n.users = q.users /\ n.action = q.action /\ n.scope = q.scope /\ n.edit = q.edit
         /\ n.saw = q.saw /\ n.phase = q.phase /\ n.super = q.super /\ n.rows = q.rows
         /\ n.checks = q.checks /\ n.todo = q.todo /\ n.ps = q.ps /\ n.gs = q.gs
  BY DEF Request

LEMMA StartsTypes ==
  ASSUME TypeInv, NEW r \in Req, NEW q \in Request, Starts(r, q),
         q.caller \in User, q.op \in {"check", "manage"}, q.phase = "require"
  PROVE  TypeInv'
  <1> DEFINE alone == q.op = "check" /\ \A t \in Req \ {r} : req[t].pc = "idle"
             n == [q EXCEPT !.pc = "get", !.alone = alone]
  <1>1. alone \in BOOLEAN
    OBVIOUS
  <1>2. req' = [s \in Req |-> IF s = r THEN n ELSE [req[s] EXCEPT !.alone = FALSE]]
    BY DEF Starts
  <1> HIDE DEF alone
  <1>3. n \in Request /\ n.pc = "get" /\ n.phase = "require" /\ n.caller \in User /\ n.op \in {"check", "manage"}
    <2> DEFINE m == [q EXCEPT !.pc = "get"]
    <2>1. m \in Request /\ m.pc = "get" /\ m.phase = "require" /\ m.caller \in User /\ m.op \in {"check", "manage"}
      BY DEF Request, Pc
    <2>2. n = [m EXCEPT !.alone = alone]
      BY DEF Request
    <2> HIDE DEF m
    <2> QED
      BY <1>1, <2>1, <2>2, SetAlone
  <1> HIDE DEF n
  <1>4. ReqOK(n)
    BY <1>3 DEF ReqOK, Equipped, Checking, Assignments
  <1>5. ASSUME NEW s \in Req PROVE [req[s] EXCEPT !.alone = FALSE] \in Request /\ ReqOK([req[s] EXCEPT !.alone = FALSE])
    <2> DEFINE p == req[s]
               m == [p EXCEPT !.alone = FALSE]
    <2>1. p \in Request /\ ReqOK(p)
      BY DEF TypeInv, TypeOK
    <2> HIDE DEF p
    <2>2. /\ m \in Request /\ m.pc = p.pc /\ m.op = p.op /\ m.caller = p.caller /\ m.policy = p.policy
          /\ m.action = p.action /\ m.edit = p.edit /\ m.saw = p.saw /\ m.phase = p.phase
          /\ m.checks = p.checks /\ m.ps = p.ps
      BY <2>1, SetAlone
    <2> HIDE DEF m
    <2>3. ReqOK(m)
      BY <2>1, <2>2 DEF ReqOK, Equipped
    <2> QED
      BY <2>2, <2>3 DEF m, p
  <1>6. req' \in [Req -> Request] /\ \A s \in Req : ReqOK(req'[s])
    BY <1>2, <1>3, <1>4, <1>5
  <1>7. UNCHANGED <<tables, cache, left, ghosts>>
    BY DEF Starts
  <1> QED
    BY <1>6, <1>7 DEF TypeInv, TypeOK, tables, cache, ghosts

LEMMA ArrivesTypes == ASSUME TypeInv, NEW r \in Req, Arrives(r) PROVE TypeInv'
  <1>1. ASSUME NEW u \in Caller, NEW c \in Contexts, NEW a \in Action,
               Starts(r, [NoReq EXCEPT !.caller = u, !.ctx = c, !.action = a])
        PROVE  TypeInv'
    <2> DEFINE q == [NoReq EXCEPT !.caller = u, !.ctx = c, !.action = a]
    <2>1. NoReq \in Request /\ u \in User /\ c \in Scope /\ NoReq.op = "check" /\ NoReq.phase = "require"
      BY NoReqGood, ConstantAssumption DEF Good, NoReq
    <2>2. q \in Request /\ q.caller = u /\ q.op = "check" /\ q.phase = "require"
      BY <2>1 DEF Request
    <2> HIDE DEF q
    <2>3. Starts(r, q)
      BY <1>1 DEF q
    <2> QED
      BY <2>1, <2>2, <2>3, StartsTypes
  <1>2. ASSUME NEW u \in Caller, NEW c \in Contexts,
               Starts(r, [NoReq EXCEPT !.op = "manage", !.caller = u, !.ctx = c])
        PROVE  TypeInv'
    <2> DEFINE q == [NoReq EXCEPT !.op = "manage", !.caller = u, !.ctx = c]
    <2>1. NoReq \in Request /\ u \in User /\ c \in Scope /\ NoReq.phase = "require" /\ "manage" \in Operation
      BY NoReqGood, ConstantAssumption DEF Good, NoReq, Operation
    <2>2. q \in Request /\ q.caller = u /\ q.op = "manage" /\ q.phase = "require"
      BY <2>1 DEF Request
    <2> HIDE DEF q
    <2>3. Starts(r, q)
      BY <1>2 DEF q
    <2> QED
      BY <2>1, <2>2, <2>3, StartsTypes
  <1> QED
    BY <1>1, <1>2 DEF Arrives, Check, ManagementRequest

LEMMA RequestTypes ==
  ASSUME TypeInv, NEW r \in Req
  PROVE  /\ Good(req[r])
         /\ req[r].pc \notin Finished => req[r].caller \in User /\ Equipped(req[r])
         /\ req[r].pc \in {"set", "getGrants", "setGrants"} => req[r].ps \in List
  BY DEF TypeInv, TypeOK, Good, ReqOK, Equipped

\* What a query of the policies returns.
Selected(q) == [p \in ActivePolicies(q.caller) |-> IF p = q.policy /\ q.saw # None THEN q.saw ELSE policy[p]]

LEMMA SelectedTypes ==
  ASSUME TypeInv, NEW q \in Request
  PROVE  /\ Selected(q) \in List /\ DOMAIN Selected(q) = ActivePolicies(q.caller)
         /\ \A p \in ActivePolicies(q.caller) : policy[p] \in Definition
         /\ q.saw # None => q.saw \in Definition
  <1>1. ActivePolicies(q.caller) \subseteq Policy
    BY DEF ActivePolicies
  <1>2. \A p \in ActivePolicies(q.caller) : policy[p] \in Definition
    BY DEF ActivePolicies, TypeInv, TypeOK
  <1>3. q.saw # None => q.saw \in Definition
    BY DEF Request
  <1>4. Selected(q) \in [ActivePolicies(q.caller) -> Definition]
    BY <1>2, <1>3 DEF Selected
  <1> QED
    BY <1>1, <1>2, <1>3, <1>4 DEF List

LEMMA SelectPoliciesFacts ==
  ASSUME TypeInv, NEW r \in Req, SelectPolicies(r)
  PROVE  /\ req[r].pc = "get"
         /\ Becomes(r, [req[r] EXCEPT !.pc = "set", !.ps = Selected(req[r])])
         /\ was \subseteq was' /\ credited \subseteq credited'
         /\ credited' \subseteq User \X Grant
         /\ req[r].saw # None /\ req[r].policy \in ActivePolicies(req[r].caller) =>
               \A a \in req[r].saw.actions : <<req[r].caller, [action |-> a, scope |-> req[r].saw.scope]>> \in was' \cup credited'
         /\ UNCHANGED <<tables, cache, left, was, always>>
  <1> DEFINE q == req[r]
             loaded == IF q.saw # None /\ q.policy \in DOMAIN Selected(q)
                       THEN {[action |-> a, scope |-> q.saw.scope] : a \in q.saw.actions} ELSE {}
  <1>1. /\ q.pc = "get"
        /\ Becomes(r, [q EXCEPT !.pc = "set", !.ps = Selected(q)])
        /\ credited' = credited \cup (({q.caller} \X loaded) \ was)
        /\ UNCHANGED <<tables, cache, left, was, always>>
    BY DEF SelectPolicies, Selected
  <1>2. q \in Request /\ q.caller \in User
    BY <1>1, RequestTypes DEF Good, Finished
  <1>3. loaded \subseteq Grant
    BY <1>2, SelectedTypes DEF Grant, Definition
  <1>4. credited \subseteq User \X Grant
    BY DEF TypeInv, TypeOK
  <1>5. credited' \subseteq User \X Grant /\ credited \subseteq credited'
    BY <1>1, <1>2, <1>3, <1>4
  <1>6. ASSUME q.saw # None, q.policy \in ActivePolicies(q.caller), NEW a \in q.saw.actions
        PROVE  <<q.caller, [action |-> a, scope |-> q.saw.scope]>> \in was' \cup credited'
    <2>1. [action |-> a, scope |-> q.saw.scope] \in loaded
      BY <1>2, <1>6, SelectedTypes
    <2> HIDE DEF loaded
    <2> QED
      BY <1>1, <2>1
  <1> QED
    BY <1>1, <1>5, <1>6

LEMMA AuthorisesTypes == ASSUME TypeInv, NEW r \in Req, Authorises(r) PROVE TypeInv'
  <1> DEFINE q == req[r]
  <1>0. Good(q)
    BY RequestTypes
  <1>1. CASE CachedPolicies(r)
    <2>1. q.pc = "get" /\ listed[q.caller] \in List
      BY <1>1, RequestTypes DEF CachedPolicies, Finished, TypeInv, TypeOK
    <2>2. Good(WithList(q, listed[q.caller]))
      BY <1>0, <2>1, WithListGood
    <2> QED
      BY <1>1, <2>2, MovesOnAlone DEF CachedPolicies
  <1>2. CASE SelectPolicies(r)
    <2> DEFINE n == [q EXCEPT !.pc = "set", !.ps = Selected(q)]
    <2>1. q.pc = "get" /\ q \in Request /\ Equipped(q) /\ ReqOK(q)
      BY <1>2, RequestTypes DEF SelectPolicies, Finished, Good
    <2>2. Selected(q) \in List
      BY <2>1, SelectedTypes
    <2>3. n \in Request /\ n.pc = "set" /\ n.ps = Selected(q) /\ n.checks = q.checks /\ n.phase = q.phase
      BY <2>1, <2>2 DEF Request, Pc
    <2>4. Equipped(n)
      BY <2>1 DEF Request, Equipped
    <2>5. ReqOK(n)
      BY <2>1, <2>2, <2>3, <2>4 DEF ReqOK, Checking
    <2>6. Becomes(r, n) /\ Good(n) /\ UNCHANGED <<tables, cache, left, was, always>> /\ credited' \subseteq User \X Grant
      BY <1>2, <2>3, <2>5, SelectPoliciesFacts DEF Good
    <2> HIDE DEF n
    <2> QED
      BY <2>6, MovesOn DEF TypeInv, TypeOK, tables, cache
  <1>3. CASE SetPolicies(r)
    <2>1. q.pc = "set" /\ q.ps \in List /\ q.caller \in User
      BY <1>3, RequestTypes DEF SetPolicies, Finished
    <2>2. Good(WithList(q, q.ps))
      BY <1>0, <2>1, WithListGood
    <2>3. listed' \in [User -> {None} \cup List] /\ left' \in [writes : Int, faults : Nat]
      BY <1>3, <2>1 DEF SetPolicies, Fails, TypeInv, TypeOK
    <2>4. Becomes(r, WithList(q, q.ps)) /\ UNCHANGED <<tables, granted, ghosts>>
      BY <1>3 DEF SetPolicies
    <2> QED
      BY <2>2, <2>3, <2>4, MovesOn DEF TypeInv, TypeOK, tables, ghosts
  <1>4. CASE CachedPermissions(r)
    <2>1. Good(WithGrants(q, granted[q.caller]))
      BY <1>0, <1>4, WithGrantsGood DEF CachedPermissions
    <2> QED
      BY <1>4, <2>1, MovesOnAlone DEF CachedPermissions
  <1>5. CASE SelectPermissions(r)
    <2> DEFINE n == [q EXCEPT !.pc = "setGrants", !.gs = direct[q.caller]]
    <2>1. q.pc = "getGrants" /\ q \in Request /\ Equipped(q) /\ ReqOK(q) /\ q.ps \in List
      BY <1>5, RequestTypes DEF SelectPermissions, Finished, Good
    <2>2. direct[q.caller] \in SUBSET Grant
      BY <2>1 DEF Equipped, TypeInv, TypeOK
    <2>3. n \in Request /\ n.pc = "setGrants" /\ n.ps = q.ps /\ n.checks = q.checks /\ n.phase = q.phase
      BY <2>1, <2>2 DEF Request, Pc
    <2>4. Equipped(n)
      BY <2>1 DEF Request, Equipped
    <2>5. ReqOK(n)
      BY <2>1, <2>3, <2>4 DEF ReqOK, Checking
    <2>6. Becomes(r, n) /\ Good(n) /\ UNCHANGED <<tables, cache, left, ghosts>>
      BY <1>5, <2>3, <2>5 DEF SelectPermissions, Good
    <2> HIDE DEF n
    <2> QED
      BY <2>6, MovesOnAlone
  <1>6. CASE SetPermissions(r)
    <2>1. q.pc = "setGrants" /\ q.gs \in SUBSET Grant
      BY <1>0, <1>6 DEF SetPermissions, Good, Request
    <2>2. Good(WithGrants(q, q.gs))
      BY <1>0, <2>1, WithGrantsGood
    <2>3. granted' \in [User -> {None} \cup SUBSET Grant] /\ left' \in [writes : Int, faults : Nat]
      BY <1>6, <2>1 DEF SetPermissions, Fails, TypeInv, TypeOK
    <2>4. Becomes(r, WithGrants(q, q.gs)) /\ UNCHANGED <<tables, listed, ghosts>>
      BY <1>6 DEF SetPermissions
    <2> QED
      BY <2>2, <2>3, <2>4, MovesOn DEF TypeInv, TypeOK, tables, ghosts
  <1>7. CASE Respond(r)
    BY <1>7, NoReqGood, MovesOnAlone DEF Respond, Ends
  <1> QED
    BY <1>1, <1>2, <1>3, <1>4, <1>5, <1>6, <1>7 DEF Authorises

LEMMA HandsOutCases ==
  ASSUME NEW q
  PROVE  /\ q.op \in {"assign", "bulk_assign"} => HandsOut(q) = q.saw
         /\ q.op = "create" => HandsOut(q) = New(q.edit)
         /\ q.op = "rollback" => HandsOut(q) = q.edit
         /\ q.op = "grant" => HandsOut(q) = [actions |-> {q.action}, scope |-> q.scope]
         /\ q.op \notin {"assign", "bulk_assign", "create", "rollback", "grant"} => HandsOut(q).actions = {}
  BY DEF HandsOut

\* The guard is to be asked about all that the request will hand out.
Asked(m) ==
    /\ m \in Request
    /\ Equipped(m)
    /\ \A a \in HandsOut(m).actions : \E i \in DOMAIN m.checks :
          a \in m.checks[i].actions /\ m.checks[i].scope = HandsOut(m).scope

\* What a handler's own reads lead to.
Prepared(r) ==
    /\ \/ Ends(r)
       \/ \E m : Asked(m) /\ Becomes(r, NextCheck(m))
       \/ \E m : /\ m \in Request /\ Equipped(m) /\ m.op = "bulk_remove" /\ m.pc = "lock"
                 /\ Becomes(r, m)
       \/ \E pc \in {"count", "apply"} : /\ req[r].pc \in {"holds", "count"}
                                         /\ Becomes(r, [req[r] EXCEPT !.pc = pc])
    /\ UNCHANGED <<tables, cache, left, ghosts>>

LEMMA AssignmentAsks == ASSUME TypeInv, NEW r \in Req, LoadForAssignment(r) PROVE Prepared(r)
  <1>1. PICK op \in Assignments \cap Op, p \in Policy, us \in (SUBSET User) \ {{}}, a \in Action :
          LET q == [req[r] EXCEPT !.op = op, !.policy = p, !.users = us \ System,
                                  !.action = IF op = "revoke_action" THEN a ELSE None]
              d == policy[p]
          IN  IF d = None \/ us \subseteq System THEN Ends(r)
              ELSE IF op = "bulk_remove" /\ p = Superuser
              THEN Becomes(r, [q EXCEPT !.pc = "lock", !.saw = d])
              ELSE Becomes(r, Loaded(q, <<d>>))
    BY DEF LoadForAssignment
  <1> DEFINE b == IF op = "revoke_action" THEN a ELSE None
             vs == us \ System
             d == policy[p]
             q == [req[r] EXCEPT !.op = op, !.policy = p, !.users = vs, !.action = b]
  <1>2. UNCHANGED <<tables, cache, left, ghosts>>
    BY DEF LoadForAssignment
  <1>3. req[r] \in Request /\ req[r].caller \in User
    BY RequestTypes DEF LoadForAssignment, Asks, Good, Finished
  <1>4. op \in Operation /\ op \in Assignments /\ b \in Action \cup {None} /\ vs \in SUBSET User
    BY DEF Operation
  <1>5. d = None \/ d \in Definition
    BY DEF TypeInv, TypeOK
  <1> HIDE DEF b, vs, d
  <1>6. q \in Request /\ q.op = op /\ q.policy = p /\ q.caller \in User
    BY <1>3, <1>4 DEF Request
  <1>7. CASE Ends(r)
    BY <1>2, <1>7 DEF Prepared
  <1>8. ASSUME d \in Definition, op = "bulk_remove", Becomes(r, [q EXCEPT !.pc = "lock", !.saw = d])
        PROVE  Prepared(r)
    <2> DEFINE m == [q EXCEPT !.pc = "lock", !.saw = d]
    <2> HIDE DEF q
    <2>1. m \in Request /\ m.op = "bulk_remove" /\ m.pc = "lock" /\ m.policy = p /\ m.saw = d /\ m.caller \in User
      BY <1>6, <1>8 DEF Request, Pc
    <2>2. Equipped(m)
      BY <1>8, <2>1 DEF Equipped, Assignments
    <2> QED
      BY <1>2, <1>8, <2>1, <2>2 DEF Prepared
  <1>9. ASSUME d \in Definition, Becomes(r, Loaded(q, <<d>>)) PROVE Prepared(r)
    <2> DEFINE m == [q EXCEPT !.saw = d, !.checks = <<d>>]
    <2>1. Loaded(q, <<d>>) = NextCheck(m)
      BY <1>6 DEF Loaded, d
    <2> HIDE DEF q
    <2>2. <<d>> \in Seq(Proposal)
      BY <1>9 DEF Proposal
    <2>3. m \in Request /\ m.op = op /\ m.policy = p /\ m.saw = d /\ m.caller \in User /\ m.checks = <<d>>
      BY <1>6, <1>9, <2>2 DEF Request
    <2> HIDE DEF m
    <2>4. Equipped(m)
      BY <1>4, <1>9, <2>3 DEF Equipped, Assignments
    <2>5. HandsOut(m) = d \/ HandsOut(m).actions = {}
      BY <1>4, <2>3, HandsOutCases DEF Assignments
    <2>6. DOMAIN m.checks = {1} /\ m.checks[1] = d
      BY <2>3
    <2>7. Asked(m)
      BY <2>3, <2>4, <2>5, <2>6 DEF Asked
    <2> QED
      BY <1>2, <1>9, <2>1, <2>7 DEF Prepared
  <1> QED
    BY <1>1, <1>5, <1>7, <1>8, <1>9 DEF d, q, b, vs

\* A request that is to ask the guard about c: it is equipped for its operation.
LEMMA AsksGuard ==
  ASSUME NEW r \in Req, NEW q \in Request, NEW saw \in {None} \cup Definition, NEW c \in Seq(Proposal),
         LET m == [q EXCEPT !.saw = saw, !.checks = c] IN
            /\ Becomes(r, NextCheck(m))
            /\ Equipped(m)
            /\ HandsOut(m).actions = {} \/ \E i \in DOMAIN c :
                    c[i].actions = HandsOut(m).actions /\ c[i].scope = HandsOut(m).scope,
         UNCHANGED <<tables, cache, left, ghosts>>
  PROVE  Prepared(r)
  <1> DEFINE m == [q EXCEPT !.saw = saw, !.checks = c]
  <1>1. m \in Request /\ m.checks = c
    BY DEF Request
  <1>2. /\ Becomes(r, NextCheck(m)) /\ Equipped(m)
        /\ HandsOut(m).actions = {} \/ \E i \in DOMAIN c :
                    c[i].actions = HandsOut(m).actions /\ c[i].scope = HandsOut(m).scope
    OBVIOUS
  <1> HIDE DEF m
  <1>3. Asked(m)
    BY <1>1, <1>2 DEF Asked
  <1> QED
    BY <1>2, <1>3 DEF Prepared

LEMMA LockAsks == ASSUME TypeInv, NEW r \in Req, LockHolders(r) PROVE Prepared(r)
  <1> DEFINE q == req[r]
             holders == {u \in User : <<u, q.policy>> \in held}
             m == [q EXCEPT !.checks = <<q.saw>>, !.rows = holders]
  <1>1. q.pc = "lock" /\ Becomes(r, NextCheck(m)) /\ UNCHANGED <<tables, cache, left, ghosts>>
    BY DEF LockHolders, Becomes
  <1>2. q \in Request /\ Equipped(q) /\ q.op = "bulk_remove"
    BY <1>1, RequestTypes DEF Good, ReqOK, Finished
  <1>3. <<q.saw>> \in Seq(Proposal) /\ holders \in SUBSET User
    BY <1>2 DEF Equipped, Assignments, Proposal
  <1>4. /\ m \in Request /\ m.op = q.op /\ m.caller = q.caller /\ m.policy = q.policy
        /\ m.action = q.action /\ m.edit = q.edit /\ m.saw = q.saw
    BY <1>2, <1>3 DEF Request
  <1> HIDE DEF m
  <1>5. Asked(m)
    BY <1>2, <1>4, HandsOutCases DEF Asked, Equipped
  <1> QED
    BY <1>1, <1>5 DEF Prepared

LEMMA UpdateAsks == ASSUME TypeInv, NEW r \in Req, LoadForUpdate(r) PROVE Prepared(r)
  <1>1. PICK p \in Policy, e \in Edits :
          LET d == policy[p]  grants == e.actions # None \/ e.scope # None IN
          IF d = None \/ (p = Superuser /\ e.active = FALSE) THEN Ends(r)
          ELSE Becomes(r, Loaded([req[r] EXCEPT !.op = "update", !.policy = p, !.edit = e],
                                 (IF grants \/ e.active = FALSE THEN <<d>> ELSE <<>>)
                                 \o (IF grants THEN <<Edited(d, e)>> ELSE <<>>)))
    BY DEF LoadForUpdate
  <1> DEFINE d == policy[p]
             c1 == IF e.actions # None \/ e.scope # None \/ e.active = FALSE THEN <<d>> ELSE <<>>
             c2 == IF e.actions # None \/ e.scope # None THEN <<Edited(d, e)>> ELSE <<>>
             c == c1 \o c2
             q == [req[r] EXCEPT !.op = "update", !.policy = p, !.edit = e]
  <1>2. UNCHANGED <<tables, cache, left, ghosts>>
    BY DEF LoadForUpdate
  <1>3. req[r] \in Request /\ req[r].caller \in User
    BY RequestTypes DEF LoadForUpdate, Asks, Good, Finished
  <1>4. e \in Edit /\ "update" \in Operation /\ (d = None \/ d \in Definition)
    BY ConstantAssumption DEF Operation, TypeInv, TypeOK
  <1>5. q \in Request /\ q.op = "update" /\ q.policy = p /\ q.edit = e /\ q.caller \in User
    BY <1>3, <1>4 DEF Request
  <1>6. CASE Ends(r)
    BY <1>2, <1>6 DEF Prepared
  <1>7. ASSUME d \in Definition, Becomes(r, Loaded(q, c)) PROVE Prepared(r)
    <2>1. c \in Seq(Proposal)
      <3>1. c1 \in Seq(Proposal)
        <4>1. <<d>> \in Seq(Proposal) /\ <<>> \in Seq(Proposal)
          BY <1>7 DEF Proposal
        <4> QED
          BY <4>1
      <3>2. Edited(d, e) \in Proposal
        BY <1>4, <1>7, EditTypes DEF Proposal
      <3>3. c2 \in Seq(Proposal)
        BY <3>2
      <3> HIDE DEF c1, c2
      <3> QED
        BY <3>1, <3>3
    <2> DEFINE m == [q EXCEPT !.saw = d, !.checks = c]
    <2>2. Loaded(q, c) = NextCheck(m)
      BY <1>5 DEF Loaded
    <2> HIDE DEF q, c, d
    <2>3. m.op = "update" /\ m.policy = p /\ m.edit = e /\ m.caller \in User
      BY <1>5 DEF Request
    <2>4. Equipped(m) /\ HandsOut(m).actions = {}
      BY <1>4, <2>3, HandsOutCases DEF Equipped, Assignments
    <2> QED
      BY <1>2, <1>5, <1>7, <2>1, <2>2, <2>4, AsksGuard
  <1> QED
    BY <1>1, <1>4, <1>6, <1>7

LEMMA RollbackAsks == ASSUME TypeInv, NEW r \in Req, LoadForRollback(r) PROVE Prepared(r)
  <1>1. PICK i \in DOMAIN history :
          LET p == history[i].policy  e == DefinitionOf(history[i]) IN
          IF policy[p] = None \/ (p = Superuser /\ ~e.active) THEN Ends(r)
          ELSE Becomes(r, Loaded([req[r] EXCEPT !.op = "rollback", !.policy = p, !.edit = e], <<policy[p], e>>))
    BY DEF LoadForRollback
  <1> DEFINE p == history[i].policy
             e == DefinitionOf(history[i])
             d == policy[p]
             c == <<d, e>>
             q == [req[r] EXCEPT !.op = "rollback", !.policy = p, !.edit = e]
  <1>2. UNCHANGED <<tables, cache, left, ghosts>>
    BY DEF LoadForRollback
  <1>3. req[r] \in Request /\ req[r].caller \in User
    BY RequestTypes DEF LoadForRollback, Asks, Good, Finished
  <1>4. p \in Policy /\ (d = None \/ d \in Definition) /\ e \in Definition /\ e \in Edit /\ "rollback" \in Operation
    <2>1. history[i] \in Record
      BY DEF TypeInv, TypeOK
    <2>2. p \in Policy /\ (d = None \/ d \in Definition)
      BY <2>1 DEF Record, TypeInv, TypeOK
    <2>3. e \in Definition
      BY DEF TypeInv
    <2> QED
      BY <2>2, <2>3, EditTypes DEF Operation
  <1> HIDE DEF e, p, d
  <1>5. q \in Request /\ q.op = "rollback" /\ q.policy = p /\ q.edit = e /\ q.caller \in User
    BY <1>3, <1>4 DEF Request
  <1>6. CASE Ends(r)
    BY <1>2, <1>6 DEF Prepared
  <1>7. ASSUME d \in Definition, Becomes(r, Loaded(q, c)) PROVE Prepared(r)
    <2>1. c \in Seq(Proposal) /\ c[2] = e /\ 2 \in DOMAIN c
      BY <1>4, <1>7 DEF Proposal
    <2> DEFINE m == [q EXCEPT !.saw = d, !.checks = c]
    <2>2. Loaded(q, c) = NextCheck(m)
      BY <1>5 DEF Loaded, d
    <2> HIDE DEF q, c
    <2>3. m.op = "rollback" /\ m.policy = p /\ m.edit = e /\ m.caller \in User
      BY <1>5 DEF Request
    <2>4. Equipped(m) /\ HandsOut(m) = e
      BY <1>4, <2>3, HandsOutCases DEF Equipped, Assignments
    <2> QED
      BY <1>2, <1>5, <1>7, <2>1, <2>2, <2>4, AsksGuard
  <1> QED
    BY <1>1, <1>4, <1>6, <1>7 DEF e, p, d

LEMMA DeleteAsks == ASSUME TypeInv, NEW r \in Req, LoadForDelete(r) PROVE Prepared(r)
  <1>1. PICK p \in Policy :
          IF policy[p] = None \/ p = Superuser \/ policy[p].active THEN Ends(r)
          ELSE Becomes(r, Loaded([req[r] EXCEPT !.op = "delete", !.policy = p], <<policy[p]>>))
    BY DEF LoadForDelete
  <1> DEFINE d == policy[p]
             c == <<d>>
             q == [req[r] EXCEPT !.op = "delete", !.policy = p]
  <1>2. UNCHANGED <<tables, cache, left, ghosts>>
    BY DEF LoadForDelete
  <1>3. req[r] \in Request /\ req[r].caller \in User
    BY RequestTypes DEF LoadForDelete, Asks, Good, Finished
  <1>4. "delete" \in Operation /\ (d = None \/ d \in Definition)
    BY DEF Operation, TypeInv, TypeOK
  <1>5. q \in Request /\ q.op = "delete" /\ q.policy = p /\ q.caller \in User
    BY <1>3, <1>4 DEF Request
  <1>6. CASE Ends(r)
    BY <1>2, <1>6 DEF Prepared
  <1>7. ASSUME d \in Definition, Becomes(r, Loaded(q, c)) PROVE Prepared(r)
    <2>1. c \in Seq(Proposal)
      BY <1>7 DEF Proposal
    <2> DEFINE m == [q EXCEPT !.saw = d, !.checks = c]
    <2>2. Loaded(q, c) = NextCheck(m)
      BY <1>5 DEF Loaded
    <2> HIDE DEF q, c, d
    <2>3. m.op = "delete" /\ m.policy = p /\ m.caller \in User /\ m.saw = d
      BY <1>5 DEF Request
    <2>4. Equipped(m) /\ HandsOut(m).actions = {}
      BY <1>7, <2>3, HandsOutCases DEF Equipped, Assignments
    <2> QED
      BY <1>2, <1>5, <1>7, <2>1, <2>2, <2>4, AsksGuard
  <1> QED
    BY <1>1, <1>4, <1>6, <1>7

LEMMA CreateAsks == ASSUME TypeInv, NEW r \in Req, LoadForCreate(r) PROVE Prepared(r)
  <1>1. PICK p \in Policy, e \in Edits :
          /\ e.actions # None
          /\ \/ Ends(r)
             \/ Becomes(r, NextCheck([req[r] EXCEPT !.op = "create", !.policy = p, !.edit = e, !.checks = <<New(e)>>]))
    BY DEF LoadForCreate
  <1> DEFINE c == <<New(e)>>
             q == req[r]
             m == [q EXCEPT !.op = "create", !.policy = p, !.edit = e, !.checks = c]
  <1>2. UNCHANGED <<tables, cache, left, ghosts>>
    BY DEF LoadForCreate
  <1>3. q \in Request /\ q.caller \in User
    BY RequestTypes DEF LoadForCreate, Asks, Good, Finished
  <1>4. e \in Edit /\ "create" \in Operation /\ New(e) \in Definition
    BY <1>1, ConstantAssumption, EditTypes DEF Operation
  <1>5. c \in Seq(Proposal) /\ DOMAIN c = {1} /\ c[1] = New(e)
    BY <1>4 DEF Proposal
  <1> HIDE DEF c, q
  <1>6. m \in Request /\ m.op = "create" /\ m.policy = p /\ m.edit = e /\ m.caller \in User /\ m.checks = c
    BY <1>3, <1>4, <1>5 DEF Request
  <1>7. CASE Ends(r)
    BY <1>2, <1>7 DEF Prepared
  <1>8. CASE Becomes(r, NextCheck(m))
    <2> HIDE DEF m
    <2>1. Equipped(m) /\ HandsOut(m) = New(e)
      BY <1>1, <1>4, <1>6, HandsOutCases DEF Equipped, Assignments
    <2>2. Asked(m)
      BY <1>5, <1>6, <2>1 DEF Asked
    <2> QED
      BY <1>2, <1>8, <2>2 DEF Prepared
  <1> QED
    BY <1>1, <1>7, <1>8 DEF c, q

LEMMA GrantAsks == ASSUME TypeInv, NEW r \in Req, LoadForGrant(r) PROVE Prepared(r)
  <1>1. PICK op \in {"grant", "ungrant"}, us \in SUBSET User, a \in Action, s \in Scope :
          \/ Ends(r)
          \/ Becomes(r, NextCheck([req[r] EXCEPT !.op = op, !.users = us \ System, !.action = a, !.scope = s,
                                                 !.checks = <<[actions |-> {a}, scope |-> s]>>]))
    <2>1. PICK op \in {"grant", "ungrant"} \cap Op, us \in (SUBSET User) \ {{}}, a \in Action, s \in Scope :
          IF us \subseteq System THEN Ends(r)
          ELSE Becomes(r, NextCheck([req[r] EXCEPT !.op = op, !.users = us \ System, !.action = a, !.scope = s,
                                                   !.checks = <<[actions |-> {a}, scope |-> s]>>]))
      BY DEF LoadForGrant
    <2> QED
      BY <2>1
  <1> DEFINE g == [actions |-> {a}, scope |-> s]
             c == <<g>>
             vs == us \ System
             q == req[r]
             m == [q EXCEPT !.op = op, !.users = vs, !.action = a, !.scope = s, !.checks = c]
  <1>2. UNCHANGED <<tables, cache, left, ghosts>>
    BY DEF LoadForGrant
  <1>3. q \in Request /\ q.caller \in User
    BY RequestTypes DEF LoadForGrant, Asks, Good, Finished
  <1>4. op \in Operation /\ vs \in SUBSET User
    BY DEF Operation
  <1>5. c \in Seq(Proposal) /\ DOMAIN c = {1} /\ c[1] = g
    <2>1. g \in Proposal
      <3>1. {a} \in (SUBSET Action) \ {{}}
        OBVIOUS
      <3>2. g \in [actions : (SUBSET Action) \ {{}}, scope : Scope]
        BY <3>1, Zenon
      <3> QED
        BY <3>2 DEF Proposal
    <2> HIDE DEF g
    <2> QED
      BY <2>1
  <1> HIDE DEF c, q, vs
  <1>6. m \in Request /\ m.op = op /\ m.action = a /\ m.scope = s /\ m.caller \in User /\ m.checks = c
    BY <1>3, <1>4, <1>5 DEF Request
  <1>7. CASE Ends(r)
    BY <1>2, <1>7 DEF Prepared
  <1>8. CASE Becomes(r, NextCheck(m))
    <2> HIDE DEF m
    <2>1. Equipped(m)
      BY <1>6 DEF Equipped, Assignments
    <2>2. HandsOut(m) = g \/ HandsOut(m).actions = {}
      BY <1>6, HandsOutCases
    <2>3. Asked(m)
      BY <1>5, <1>6, <2>1, <2>2 DEF Asked
    <2> QED
      BY <1>2, <1>8, <2>3 DEF Prepared
  <1> QED
    BY <1>1, <1>7, <1>8 DEF c, q, vs

LEMMA PreparesFacts == ASSUME TypeInv, NEW r \in Req, Prepares(r) PROVE Prepared(r)
  <1>1. ASSUME Holds(r) PROVE Prepared(r)
    BY <1>1 DEF Holds, Prepared
  <1>2. ASSUME CountHolders(r) PROVE Prepared(r)
    BY <1>2 DEF CountHolders, Prepared
  <1> QED
    BY <1>1, <1>2, AssignmentAsks, LockAsks, UpdateAsks, RollbackAsks, DeleteAsks, CreateAsks, GrantAsks DEF Prepares

LEMMA PreparesTypes == ASSUME TypeInv, NEW r \in Req, Prepares(r) PROVE TypeInv'
  <1>1. Prepared(r) /\ UNCHANGED <<tables, cache, left, ghosts>>
    BY PreparesFacts DEF Prepared
  <1>2. CASE Ends(r)
    BY <1>1, <1>2, NoReqGood, MovesOnAlone DEF Ends
  <1>3. ASSUME NEW m, Asked(m), Becomes(r, NextCheck(m)) PROVE TypeInv'
    BY <1>1, <1>3, NextCheckGood, MovesOnAlone DEF Asked
  <1>4. ASSUME NEW m \in Request, Equipped(m), m.op = "bulk_remove", m.pc = "lock", Becomes(r, m) PROVE TypeInv'
    BY <1>1, <1>4, MovesOnAlone DEF Good, ReqOK, Checking
  <1>5. ASSUME NEW pc \in {"count", "apply"}, req[r].pc \in {"holds", "count"}, Becomes(r, [req[r] EXCEPT !.pc = pc])
        PROVE  TypeInv'
    <2> DEFINE q == req[r]
               n == [q EXCEPT !.pc = pc]
    <2>1. q \in Request /\ Equipped(q)
      BY <1>5, RequestTypes DEF Good, Finished
    <2>2. pc \in Pc
      BY DEF Pc
    <2> HIDE DEF q
    <2>3. /\ n \in Request /\ n.pc = pc /\ n.op = q.op /\ n.caller = q.caller /\ n.policy = q.policy
          /\ n.action = q.action /\ n.edit = q.edit /\ n.saw = q.saw
      BY <2>1, <2>2 DEF Request
    <2> HIDE DEF n
    <2>4. Good(n)
      BY <2>1, <2>3 DEF Good, ReqOK, Equipped, Checking
    <2> QED
      BY <1>1, <1>5, <2>4, MovesOnAlone DEF n, q
  <1> QED
    BY <1>1, <1>2, <1>3, <1>4, <1>5 DEF Prepared

\* The tables have their types.
TablesOK ==
    /\ policy \in [Policy -> {None} \cup Definition]
    /\ held \subseteq User \X Policy
    /\ direct \in [User -> SUBSET Grant]
    /\ history \in Seq(Record)
    /\ \A i \in DOMAIN history : DefinitionOf(history[i]) \in Definition

\* Cache keys are deleted, or the deletion fails.
Drops ==
    /\ UNCHANGED <<tables, ghosts>>
    /\ left' \in [writes : Int, faults : Nat]
    /\ listed' \in [User -> {None} \cup List] /\ granted' \in [User -> {None} \cup SUBSET Grant]
    /\ \A u \in User : listed'[u] \in {None, listed[u]} /\ granted'[u] \in {None, granted[u]}

Finishes(r) == \E q : Good(q) /\ q.pc \in Finished /\ Becomes(r, q)

\* A step that carries out what a request asks for.
Applied(r) ==
    /\ Finishes(r)
    /\ \/ UNCHANGED <<tables, cache, left, ghosts>>
       \/ Commit /\ TablesOK'
       \/ Drops

LEMMA AppliedTypes == ASSUME TypeInv, NEW r \in Req, Applied(r) PROVE TypeInv'
  <1>1. req' \in [Req -> Request] /\ \A s \in Req : ReqOK(req'[s])
    BY MovesOn DEF Applied, Finishes
  <1>2. CASE UNCHANGED <<tables, cache, left, ghosts>>
    BY <1>1, <1>2 DEF TypeInv, TypeOK, tables, cache, ghosts
  <1>3. CASE Commit /\ TablesOK'
    <2>1. left' \in [writes : Int, faults : Nat]
      BY <1>3 DEF Commit, TypeInv, TypeOK
    <2>2. was' \subseteq User \X Grant
      BY <1>3 DEF Commit, InUse, TypeInv, TypeOK
    <2>3. credited' \subseteq User \X Grant /\ UNCHANGED cache
      BY <1>3 DEF Commit, TypeInv, TypeOK
    <2>4. always' \subseteq User \X Action \X Contexts
      BY <1>3 DEF Commit, TypeInv, TypeOK
    <2> QED
      BY <1>1, <1>3, <2>1, <2>2, <2>3, <2>4 DEF TypeInv, TypeOK, TablesOK, cache
  <1>4. CASE Drops
    BY <1>1, <1>4 DEF Drops, TypeInv, TypeOK, tables, ghosts
  <1> QED
    BY <1>2, <1>3, <1>4 DEF Applied

LEMMA EndsFinishes == ASSUME NEW r \in Req, Ends(r) PROVE Finishes(r)
  BY NoReqGood DEF Ends, Finishes, NoReq, Finished

\* What is left of a request that has committed.
LEMMA ClosingFinishes ==
  ASSUME NEW r \in Req, NEW op \in Operation, NEW us \in SUBSET User, NEW p \in Policy \cup {None}
  PROVE  /\ Becomes(r, [NoReq EXCEPT !.pc = "refresh", !.op = op, !.policy = p]) => Finishes(r)
         /\ Becomes(r, [NoReq EXCEPT !.pc = "drop", !.op = op, !.users = us]) => Finishes(r)
         /\ Becomes(r, [NoReq EXCEPT !.pc = "dropGrants", !.op = op, !.users = us]) => Finishes(r)
  <1> DEFINE o == NoReq
             n1 == [o EXCEPT !.pc = "refresh", !.op = op, !.policy = p]
             n2 == [o EXCEPT !.pc = "drop", !.op = op, !.users = us]
             n3 == [o EXCEPT !.pc = "dropGrants", !.op = op, !.users = us]
  <1>1. o \in Request
    BY NoReqGood DEF Good
  <1>2. "refresh" \in Pc /\ "drop" \in Pc /\ "dropGrants" \in Pc
    BY DEF Pc
  <1> HIDE DEF o
  <1>3. n1 \in Request /\ n1.pc = "refresh" /\ n2 \in Request /\ n2.pc = "drop" /\ n3 \in Request /\ n3.pc = "dropGrants"
    BY <1>1, <1>2 DEF Request
  <1> HIDE DEF n1, n2, n3
  <1>4. Good(n1) /\ Good(n2) /\ Good(n3)
    BY <1>3 DEF Good, ReqOK, Finished, Checking
  <1>5. n1.pc \in Finished /\ n2.pc \in Finished /\ n3.pc \in Finished
    BY <1>3 DEF Finished
  <1>6. /\ Becomes(r, n1) => Finishes(r)
        /\ Becomes(r, n2) => Finishes(r)
        /\ Becomes(r, n3) => Finishes(r)
    BY <1>4, <1>5 DEF Finishes
  <1> QED
    BY <1>6 DEF n1, n2, n3, o

LEMMA InvalidatesFinishes ==
  ASSUME TypeInv, NEW r \in Req, NEW us \in SUBSET User, Invalidates(r, us)
  PROVE  Finishes(r)
  <1>1. req[r].op \in Operation
    BY DEF TypeInv, TypeOK, Request
  <1> QED
    BY <1>1, EndsFinishes, ClosingFinishes DEF Invalidates

LEMMA RecordedTypes ==
  ASSUME TypeInv, NEW p \in Policy, NEW kind \in {"create", "update", "rollback", "delete"},
         NEW prev \in {None} \cup Definition, NEW next \in {None} \cup Definition,
         prev # None \/ next # None, Recorded(p, kind, prev, next)
  PROVE  history' \in Seq(Record) /\ \A i \in DOMAIN history' : DefinitionOf(history'[i]) \in Definition
  <1> DEFINE h == [policy |-> p, kind |-> kind, prev |-> prev, next |-> next]
  <1>1. h \in Record
    BY DEF Record
  <1>2. DefinitionOf(h) \in Definition
    BY DEF DefinitionOf
  <1> HIDE DEF h
  <1>3. history \in Seq(Record) /\ \A i \in DOMAIN history : DefinitionOf(history[i]) \in Definition
    BY DEF TypeInv, TypeOK
  <1>4. history' = Append(history, h)
    BY DEF Recorded, h
  <1>5. ASSUME NEW i \in DOMAIN history' PROVE DefinitionOf(history'[i]) \in Definition
    <2>1. CASE i \in DOMAIN history
      BY <1>3, <1>4, <2>1
    <2>2. CASE i = Len(history) + 1
      BY <1>2, <1>3, <1>4, <2>2
    <2> QED
      BY <1>3, <1>4, <2>1, <2>2
  <1> QED
    BY <1>1, <1>3, <1>4, <1>5

\* What a request that is to be carried out has been equipped with.
LEMMA AppliesWith ==
  ASSUME TypeInv, NEW r \in Req, req[r].pc = "apply"
  PROVE  /\ req[r].op \in Operation /\ req[r].users \in SUBSET User /\ req[r].scope \in Scope
         /\ req[r].op \in Assignments => req[r].policy \in Policy /\ req[r].saw \in Definition
         /\ req[r].op \in {"create", "update", "rollback"} => req[r].policy \in Policy /\ req[r].edit \in Edit
         /\ req[r].op = "create" => req[r].edit.actions # None
         /\ req[r].op = "delete" => req[r].policy \in Policy /\ req[r].saw \in Definition
         /\ req[r].op \in {"grant", "ungrant"} => req[r].action \in Action
  BY RequestTypes DEF Good, Finished, Equipped, Request

LEMMA AssignApplies == ASSUME TypeInv, NEW r \in Req, Assign(r) PROVE Applied(r)
  <1> DEFINE q == req[r]
  <1>1. q.pc = "apply" /\ q.op \in Assignments
    BY DEF Assign, Assignments
  <1>2. q.users \in SUBSET User /\ q.policy \in Policy
    BY <1>1, AppliesWith
  <1>3. Finishes(r)
    BY <1>2, EndsFinishes, InvalidatesFinishes DEF Assign
  <1>4. CASE policy[q.policy] # None /\ Commit /\ held' = held \cup q.users \X {q.policy} /\ UNCHANGED <<policy, direct, history>>
    <2>1. held' \subseteq User \X Policy
      BY <1>2, <1>4 DEF TypeInv, TypeOK
    <2> QED
      BY <1>3, <1>4, <2>1 DEF Applied, TablesOK, TypeInv, TypeOK
  <1>5. CASE UNCHANGED <<tables, cache, left, ghosts>>
    BY <1>3, <1>5 DEF Applied
  <1> QED
    BY <1>4, <1>5 DEF Assign

LEMMA RemoveApplies == ASSUME TypeInv, NEW r \in Req, Remove(r) PROVE Applied(r)
  <1> DEFINE q == req[r]
             us == {u \in q.users : <<u, q.policy>> \in held}
  <1>1. q.pc = "apply" /\ q.op \in Assignments
    BY DEF Remove, Assignments
  <1>2. us \in SUBSET User
    BY <1>1, AppliesWith
  <1>3. CASE Ends(r) /\ UNCHANGED <<tables, cache, left, ghosts>>
    BY <1>3, EndsFinishes DEF Applied
  <1>4. ASSUME NEW kept, held' = held \ ((us \ kept) \X {q.policy}), Invalidates(r, us \ kept),
               UNCHANGED <<policy, direct, history>>, Commit
        PROVE  Applied(r)
    <2>1. us \ kept \in SUBSET User
      BY <1>2
    <2>2. Finishes(r)
      BY <1>4, <2>1, InvalidatesFinishes
    <2>3. held' \subseteq User \X Policy
      BY <1>4 DEF TypeInv, TypeOK
    <2> QED
      BY <1>4, <2>2, <2>3 DEF Applied, TablesOK, TypeInv, TypeOK
  <1> QED
    BY <1>3, <1>4 DEF Remove

LEMMA RegrantedTypes ==
  ASSUME NEW gs \in SUBSET Grant, NEW actions \in SUBSET Action, NEW scope \in Scope
  PROVE  Regranted(gs, actions, scope) \in SUBSET Grant
  <1>1. \A a \in actions : [action |-> a, scope |-> scope] \in Grant
    BY DEF Grant
  <1> QED
    BY <1>1 DEF Regranted

LEMMA RevokeApplies == ASSUME TypeInv, NEW r \in Req, RevokeSingleAction(r) PROVE Applied(r)
  <1> DEFINE q == req[r]
             to(u) == Regranted(direct[u], q.saw.actions \ {q.action}, q.saw.scope)
  <1>1. q.pc = "apply" /\ q.op \in Assignments
    BY DEF RevokeSingleAction, Assignments
  <1>2. q.users \in SUBSET User /\ q.saw \in Definition
    BY <1>1, AppliesWith
  <1>3. CASE Ends(r) /\ UNCHANGED <<tables, cache, left, ghosts>>
    BY <1>3, EndsFinishes DEF Applied
  <1>4. ASSUME direct' = [u \in User |-> IF u \in q.users THEN to(u) ELSE direct[u]],
               held' = held \ (q.users \X {q.policy}), UNCHANGED <<policy, history>>, Invalidates(r, q.users), Commit
        PROVE  Applied(r)
    <2>1. q.saw.actions \ {q.action} \in SUBSET Action /\ q.saw.scope \in Scope
      BY <1>2 DEF Definition
    <2>2. ASSUME NEW u \in User PROVE to(u) \in SUBSET Grant
      BY <2>1, RegrantedTypes DEF TypeInv, TypeOK
    <2> HIDE DEF to
    <2>3. direct' \in [User -> SUBSET Grant]
      BY <1>4, <2>2 DEF TypeInv, TypeOK
    <2>4. Finishes(r)
      BY <1>2, <1>4, InvalidatesFinishes
    <2>5. held' \subseteq User \X Policy
      BY <1>4 DEF TypeInv, TypeOK
    <2> QED
      BY <1>4, <2>3, <2>4, <2>5 DEF Applied, TablesOK, TypeInv, TypeOK
  <1> QED
    BY <1>3, <1>4 DEF RevokeSingleAction

LEMMA UpdateApplies == ASSUME TypeInv, NEW r \in Req, Update(r) PROVE Applied(r)
  <1> DEFINE q == req[r]
             d == policy[q.policy]
             e == Edited(d, q.edit)
  <1>1. q.pc = "apply" /\ q.op \in {"update", "rollback"}
    BY DEF Update
  <1>2. q.op \in Operation /\ q.policy \in Policy /\ q.edit \in Edit
    BY <1>1, AppliesWith
  <1>3. CASE Ends(r) /\ UNCHANGED <<tables, cache, left, ghosts>>
    BY <1>3, EndsFinishes DEF Applied
  <1>4. ASSUME d # None, policy' = [policy EXCEPT ![q.policy] = e], Recorded(q.policy, q.op, d, e),
               Becomes(r, [NoReq EXCEPT !.pc = "refresh", !.op = q.op, !.policy = q.policy]),
               UNCHANGED <<held, direct>>, Commit
        PROVE  Applied(r)
    <2>1. d \in Definition
      BY <1>2, <1>4 DEF TypeInv, TypeOK
    <2>2. e \in Definition
      BY <1>2, <2>1, EditTypes
    <2>3. Finishes(r)
      BY <1>2, <1>4, ClosingFinishes
    <2> HIDE DEF e, d
    <2>4. history' \in Seq(Record) /\ \A i \in DOMAIN history' : DefinitionOf(history'[i]) \in Definition
      BY <1>1, <1>2, <1>4, <2>1, <2>2, RecordedTypes
    <2>5. policy' \in [Policy -> {None} \cup Definition]
      BY <1>4, <2>2 DEF TypeInv, TypeOK
    <2> QED
      BY <1>4, <2>3, <2>4, <2>5 DEF Applied, TablesOK, TypeInv, TypeOK
  <1> QED
    BY <1>3, <1>4 DEF Update

LEMMA DeleteApplies == ASSUME TypeInv, NEW r \in Req, Delete(r) PROVE Applied(r)
  <1> DEFINE q == req[r]
  <1>1. q.pc = "apply" /\ q.op = "delete" /\ Commit /\ UNCHANGED direct
    BY DEF Delete
  <1>2. q.policy \in Policy /\ q.saw \in Definition
    BY <1>1, AppliesWith
  <1>3. policy' \in [Policy -> {None} \cup Definition] /\ held' \subseteq User \X Policy
    BY DEF Delete, TypeInv, TypeOK
  <1>4. q.saw # None /\ Recorded(q.policy, "delete", q.saw, None)
    BY <1>1, <1>2, ConstantAssumption DEF Delete
  <1>5. history' \in Seq(Record) /\ \A i \in DOMAIN history' : DefinitionOf(history'[i]) \in Definition
    BY <1>2, <1>4, RecordedTypes
  <1>6. Finishes(r)
    BY InvalidatesFinishes DEF Delete
  <1> QED
    BY <1>1, <1>3, <1>5, <1>6 DEF Applied, TablesOK, TypeInv, TypeOK

LEMMA CreateApplies == ASSUME TypeInv, NEW r \in Req, Create(r) PROVE Applied(r)
  <1> DEFINE q == req[r]
             d == New(q.edit)
  <1>1. q.pc = "apply" /\ q.op = "create" /\ Ends(r)
    BY DEF Create
  <1>2. q.policy \in Policy /\ d \in Definition
    BY <1>1, AppliesWith, EditTypes
  <1>3. Finishes(r)
    BY <1>1, EndsFinishes
  <1> HIDE DEF d
  <1>4. CASE UNCHANGED <<tables, cache, left, ghosts>>
    BY <1>3, <1>4 DEF Applied
  <1>5. ASSUME policy' = [policy EXCEPT ![q.policy] = d], Recorded(q.policy, "create", None, d),
               UNCHANGED <<held, direct>>, Commit
        PROVE  Applied(r)
    <2>1. d # None
      BY <1>2, ConstantAssumption
    <2>2. history' \in Seq(Record) /\ \A i \in DOMAIN history' : DefinitionOf(history'[i]) \in Definition
      BY <1>2, <1>5, <2>1, RecordedTypes
    <2>3. policy' \in [Policy -> {None} \cup Definition]
      BY <1>2, <1>5 DEF TypeInv, TypeOK
    <2> QED
      BY <1>3, <1>5, <2>2, <2>3 DEF Applied, TablesOK, TypeInv, TypeOK
  <1> QED
    BY <1>1, <1>4, <1>5 DEF Create, d

LEMMA GrantApplies == ASSUME TypeInv, NEW r \in Req, GrantPermission(r) PROVE Applied(r)
  <1> DEFINE q == req[r]
             to(u) == Regranted(direct[u], {q.action}, q.scope)
  <1>1. q.pc = "apply" /\ q.op = "grant" /\ Commit /\ UNCHANGED <<policy, held, history>>
    BY DEF GrantPermission
  <1>2. q.op \in Operation /\ q.users \in SUBSET User /\ q.action \in Action /\ q.scope \in Scope
    BY <1>1, AppliesWith
  <1>3. ASSUME NEW u \in User PROVE to(u) \in SUBSET Grant
    BY <1>2, RegrantedTypes DEF TypeInv, TypeOK
  <1>4. direct' = [u \in User |-> IF u \in q.users THEN to(u) ELSE direct[u]]
    BY DEF GrantPermission
  <1> HIDE DEF to
  <1>5. direct' \in [User -> SUBSET Grant]
    BY <1>3, <1>4 DEF TypeInv, TypeOK
  <1>6. Finishes(r)
    BY <1>2, ClosingFinishes DEF GrantPermission
  <1> QED
    BY <1>1, <1>5, <1>6 DEF Applied, TablesOK, TypeInv, TypeOK

LEMMA UngrantApplies == ASSUME TypeInv, NEW r \in Req, RemovePermission(r) PROVE Applied(r)
  <1> DEFINE q == req[r]
             us == {u \in q.users : \E g \in direct[u] : g.action = q.action}
  <1>1. q.op \in Operation /\ us \in SUBSET User
    BY AppliesWith DEF RemovePermission
  <1>2. CASE Ends(r) /\ UNCHANGED <<tables, cache, left, ghosts>>
    BY <1>2, EndsFinishes DEF Applied
  <1>3. ASSUME direct' = [u \in User |-> {g \in direct[u] : u \notin us \/ g.action # q.action}],
               Becomes(r, [NoReq EXCEPT !.pc = "dropGrants", !.op = q.op, !.users = us]),
               UNCHANGED <<policy, held, history>>, Commit
        PROVE  Applied(r)
    <2>1. Finishes(r)
      BY <1>1, <1>3, ClosingFinishes
    <2> HIDE DEF us
    <2>2. direct' \in [User -> SUBSET Grant]
      BY <1>3 DEF TypeInv, TypeOK
    <2> QED
      BY <1>3, <2>1, <2>2 DEF Applied, TablesOK, TypeInv, TypeOK
  <1> QED
    BY <1>2, <1>3 DEF RemovePermission

LEMMA DropApplies ==
  ASSUME TypeInv, NEW r \in Req, InvalidatePolicies(r) \/ InvalidatePermissions(r) PROVE Applied(r)
  <1> DEFINE q == req[r]
             n == [q EXCEPT !.pc = "dropGrants"]
  <1>1. q \in Request
    BY DEF TypeInv, TypeOK
  <1>2. n \in Request /\ n.pc = "dropGrants"
    BY <1>1 DEF Request, Pc
  <1> HIDE DEF n
  <1>3. Ends(r) \/ Becomes(r, n)
    BY DEF InvalidatePolicies, InvalidatePermissions, n
  <1>4. Good(n) /\ n.pc \in Finished
    BY <1>2 DEF Good, ReqOK, Finished, Checking
  <1>5. Finishes(r)
    BY <1>3, <1>4, EndsFinishes DEF Finishes
  <1>6. UNCHANGED <<tables, ghosts>>
    BY DEF InvalidatePolicies, InvalidatePermissions
  <1>7. left' \in [writes : Int, faults : Nat]
    BY DEF InvalidatePolicies, InvalidatePermissions, Fails, TypeInv, TypeOK
  <1>8. /\ listed' \in [User -> {None} \cup List] /\ granted' \in [User -> {None} \cup SUBSET Grant]
        /\ \A u \in User : listed'[u] \in {None, listed[u]} /\ granted'[u] \in {None, granted[u]}
    <2>1. CASE InvalidatePolicies(r)
      BY <2>1 DEF InvalidatePolicies, TypeInv, TypeOK
    <2>2. CASE InvalidatePermissions(r)
      BY <2>2 DEF InvalidatePermissions, TypeInv, TypeOK
    <2> QED
      BY <2>1, <2>2
  <1>9. Drops
    BY <1>6, <1>7, <1>8 DEF Drops
  <1> QED
    BY <1>5, <1>9 DEF Applied

LEMMA AppliesFacts == ASSUME TypeInv, NEW r \in Req, Applies(r) PROVE Applied(r)
  <1>1. ASSUME Refresh(r) PROVE Applied(r)
    <2>1. Finishes(r)
      BY <1>1, EndsFinishes, InvalidatesFinishes DEF Refresh
    <2> QED
      BY <1>1, <2>1 DEF Refresh, Applied
  <1> QED
    BY <1>1, AssignApplies, RemoveApplies, RevokeApplies, UpdateApplies, DeleteApplies, CreateApplies, GrantApplies,
       UngrantApplies, DropApplies DEF Applies

LEMMA ExpiresTypes ==
  ASSUME TypeInv, NEW u \in User, ExpirePolicies(u) \/ ExpirePermissions(u) PROVE TypeInv'
  BY DEF ExpirePolicies, ExpirePermissions, TypeInv, TypeOK, tables, ghosts

LEMMA NextTypeInv == TypeInv /\ [Next]_vars => TypeInv'
  <1> SUFFICES ASSUME TypeInv, [Next]_vars PROVE TypeInv'
    OBVIOUS
  <1>1. CASE UNCHANGED vars
    BY <1>1 DEF TypeInv, TypeOK, vars
  <1>2. ASSUME NEW r \in Req, Arrives(r) \/ Serve(r) PROVE TypeInv'
    BY <1>2, ArrivesTypes, AuthorisesTypes, PreparesTypes, AppliesFacts, AppliedTypes DEF Serve
  <1> QED
    BY <1>1, <1>2, ExpiresTypes DEF Next

\* Whatever the requests do, and in whatever order, every variable has its type: a
\* request that reads a list as one has read one, and the guard never looks for
\* the next question where there is none (assert_authorized_to_grant).
THEOREM TypeCorrect == Spec => []TypeOK
  <1>1. TypeInv => TypeOK
    BY DEF TypeInv
  <1> QED
    BY <1>1, InitTypeInv, NextTypeInv, PTL DEF Spec

-----------------------------------------------------------------------------
(* The history.  Its records follow on from each other because the last one of *)
(* each policy ends with what the row now says.                                *)

\* The last record of a policy ended with the definition it has now.
HistoryEndsHere ==
    \A i \in DOMAIN history :
        (\A k \in (i + 1)..Len(history) : history[k].policy # history[i].policy)
            => history[i].next = policy[history[i].policy]

ChainInv == TypeInv /\ HistoryEndsHere /\ EditsFormAChain

LEMMA InitChainInv == Init => ChainInv
  BY InitTypeInv DEF ChainInv, HistoryEndsHere, EditsFormAChain, Init

\* A record added to the history along with the change it is about.
LEMMA RecordStep ==
  ASSUME ChainInv, NEW p \in Policy, NEW kind, NEW prev, NEW next, Recorded(p, kind, prev, next),
         policy' = [policy EXCEPT ![p] = next],
         kind \in {"update", "rollback"} => prev = policy[p]
  PROVE  HistoryEndsHere' /\ EditsFormAChain'
  <1> DEFINE h == [policy |-> p, kind |-> kind, prev |-> prev, next |-> next]
             n == Len(history)
  <1>1. history \in Seq(Record) /\ n \in Nat /\ DOMAIN history = 1..n
    BY DEF ChainInv, TypeInv, TypeOK
  <1>2. h.policy = p /\ h.kind = kind /\ h.prev = prev /\ h.next = next
    OBVIOUS
  <1>3. history' = Append(history, h)
    BY DEF Recorded
  <1> HIDE DEF h
  <1>4. /\ DOMAIN history' = 1..(n + 1) /\ Len(history') = n + 1 /\ history'[n + 1] = h
        /\ \A i \in 1..n : history'[i] = history[i]
    BY <1>1, <1>3
  <1> HIDE DEF n
  <1>5. ASSUME NEW i \in 1..(n + 1), \A k \in (i + 1)..(n + 1) : history'[k].policy # history'[i].policy
        PROVE  history'[i].next = policy'[history'[i].policy]
    <2>1. CASE i = n + 1
      BY <1>2, <1>4, <2>1 DEF ChainInv, TypeInv, TypeOK
    <2>2. CASE i \in 1..n
      <3>1. n + 1 \in (i + 1)..(n + 1) /\ history'[i] = history[i]
        BY <1>1, <1>4, <2>2
      <3>2. history[i].policy # p
        BY <1>2, <1>4, <1>5, <3>1
      <3>3. ASSUME NEW k \in (i + 1)..n PROVE history[k].policy # history[i].policy
        BY <1>1, <1>4, <1>5, <2>2, <3>1
      <3>4. history[i].next = policy[history[i].policy]
        BY <1>1, <2>2, <3>3 DEF ChainInv, HistoryEndsHere, n
      <3>5. history[i] \in Record
        BY <1>1, <2>2
      <3>6. policy'[history[i].policy] = policy[history[i].policy]
        BY <3>2, <3>5 DEF Record, ChainInv, TypeInv, TypeOK
      <3> QED
        BY <3>1, <3>4, <3>6
    <2> QED
      BY <1>1, <2>1, <2>2
  <1>6. HistoryEndsHere'
    BY <1>4, <1>5 DEF HistoryEndsHere
  <1>7. ASSUME NEW j \in 1..(n + 1), history'[j].kind \in {"update", "rollback"}, NEW i \in 1..(j - 1),
               history'[i].policy = history'[j].policy,
               ~ \E k \in (i + 1)..(j - 1) : history'[k].policy = history'[j].policy
        PROVE  history'[i].next = history'[j].prev
    <2>1. CASE j = n + 1
      <3>1. i \in 1..n /\ history'[i] = history[i] /\ history[i].policy = p /\ prev = policy[p] /\ history'[j].prev = prev
        BY <1>1, <1>2, <1>4, <1>7, <2>1
      <3>2. ASSUME NEW k \in (i + 1)..n PROVE history[k].policy # history[i].policy
        BY <1>1, <1>2, <1>4, <1>7, <2>1, <3>1
      <3>3. history[i].next = policy[p]
        BY <1>1, <3>1, <3>2 DEF ChainInv, HistoryEndsHere, n
      <3> QED
        BY <3>1, <3>3
    <2>2. CASE j \in 1..n
      <3>1. i \in 1..n /\ history'[i] = history[i] /\ history'[j] = history[j]
        BY <1>1, <1>4, <2>2
      <3>2. ASSUME NEW k \in (i + 1)..(j - 1) PROVE history[k].policy # history[j].policy
        BY <1>1, <1>4, <1>7, <2>2, <3>1
      <3> QED
        BY <1>1, <1>7, <2>2, <3>1, <3>2 DEF ChainInv, EditsFormAChain
    <2> QED
      BY <1>1, <2>1, <2>2
  <1> QED
    BY <1>4, <1>6, <1>7 DEF EditsFormAChain

LEMMA NextChainInv == ChainInv /\ [Next]_vars => ChainInv'
  <1> SUFFICES ASSUME ChainInv, [Next]_vars PROVE ChainInv'
    OBVIOUS
  <1>0. TypeInv /\ TypeInv'
    BY NextTypeInv DEF ChainInv
  <1>1. ASSUME UNCHANGED <<policy, history>> PROVE HistoryEndsHere' /\ EditsFormAChain'
    BY <1>1 DEF ChainInv, HistoryEndsHere, EditsFormAChain
  <1>2. ASSUME NEW r \in Req, Update(r), ~UNCHANGED <<policy, history>> PROVE HistoryEndsHere' /\ EditsFormAChain'
    <2> DEFINE q == req[r]
               d == policy[q.policy]
    <2>1. q.pc = "apply" /\ q.op \in {"update", "rollback"}
      BY <1>2 DEF Update
    <2>2. q.policy \in Policy
      BY <1>0, <2>1, AppliesWith
    <2>3. policy' = [policy EXCEPT ![q.policy] = Edited(d, q.edit)] /\ Recorded(q.policy, q.op, d, Edited(d, q.edit))
      BY <1>2 DEF Update, tables
    <2> QED
      BY <2>2, <2>3, RecordStep
  <1>3. ASSUME NEW r \in Req, Delete(r) PROVE HistoryEndsHere' /\ EditsFormAChain'
    <2> DEFINE q == req[r]
    <2>1. q.pc = "apply" /\ q.op = "delete" /\ policy' = [policy EXCEPT ![q.policy] = None]
          /\ Recorded(q.policy, "delete", q.saw, None)
      BY <1>3 DEF Delete
    <2>2. q.policy \in Policy
      BY <1>0, <2>1, AppliesWith
    <2> QED
      BY <2>1, <2>2, RecordStep
  <1>4. ASSUME NEW r \in Req, Create(r), ~UNCHANGED <<policy, history>> PROVE HistoryEndsHere' /\ EditsFormAChain'
    <2> DEFINE q == req[r]
    <2>1. q.pc = "apply" /\ q.op = "create" /\ policy' = [policy EXCEPT ![q.policy] = New(q.edit)]
          /\ Recorded(q.policy, "create", None, New(q.edit))
      BY <1>4 DEF Create, tables
    <2>2. q.policy \in Policy
      BY <1>0, <2>1, AppliesWith
    <2> QED
      BY <2>1, <2>2, RecordStep
  <1>5. ASSUME NEW r \in Req, Applies(r), ~UNCHANGED <<policy, history>> PROVE HistoryEndsHere' /\ EditsFormAChain'
    <2>1. Update(r) \/ Delete(r) \/ Create(r)
      BY <1>5 DEF Applies, Assign, Remove, RevokeSingleAction, Refresh, GrantPermission, RemovePermission,
         InvalidatePolicies, InvalidatePermissions, tables
    <2> QED
      BY <1>2, <1>3, <1>4, <1>5, <2>1
  <1>6. ASSUME NEW r \in Req, Arrives(r) \/ Authorises(r) \/ Prepares(r) PROVE UNCHANGED <<policy, history>>
    <2>1. CASE Arrives(r)
      BY <2>1 DEF Arrives, Check, ManagementRequest, Starts, tables
    <2>2. CASE Authorises(r)
      BY <2>2 DEF Authorises, CachedPolicies, SelectPolicies, SetPolicies, CachedPermissions, SelectPermissions,
         SetPermissions, Respond, tables
    <2>3. CASE Prepares(r)
      BY <1>0, <2>3, PreparesFacts DEF Prepared, tables
    <2> QED
      BY <1>6, <2>1, <2>2, <2>3
  <1>7. ASSUME NEW u \in User, ExpirePolicies(u) \/ ExpirePermissions(u) PROVE UNCHANGED <<policy, history>>
    BY <1>7 DEF ExpirePolicies, ExpirePermissions, tables
  <1>8. CASE UNCHANGED vars
    BY <1>0, <1>1, <1>8 DEF vars, ChainInv
  <1>9. CASE Next
    BY <1>0, <1>1, <1>5, <1>6, <1>7, <1>9 DEF Next, Serve, ChainInv
  <1> QED
    BY <1>8, <1>9

\* However creations, updates, rollbacks and deletions of policies interleave, an
\* edit starts from the definition that the record before it ended with: the row is
\* read again under its lock before the change is made (policy_repository.update).
THEOREM EditsChain == Spec => []EditsFormAChain
  <1>1. ChainInv => EditsFormAChain
    BY DEF ChainInv
  <1> QED
    BY <1>1, InitChainInv, NextChainInv, PTL DEF Spec

-----------------------------------------------------------------------------
(* The inductive invariant behind GrantsStayWithinOwn. *)

Known == was \cup credited

\* What list ps grants user u is among the grants K.
Backs(K, u, ps) == \A p \in DOMAIN ps : \A a \in ps[p].actions : <<u, [action |-> a, scope |-> ps[p].scope]>> \in K

\* The lists a request has read are among K.
Backed(K, q) ==
    /\ q.pc \in {"set", "getGrants", "setGrants"} => Backs(K, q.caller, q.ps)
    /\ q.pc = "setGrants" => \A g \in q.gs : <<q.caller, g>> \in K

\* The guard has still to be asked about handing out action a.
Pending(q, a) ==
    /\ q.pc \in Checking /\ q.phase \in {"super", "guard"}
    /\ \E i \in DOMAIN q.checks :
          /\ a \in q.checks[i].actions
          /\ q.checks[i].scope = HandsOut(q).scope
          /\ i = 1 => a \in q.todo

\* Whatever a request will hand out, its caller has had the use of it, or the
\* guard is still to be asked.
Approved(K, q) ==
    q.pc \notin Finished /\ ~q.super =>
        \A a \in HandsOut(q).actions : HadIn(K, q.caller, a, HandsOut(q).scope) \/ Pending(q, a)

\* What the tables and the caches give is known of.
TablesKnown == \A u \in User : \A g \in Effective(u) : <<u, g>> \in Known

CachesKnown == \A u \in User :
    /\ listed[u] # None => Backs(Known, u, listed[u])
    /\ granted[u] # None => \A g \in granted[u] : <<u, g>> \in Known

RequestsApproved == \A r \in Req : Backed(Known, req[r]) /\ Approved(Known, req[r])

GuardInv == TypeInv /\ TablesKnown /\ CachesKnown /\ RequestsApproved

\* More grants that are known of take nothing back.
LEMMA KnowingMore ==
  ASSUME NEW K, NEW L, K \subseteq L, NEW q
  PROVE  /\ \A u, ps : Backs(K, u, ps) => Backs(L, u, ps)
         /\ Backed(K, q) => Backed(L, q)
         /\ Approved(K, q) => Approved(L, q)
  <1>1. \A u, ps : Backs(K, u, ps) => Backs(L, u, ps)
    BY DEF Backs
  <1>2. Backed(K, q) => Backed(L, q)
    BY <1>1 DEF Backed
  <1>3. \A u, a, scope : HadIn(K, u, a, scope) => HadIn(L, u, a, scope)
    BY DEF HadIn
  <1>4. Approved(K, q) => Approved(L, q)
    BY <1>3 DEF Approved
  <1> QED
    BY <1>1, <1>2, <1>4

\* What a request hands out does not change while it is being checked.
LEMMA SameHandsOut ==
  ASSUME NEW q, NEW n, n.op = q.op, n.saw = q.saw, n.edit = q.edit, n.action = q.action, n.scope = q.scope
  PROVE  HandsOut(n) = HandsOut(q)
  BY DEF HandsOut

\* Moving on to the next question.
LEMMA NextCheckApproved ==
  ASSUME NEW K, NEW m \in Request,
         ~m.super => \A a \in HandsOut(m).actions :
            \/ HadIn(K, m.caller, a, HandsOut(m).scope)
            \/ \E i \in DOMAIN m.checks : a \in m.checks[i].actions /\ m.checks[i].scope = HandsOut(m).scope
  PROVE  Backed(K, NextCheck(m)) /\ Approved(K, NextCheck(m))
  <1> DEFINE n == NextCheck(m)
  <1>1. /\ n.op = m.op /\ n.caller = m.caller /\ n.action = m.action /\ n.scope = m.scope /\ n.edit = m.edit
        /\ n.saw = m.saw /\ n.super = m.super /\ n.checks = m.checks
        /\ m.checks = <<>> => n.pc \in {"holds", "apply"}
        /\ m.checks # <<>> => n.pc = "get" /\ n.phase \in {"super", "guard"} /\ n.todo = Head(m.checks).actions
    BY NextCheckFacts
  <1> HIDE DEF n
  <1>2. HandsOut(n) = HandsOut(m)
    BY <1>1, SameHandsOut
  <1>3. Backed(K, n)
    BY <1>1 DEF Backed
  <1>4. ASSUME NEW a, NEW i \in DOMAIN m.checks, a \in m.checks[i].actions, m.checks[i].scope = HandsOut(m).scope
        PROVE  Pending(n, a)
    <2>1. m.checks \in Seq(Proposal)
      BY DEF Request
    <2>2. m.checks # <<>> /\ Head(m.checks) = m.checks[1]
      BY <1>4, <2>1
    <2>3. i = 1 => a \in n.todo
      BY <1>1, <1>4, <2>2
    <2> QED
      BY <1>1, <1>2, <1>4, <2>2, <2>3 DEF Pending, Checking
  <1>5. Approved(K, n)
    BY <1>1, <1>2, <1>4 DEF Approved
  <1> QED
    BY <1>3, <1>5 DEF n

\* A request that is asked no other question than before.
LEMMA StaysApproved ==
  ASSUME NEW K, NEW q, NEW n, Approved(K, q), q.pc \notin Finished, HandsOut(n) = HandsOut(q),
         n.caller = q.caller, n.super = q.super,
         n.pc \in Checking \/ q.pc \notin Checking \/ q.phase \notin {"super", "guard"},
         n.pc \in Checking => n.phase \in {"super", "guard"} \/ n.phase = q.phase,
         n.checks = q.checks, n.todo = q.todo
  PROVE  Approved(K, n)
  BY DEF Approved, Pending

LEMMA WithListApproved ==
  ASSUME NEW K, NEW q, Good(q), q.pc \in {"get", "set"}, Approved(K, q), NEW ps \in List, Backs(K, q.caller, ps)
  PROVE  Backed(K, WithList(q, ps)) /\ Approved(K, WithList(q, ps))
  <1>0. q \in Request /\ q.pc \notin Finished /\ q.pc \in Checking
    BY DEF Good, Finished, Checking
  <1>1. CASE q.phase # "super"
    <2> DEFINE n == [q EXCEPT !.pc = "getGrants", !.ps = ps]
    <2>1. WithList(q, ps) = n
      BY <1>1 DEF WithList
    <2>2. /\ n.pc = "getGrants" /\ n.ps = ps /\ n.phase = q.phase /\ n.checks = q.checks /\ n.todo = q.todo
          /\ n.caller = q.caller /\ n.super = q.super /\ n.op = q.op /\ n.saw = q.saw /\ n.edit = q.edit
          /\ n.action = q.action /\ n.scope = q.scope
      BY <1>0 DEF Request
    <2> HIDE DEF n
    <2>3. Backed(K, n)
      BY <2>2 DEF Backed
    <2>4. HandsOut(n) = HandsOut(q)
      BY <2>2, SameHandsOut
    <2>5. Approved(K, n)
      BY <1>0, <2>2, <2>4, StaysApproved DEF Checking
    <2> QED
      BY <2>1, <2>3, <2>5
  <1>2. CASE q.phase = "super" /\ Superuser \in DOMAIN ps
    <2> DEFINE m == [q EXCEPT !.checks = Tail(q.checks), !.super = TRUE]
    <2>1. WithList(q, ps) = NextCheck(m)
      BY <1>2 DEF WithList
    <2>2. q.checks # <<>> /\ q.checks \in Seq(Proposal)
      BY <1>0, <1>2 DEF Good, ReqOK, Checking, Request
    <2>3. Tail(q.checks) \in Seq(Proposal)
      BY <2>2
    <2>4. m \in Request /\ m.super = TRUE
      BY <1>0, <2>3 DEF Request
    <2> HIDE DEF m
    <2> QED
      BY <2>1, <2>4, NextCheckApproved
  <1>3. CASE q.phase = "super" /\ Superuser \notin DOMAIN ps
    <2> DEFINE n == [q EXCEPT !.pc = "get", !.phase = "guard"]
    <2>1. WithList(q, ps) = n
      BY <1>3 DEF WithList
    <2>2. /\ n.pc = "get" /\ n.phase = "guard" /\ n.checks = q.checks /\ n.todo = q.todo
          /\ n.caller = q.caller /\ n.super = q.super /\ n.op = q.op /\ n.saw = q.saw /\ n.edit = q.edit
          /\ n.action = q.action /\ n.scope = q.scope
      BY <1>0 DEF Request
    <2> HIDE DEF n
    <2>3. Backed(K, n)
      BY <2>2 DEF Backed
    <2>4. HandsOut(n) = HandsOut(q)
      BY <2>2, SameHandsOut
    <2>5. Approved(K, n)
      BY <1>0, <2>2, <2>4, StaysApproved DEF Checking
    <2> QED
      BY <2>1, <2>3, <2>5
  <1> QED
    BY <1>1, <1>2, <1>3

\* The guard lets nothing pass that the two lists do not contain.
LEMMA HeldIsKnown ==
  ASSUME NEW K, NEW u, NEW ps, NEW gs, NEW a, NEW ctx, NEW scope,
         Backs(K, u, ps), \A g \in gs : <<u, g>> \in K, HasScopeForGrant(Matched(Rights(ps, gs), a, ctx), scope)
  PROVE  HadIn(K, u, a, scope)
  <1>1. PICK g \in Rights(ps, gs) : g.action = a /\ g.scope \subseteq scope
    BY DEF HasScopeForGrant, Matched
  <1>2. <<u, g>> \in K
    <2>1. CASE g \in gs
      BY <2>1
    <2>2. ASSUME NEW p \in DOMAIN ps, NEW b \in ps[p].actions, g = [action |-> b, scope |-> ps[p].scope]
          PROVE  <<u, g>> \in K
      BY <2>2 DEF Backs
    <2> QED
      BY <1>1, <2>1, <2>2 DEF Rights
  <1> QED
    BY <1>1, <1>2 DEF HadIn


LEMMA WithGrantsApproved ==
  ASSUME NEW K, NEW q, Good(q), q.pc \in {"getGrants", "setGrants"}, Approved(K, q), NEW gs,
         Backs(K, q.caller, q.ps), \A g \in gs : <<q.caller, g>> \in K
  PROVE  Backed(K, WithGrants(q, gs)) /\ Approved(K, WithGrants(q, gs))
  <1>0. q \in Request /\ q.pc \notin Finished /\ q.pc \in Checking
    BY DEF Good, Finished, Checking
  <1>1. CASE WithGrants(q, gs) = NoReq
    BY <1>1 DEF NoReq, Backed, Approved, Finished
  <1>2. ASSUME NEW a, NEW pc \in {"allowed", "denied", "load"}, q.phase = "require",
               WithGrants(q, gs) = [Rest(q, a) EXCEPT !.pc = pc]
        PROVE  Backed(K, WithGrants(q, gs)) /\ Approved(K, WithGrants(q, gs))
    <2> DEFINE m == Rest(q, a)
               n == [m EXCEPT !.pc = pc]
    <2>1. m \in Request
      BY <1>0, RestFacts
    <2> HIDE DEF m
    <2>2. /\ n.pc = pc /\ n.op = m.op /\ n.caller = m.caller /\ n.super = m.super /\ n.action = m.action
          /\ n.scope = m.scope /\ n.edit = m.edit /\ n.saw = m.saw
      BY <2>1 DEF Request
    <2> HIDE DEF n
    <2>3. n.caller = q.caller /\ n.super = q.super /\ HandsOut(n) = HandsOut(q)
      BY <1>0, <2>2, RestFacts, SameHandsOut DEF m
    <2>4. \A b : ~Pending(q, b)
      BY <1>2 DEF Pending
    <2>5. Approved(K, n)
      BY <1>0, <2>3, <2>4 DEF Approved
    <2>6. Backed(K, n)
      BY <2>2 DEF Backed
    <2> QED
      BY <1>2, <2>5, <2>6 DEF n, m
  <1>3. ASSUME NEW a, q.phase = "guard",
               HasScopeForGrant(Matched(Rights(q.ps, gs), a, q.ctx), Head(q.checks).scope)
        PROVE  /\ q.checks # <<>> /\ q.checks \in Seq(Proposal) /\ Head(q.checks) = q.checks[1]
               /\ HadIn(K, q.caller, a, q.checks[1].scope)
    <2>1. q.checks # <<>> /\ q.checks \in Seq(Proposal)
      BY <1>0, <1>3 DEF Good, ReqOK, Checking, Request
    <2>2. Head(q.checks) = q.checks[1]
      BY <2>1
    <2> QED
      BY <1>3, <2>1, <2>2, HeldIsKnown
  <1>4. ASSUME NEW a, q.phase = "guard", q.todo = {a},
               HasScopeForGrant(Matched(Rights(q.ps, gs), a, q.ctx), Head(q.checks).scope),
               WithGrants(q, gs) = NextCheck([Rest(q, a) EXCEPT !.checks = Tail(q.checks)])
        PROVE  Backed(K, WithGrants(q, gs)) /\ Approved(K, WithGrants(q, gs))
    <2> DEFINE m == Rest(q, a)
               c == Tail(q.checks)
               n == [m EXCEPT !.checks = c]
    <2>1. m \in Request
      BY <1>0, RestFacts
    <2>2. c \in Seq(Proposal) /\ \A i \in DOMAIN q.checks : i # 1 => i - 1 \in DOMAIN c /\ c[i - 1] = q.checks[i]
      BY <1>3, <1>4
    <2> HIDE DEF m, c
    <2>3. /\ n \in Request /\ n.op = m.op /\ n.caller = m.caller /\ n.super = m.super /\ n.action = m.action
          /\ n.scope = m.scope /\ n.edit = m.edit /\ n.saw = m.saw /\ n.checks = c
      BY <2>1, <2>2, NextQuestion
    <2> HIDE DEF n
    <2>4. n.caller = q.caller /\ n.super = q.super /\ HandsOut(n) = HandsOut(q)
      BY <1>0, <2>3, RestFacts, SameHandsOut DEF m
    <2>5. ASSUME NEW b \in HandsOut(q).actions, ~q.super
          PROVE  \/ HadIn(K, q.caller, b, HandsOut(q).scope)
                 \/ \E i \in DOMAIN c : b \in c[i].actions /\ c[i].scope = HandsOut(q).scope
      <3>1. CASE HadIn(K, q.caller, b, HandsOut(q).scope)
        BY <3>1
      <3>2. CASE Pending(q, b)
        <4>1. PICK i \in DOMAIN q.checks :
                 b \in q.checks[i].actions /\ q.checks[i].scope = HandsOut(q).scope /\ (i = 1 => b \in q.todo)
          BY <3>2 DEF Pending
        <4>2. CASE i = 1
          BY <1>3, <1>4, <4>1, <4>2
        <4>3. CASE i # 1
          BY <2>2, <4>1, <4>3
        <4> QED
          BY <4>2, <4>3
      <3> QED
        BY <1>0, <2>5, <3>1, <3>2 DEF Approved
    <2>6. Backed(K, NextCheck(n)) /\ Approved(K, NextCheck(n))
      BY <2>3, <2>4, <2>5, NextCheckApproved
    <2> QED
      BY <1>4, <2>6 DEF n, m, c
  <1>5. ASSUME NEW a, q.phase = "guard",
               HasScopeForGrant(Matched(Rights(q.ps, gs), a, q.ctx), Head(q.checks).scope),
               WithGrants(q, gs) = [Rest(q, a) EXCEPT !.pc = "get"]
        PROVE  Backed(K, WithGrants(q, gs)) /\ Approved(K, WithGrants(q, gs))
    <2> DEFINE m == Rest(q, a)
               n == [m EXCEPT !.pc = "get"]
    <2>1. m \in Request
      BY <1>0, RestFacts
    <2> HIDE DEF m
    <2>2. /\ n.pc = "get" /\ n.op = m.op /\ n.caller = m.caller /\ n.super = m.super /\ n.action = m.action
          /\ n.scope = m.scope /\ n.edit = m.edit /\ n.saw = m.saw /\ n.checks = m.checks /\ n.todo = m.todo
          /\ n.phase = m.phase
      BY <2>1 DEF Request
    <2> HIDE DEF n
    <2>3. /\ n.caller = q.caller /\ n.super = q.super /\ HandsOut(n) = HandsOut(q) /\ n.checks = q.checks
          /\ n.todo = q.todo \ {a} /\ n.phase = q.phase
      BY <1>0, <2>2, RestFacts, SameHandsOut DEF m
    <2>4. ASSUME NEW b \in HandsOut(q).actions, ~q.super
          PROVE  HadIn(K, q.caller, b, HandsOut(q).scope) \/ Pending(n, b)
      <3>1. CASE HadIn(K, q.caller, b, HandsOut(q).scope)
        BY <3>1
      <3>2. CASE Pending(q, b)
        <4>1. PICK i \in DOMAIN q.checks :
                 b \in q.checks[i].actions /\ q.checks[i].scope = HandsOut(q).scope /\ (i = 1 => b \in q.todo)
          BY <3>2 DEF Pending
        <4>2. CASE i = 1 /\ b = a
          BY <1>3, <1>5, <4>1, <4>2
        <4>3. CASE i = 1 => b # a
          BY <1>5, <2>2, <2>3, <4>1, <4>3 DEF Pending, Checking
        <4> QED
          BY <4>2, <4>3
      <3> QED
        BY <1>0, <2>4, <3>1, <3>2 DEF Approved
    <2>5. Approved(K, n)
      BY <2>3, <2>4 DEF Approved
    <2>6. Backed(K, n)
      BY <2>2 DEF Backed
    <2> QED
      BY <1>5, <2>5, <2>6 DEF n, m
  <1>6. CASE \E a, pc : /\ q.phase = "require" /\ pc \in {"allowed", "denied", "load"}
                        /\ WithGrants(q, gs) = [Rest(q, a) EXCEPT !.pc = pc]
    BY <1>2, <1>6
  <1>7. CASE \E a : /\ q.phase = "guard"
                    /\ HasScopeForGrant(Matched(Rights(q.ps, gs), a, q.ctx), Head(q.checks).scope)
                    /\ \/ /\ q.todo = {a}
                          /\ WithGrants(q, gs) = NextCheck([Rest(q, a) EXCEPT !.checks = Tail(q.checks)])
                       \/ /\ q.todo # {a}
                          /\ WithGrants(q, gs) = [Rest(q, a) EXCEPT !.pc = "get"]
    BY <1>4, <1>5, <1>7
  <1> QED
    BY <1>1, <1>6, <1>7, WithGrantsCases

-----------------------------------------------------------------------------
(* The guard's invariant is inductive.                                     *)

\* What the tables give a user are grants.
LEMMA RightsTypes ==
  ASSUME NEW ps \in List, NEW gs \in SUBSET Grant
  PROVE  Rights(ps, gs) \in SUBSET Grant
  <1>1. ASSUME NEW p \in DOMAIN ps, NEW a \in ps[p].actions PROVE [action |-> a, scope |-> ps[p].scope] \in Grant
    <2>1. ps[p] \in Definition
      BY DEF List
    <2> QED
      BY <2>1 DEF Definition, Grant
  <1> QED
    BY <1>1 DEF Rights

LEMMA EffectiveFacts ==
  ASSUME TypeInv, NEW u \in User
  PROVE  /\ Effective(u) \in SUBSET Grant
         /\ direct[u] \subseteq Effective(u)
         /\ \A p \in ActivePolicies(u) : \A a \in policy[p].actions : [action |-> a, scope |-> policy[p].scope] \in Effective(u)
  <1> DEFINE ps == [p \in ActivePolicies(u) |-> policy[p]]
  <1>1. ActivePolicies(u) \in SUBSET Policy /\ \A p \in ActivePolicies(u) : policy[p] \in Definition
    BY DEF ActivePolicies, TypeInv, TypeOK
  <1>2. ps \in [ActivePolicies(u) -> Definition]
    BY <1>1
  <1>3. ps \in List
    BY <1>1, <1>2 DEF List
  <1>4. DOMAIN ps = ActivePolicies(u) /\ \A p \in ActivePolicies(u) : ps[p] = policy[p]
    OBVIOUS
  <1> HIDE DEF ps
  <1>5. direct[u] \in SUBSET Grant
    BY DEF TypeInv, TypeOK
  <1>6. Rights(ps, direct[u]) \in SUBSET Grant
    BY <1>3, <1>5, RightsTypes
  <1>7. /\ direct[u] \subseteq Rights(ps, direct[u])
        /\ \A p \in ActivePolicies(u) : \A a \in policy[p].actions :
              [action |-> a, scope |-> policy[p].scope] \in Rights(ps, direct[u])
    BY <1>4 DEF Rights
  <1> QED
    BY <1>6, <1>7 DEF Effective, ps

\* The same of the state that a step leads to.
LEMMA EffectiveTypesNext ==
  ASSUME TypeInv', NEW u \in User
  PROVE  Effective(u)' \in SUBSET Grant
  <1> DEFINE ps == [p \in ActivePolicies(u)' |-> policy'[p]]
  <1>1. ActivePolicies(u)' \in SUBSET Policy /\ \A p \in ActivePolicies(u)' : policy'[p] \in Definition
    BY DEF ActivePolicies, TypeInv, TypeOK
  <1>2. ps \in List
    BY <1>1 DEF List
  <1>3. direct'[u] \in SUBSET Grant
    BY DEF TypeInv, TypeOK
  <1> HIDE DEF ps
  <1>4. Rights(ps, direct'[u]) \in SUBSET Grant
    BY <1>2, <1>3, RightsTypes
  <1> QED
    BY <1>4 DEF Effective, ps


LEMMA InitGuardInv == Init => GuardInv
  <1> SUFFICES ASSUME Init PROVE GuardInv
    OBVIOUS
  <1>1. TypeInv
    BY InitTypeInv
  <1>2. TablesKnown
    <2> SUFFICES ASSUME NEW u \in User, NEW g \in Effective(u) PROVE <<u, g>> \in Known
      BY DEF TablesKnown
    <2>1. g \in Grant
      BY <1>1, EffectiveFacts
    <2>2. <<u, g>> \in InUse
      BY <2>1 DEF InUse
    <2> QED
      BY <2>2 DEF Init, Known
  <1>3. CachesKnown
    BY DEF Init, CachesKnown
  <1>4. RequestsApproved
    <2>1. \A r \in Req : req[r] = NoReq
      BY DEF Init
    <2>2. NoReq.pc = "idle"
      BY DEF NoReq
    <2> QED
      BY <2>1, <2>2 DEF RequestsApproved, Backed, Approved, Finished
  <1> QED
    BY <1>1, <1>2, <1>3, <1>4 DEF GuardInv

\* The tables go on giving what is known of.
LEMMA TablesStayKnown ==
  ASSUME GuardInv, TypeInv', Known \subseteq Known', UNCHANGED tables \/ Commit
  PROVE  TablesKnown'
  <1>1. CASE UNCHANGED tables
    BY <1>1 DEF GuardInv, TablesKnown, Effective, ActivePolicies, tables
  <1>2. CASE Commit
    <2> SUFFICES ASSUME NEW u \in User, NEW g \in Effective(u)' PROVE <<u, g>> \in Known'
      BY DEF TablesKnown
    <2>1. g \in Grant
      BY EffectiveTypesNext
    <2>2. <<u, g>> \in InUse'
      BY <2>1 DEF InUse
    <2> QED
      BY <1>2, <2>2 DEF Commit, Known
  <1> QED
    BY <1>1, <1>2

\* So do caches that are kept or dropped.
LEMMA CachesStayKnown ==
  ASSUME GuardInv, Known \subseteq Known', \A u \in User : listed'[u] \in {None, listed[u]} /\ granted'[u] \in {None, granted[u]}
  PROVE  CachesKnown'
  <1> SUFFICES ASSUME NEW u \in User
               PROVE  /\ listed'[u] # None => Backs(Known', u, listed'[u])
                      /\ granted'[u] # None => \A g \in granted'[u] : <<u, g>> \in Known'
    BY DEF CachesKnown
  <1>1. listed[u] # None => Backs(Known', u, listed[u])
    BY KnowingMore DEF GuardInv, CachesKnown
  <1>2. granted[u] # None => \A g \in granted[u] : <<u, g>> \in Known'
    BY DEF GuardInv, CachesKnown
  <1> QED
    BY <1>1, <1>2

LEMMA RequestsStayApproved ==
  ASSUME GuardInv, Known \subseteq Known', NEW r \in Req, NEW q, Becomes(r, q), Backed(Known', q), Approved(Known', q)
  PROVE  RequestsApproved'
  <1> SUFFICES ASSUME NEW s \in Req PROVE Backed(Known', req'[s]) /\ Approved(Known', req'[s])
    BY DEF RequestsApproved
  <1>1. req'[s] = IF s = r THEN q ELSE req[s]
    BY DEF Becomes, GuardInv, TypeInv, TypeOK
  <1>2. Backed(Known', req[s]) /\ Approved(Known', req[s])
    BY KnowingMore DEF GuardInv, RequestsApproved
  <1> QED
    BY <1>1, <1>2

\* A step of a request that commits nothing and sets no key.
LEMMA GuardStep ==
  ASSUME GuardInv, TypeInv', NEW r \in Req, NEW q, Becomes(r, q), UNCHANGED <<tables, cache, ghosts>>,
         Backed(Known, q), Approved(Known, q)
  PROVE  GuardInv'
  <1>1. Known' = Known
    BY DEF Known, ghosts
  <1>2. TablesKnown'
    BY <1>1, TablesStayKnown
  <1>3. CachesKnown'
    <2>1. \A u \in User : listed'[u] \in {None, listed[u]} /\ granted'[u] \in {None, granted[u]}
      BY DEF cache
    <2> QED
      BY <1>1, <2>1, CachesStayKnown
  <1>4. RequestsApproved'
    BY <1>1, RequestsStayApproved
  <1> QED
    BY <1>2, <1>3, <1>4 DEF GuardInv

LEMMA FinishedApproved ==
  ASSUME NEW K, NEW q, q.pc \in Finished
  PROVE  Backed(K, q) /\ Approved(K, q)
  BY DEF Finished, Backed, Approved

LEMMA AppliesApproved == ASSUME GuardInv, TypeInv', NEW r \in Req, Applies(r) PROVE GuardInv'
  <1>1. Applied(r)
    BY AppliesFacts DEF GuardInv
  <1>2. PICK q : q.pc \in Finished /\ Becomes(r, q)
    BY <1>1 DEF Applied, Finishes
  <1>3. Known \subseteq Known' /\ (UNCHANGED tables \/ Commit)
    BY <1>1 DEF Applied, Commit, Drops, Known, ghosts
  <1>4. \A u \in User : listed'[u] \in {None, listed[u]} /\ granted'[u] \in {None, granted[u]}
    BY <1>1 DEF Applied, Commit, Drops, cache
  <1>5. Backed(Known', q) /\ Approved(Known', q)
    BY <1>2, FinishedApproved
  <1> QED
    BY <1>2, <1>3, <1>4, <1>5, TablesStayKnown, CachesStayKnown, RequestsStayApproved DEF GuardInv

LEMMA PreparesApproved == ASSUME GuardInv, TypeInv', NEW r \in Req, Prepares(r) PROVE GuardInv'
  <1>1. Prepared(r) /\ UNCHANGED <<tables, cache, ghosts>>
    BY PreparesFacts DEF Prepared, GuardInv
  <1>2. CASE Ends(r)
    BY <1>1, <1>2, FinishedApproved, GuardStep DEF Ends, NoReq, Finished
  <1>3. ASSUME NEW m, Asked(m), Becomes(r, NextCheck(m)) PROVE GuardInv'
    <2>1. Backed(Known, NextCheck(m)) /\ Approved(Known, NextCheck(m))
      BY <1>3, NextCheckApproved DEF Asked
    <2> QED
      BY <1>1, <1>3, <2>1, GuardStep
  <1>4. ASSUME NEW m \in Request, m.op = "bulk_remove", m.pc = "lock", Becomes(r, m) PROVE GuardInv'
    <2>1. Backed(Known, m) /\ Approved(Known, m)
      BY <1>4, HandsOutCases DEF Backed, Approved
    <2> QED
      BY <1>1, <1>4, <2>1, GuardStep
  <1>5. ASSUME NEW pc \in {"count", "apply"}, req[r].pc \in {"holds", "count"}, Becomes(r, [req[r] EXCEPT !.pc = pc])
        PROVE  GuardInv'
    <2> DEFINE q == req[r]
               n == [q EXCEPT !.pc = pc]
    <2>1. q \in Request /\ Approved(Known, q)
      BY DEF GuardInv, RequestsApproved, TypeInv, TypeOK
    <2>2. /\ n.pc = pc /\ n.op = q.op /\ n.caller = q.caller /\ n.super = q.super /\ n.action = q.action
          /\ n.scope = q.scope /\ n.edit = q.edit /\ n.saw = q.saw /\ n.checks = q.checks /\ n.todo = q.todo
      BY <2>1 DEF Request
    <2>3. q.pc \notin Finished /\ q.pc \notin Checking
      BY <1>5 DEF Finished, Checking
    <2> HIDE DEF n, q
    <2>4. HandsOut(n) = HandsOut(q)
      BY <2>2, SameHandsOut
    <2>5. Approved(Known, n)
      BY <2>1, <2>2, <2>3, <2>4, StaysApproved DEF Checking
    <2>6. Backed(Known, n)
      BY <2>2 DEF Backed
    <2>7. Becomes(r, n)
      BY <1>5 DEF n, q
    <2> QED
      BY <1>1, <2>5, <2>6, <2>7, GuardStep
  <1> QED
    BY <1>1, <1>2, <1>3, <1>4, <1>5 DEF Prepared


LEMMA StartsApproved ==
  ASSUME GuardInv, TypeInv', NEW r \in Req, NEW q \in Request, Starts(r, q), q.op \in {"check", "manage"}
  PROVE  GuardInv'
  <1> DEFINE alone == q.op = "check" /\ \A t \in Req \ {r} : req[t].pc = "idle"
             n == [q EXCEPT !.pc = "get", !.alone = alone]
             m(s) == [req[s] EXCEPT !.alone = FALSE]
  <1>1. req' = [s \in Req |-> IF s = r THEN n ELSE m(s)] /\ UNCHANGED <<tables, cache, left, ghosts>>
    BY DEF Starts
  <1>2. n.pc = "get" /\ n.op \in {"check", "manage"}
    BY DEF Request
  <1>3. Backed(Known, n) /\ Approved(Known, n)
    BY <1>2, HandsOutCases DEF Backed, Approved
  <1>4. ASSUME NEW s \in Req PROVE Backed(Known, m(s)) /\ Approved(Known, m(s))
    <2> DEFINE p == req[s]
               o == [p EXCEPT !.alone = FALSE]
    <2>1. p \in Request /\ Backed(Known, p) /\ Approved(Known, p)
      BY DEF GuardInv, RequestsApproved, TypeInv, TypeOK
    <2> HIDE DEF p
    <2>2. /\ o.pc = p.pc /\ o.op = p.op /\ o.caller = p.caller /\ o.action = p.action /\ o.scope = p.scope
          /\ o.edit = p.edit /\ o.saw = p.saw /\ o.phase = p.phase /\ o.super = p.super /\ o.checks = p.checks
          /\ o.todo = p.todo /\ o.ps = p.ps /\ o.gs = p.gs
      BY <2>1, SetAlone
    <2> HIDE DEF o
    <2>3. HandsOut(o) = HandsOut(p)
      BY <2>2, SameHandsOut
    <2>4. Backed(Known, o)
      BY <2>1, <2>2 DEF Backed
    <2>5. Approved(Known, o)
      BY <2>1, <2>2, <2>3 DEF Approved, Pending
    <2> QED
      BY <2>4, <2>5 DEF o, p
  <1> HIDE DEF n, m
  <1>5. Known' = Known
    BY <1>1 DEF Known, ghosts
  <1>6. RequestsApproved'
    BY <1>1, <1>3, <1>4, <1>5 DEF RequestsApproved
  <1>7. TablesKnown'
    BY <1>1, <1>5, TablesStayKnown
  <1>8. \A u \in User : listed'[u] \in {None, listed[u]} /\ granted'[u] \in {None, granted[u]}
    BY <1>1 DEF cache
  <1> QED
    BY <1>5, <1>6, <1>7, <1>8, CachesStayKnown DEF GuardInv

LEMMA ArrivesApproved == ASSUME GuardInv, TypeInv', NEW r \in Req, Arrives(r) PROVE GuardInv'
  <1> DEFINE o == NoReq
  <1>1. o \in Request /\ o.op = "check" /\ "manage" \in Operation
    BY NoReqGood DEF Good, NoReq, Operation
  <1> HIDE DEF o
  <1>2. ASSUME NEW u \in Caller, NEW c \in Contexts, NEW a \in Action,
               Starts(r, [o EXCEPT !.caller = u, !.ctx = c, !.action = a])
        PROVE  GuardInv'
    <2> DEFINE q == [o EXCEPT !.caller = u, !.ctx = c, !.action = a]
    <2>1. q \in Request /\ q.op = "check"
      BY <1>1, ConstantAssumption DEF Request
    <2> QED
      BY <1>2, <2>1, StartsApproved
  <1>3. ASSUME NEW u \in Caller, NEW c \in Contexts,
               Starts(r, [o EXCEPT !.op = "manage", !.caller = u, !.ctx = c])
        PROVE  GuardInv'
    <2> DEFINE q == [o EXCEPT !.op = "manage", !.caller = u, !.ctx = c]
    <2>1. q \in Request /\ q.op = "manage"
      BY <1>1, ConstantAssumption DEF Request
    <2> QED
      BY <1>3, <2>1, StartsApproved
  <1> QED
    BY <1>2, <1>3 DEF Arrives, Check, ManagementRequest, o

\* A list that Postgres gives is made of grants that are known of.
LEMMA SelectedIsKnown ==
  ASSUME GuardInv, NEW r \in Req, SelectPolicies(r)
  PROVE  Known \subseteq Known' /\ Backs(Known', req[r].caller, Selected(req[r]))
  <1> DEFINE q == req[r]
  <1>0. TypeInv
    BY DEF GuardInv
  <1>1. Known \subseteq Known'
    BY <1>0, SelectPoliciesFacts DEF Known
  <1>2. q \in Request /\ q.caller \in User
    BY <1>0, RequestTypes DEF SelectPolicies, Good, Finished
  <1>3. ASSUME NEW p \in ActivePolicies(q.caller), NEW a \in Selected(q)[p].actions
        PROVE  <<q.caller, [action |-> a, scope |-> Selected(q)[p].scope]>> \in Known'
    <2>1. CASE p = q.policy /\ q.saw # None
      <3>1. Selected(q)[p] = q.saw
        BY <2>1 DEF Selected
      <3> QED
        BY <1>0, <1>3, <2>1, <3>1, SelectPoliciesFacts DEF Known
    <2>2. CASE ~(p = q.policy /\ q.saw # None)
      <3>1. Selected(q)[p] = policy[p]
        BY <2>2 DEF Selected
      <3>2. [action |-> a, scope |-> policy[p].scope] \in Effective(q.caller)
        BY <1>0, <1>2, <1>3, <3>1, EffectiveFacts
      <3> QED
        BY <1>1, <1>2, <3>1, <3>2 DEF GuardInv, TablesKnown
    <2> QED
      BY <2>1, <2>2
  <1>4. DOMAIN Selected(q) = ActivePolicies(q.caller)
    BY DEF Selected
  <1> QED
    BY <1>1, <1>3, <1>4 DEF Backs

LEMMA AuthorisesApproved == ASSUME GuardInv, TypeInv', NEW r \in Req, Authorises(r) PROVE GuardInv'
  <1> DEFINE q == req[r]
  <1>0. TypeInv /\ Good(q) /\ q \in Request /\ Backed(Known, q) /\ Approved(Known, q)
    BY RequestTypes DEF GuardInv, RequestsApproved, Good
  <1>1. CASE CachedPolicies(r)
    <2>1. q.pc = "get" /\ q.caller \in User /\ listed[q.caller] # None /\ listed[q.caller] \in List
      BY <1>0, <1>1, RequestTypes DEF CachedPolicies, Finished, TypeInv, TypeOK
    <2>2. Backs(Known, q.caller, listed[q.caller])
      BY <2>1 DEF GuardInv, CachesKnown
    <2>3. Backed(Known, WithList(q, listed[q.caller])) /\ Approved(Known, WithList(q, listed[q.caller]))
      BY <1>0, <2>1, <2>2, WithListApproved
    <2>4. Becomes(r, WithList(q, listed[q.caller])) /\ UNCHANGED <<tables, cache, ghosts>>
      BY <1>1 DEF CachedPolicies
    <2> QED
      BY <2>3, <2>4, GuardStep
  <1>2. CASE SelectPolicies(r)
    <2> DEFINE n == [q EXCEPT !.pc = "set", !.ps = Selected(q)]
    <2>1. q.pc = "get" /\ Becomes(r, n) /\ UNCHANGED <<tables, cache>>
      BY <1>0, <1>2, SelectPoliciesFacts
    <2>2. /\ n.pc = "set" /\ n.ps = Selected(q) /\ n.phase = q.phase /\ n.checks = q.checks /\ n.todo = q.todo
          /\ n.caller = q.caller /\ n.super = q.super /\ n.op = q.op /\ n.saw = q.saw /\ n.edit = q.edit
          /\ n.action = q.action /\ n.scope = q.scope
      BY <1>0 DEF Request
    <2> HIDE DEF n
    <2>3. Known \subseteq Known' /\ Backs(Known', q.caller, Selected(q))
      BY <1>2, SelectedIsKnown
    <2>4. Backed(Known', n)
      BY <2>2, <2>3 DEF Backed
    <2>5. HandsOut(n) = HandsOut(q)
      BY <2>2, SameHandsOut
    <2>6. Approved(Known, n)
      BY <1>0, <2>1, <2>2, <2>5, StaysApproved DEF Checking, Finished
    <2>7. Approved(Known', n)
      BY <2>3, <2>6, KnowingMore
    <2>8. RequestsApproved'
      BY <2>1, <2>3, <2>4, <2>7, RequestsStayApproved
    <2>9. TablesKnown'
      BY <2>1, <2>3, TablesStayKnown
    <2>10. \A u \in User : listed'[u] \in {None, listed[u]} /\ granted'[u] \in {None, granted[u]}
      BY <2>1 DEF cache
    <2> QED
      BY <2>3, <2>8, <2>9, <2>10, CachesStayKnown DEF GuardInv
  <1>3. CASE SetPolicies(r)
    <2>1. q.pc = "set" /\ q.ps \in List /\ q.caller \in User
      BY <1>0, <1>3, RequestTypes DEF SetPolicies, Finished
    <2>2. Backs(Known, q.caller, q.ps)
      BY <1>0, <2>1 DEF Backed
    <2>3. Backed(Known, WithList(q, q.ps)) /\ Approved(Known, WithList(q, q.ps))
      BY <1>0, <2>1, <2>2, WithListApproved
    <2>4. Becomes(r, WithList(q, q.ps)) /\ UNCHANGED <<tables, granted, ghosts>>
      BY <1>3 DEF SetPolicies
    <2>5. Known' = Known
      BY <2>4 DEF Known, ghosts
    <2>6. CachesKnown'
      <3>1. listed' = listed \/ listed' = [listed EXCEPT ![q.caller] = q.ps]
        BY <1>3 DEF SetPolicies
      <3>2. ASSUME NEW u \in User, listed'[u] # None PROVE Backs(Known', u, listed'[u])
        BY <1>0, <2>2, <2>5, <3>1, <3>2 DEF GuardInv, CachesKnown, TypeInv, TypeOK
      <3> QED
        BY <2>4, <2>5, <3>2 DEF GuardInv, CachesKnown
    <2> QED
      BY <2>3, <2>4, <2>5, <2>6, TablesStayKnown, RequestsStayApproved DEF GuardInv
  <1>4. CASE CachedPermissions(r)
    <2>1. q.pc = "getGrants" /\ q.caller \in User /\ granted[q.caller] # None
      BY <1>0, <1>4, RequestTypes DEF CachedPermissions, Finished
    <2>2. Backs(Known, q.caller, q.ps) /\ \A g \in granted[q.caller] : <<q.caller, g>> \in Known
      BY <1>0, <2>1 DEF GuardInv, CachesKnown, Backed
    <2>3. Backed(Known, WithGrants(q, granted[q.caller])) /\ Approved(Known, WithGrants(q, granted[q.caller]))
      BY <1>0, <2>1, <2>2, WithGrantsApproved
    <2>4. Becomes(r, WithGrants(q, granted[q.caller])) /\ UNCHANGED <<tables, cache, ghosts>>
      BY <1>4 DEF CachedPermissions
    <2> QED
      BY <2>3, <2>4, GuardStep
  <1>5. CASE SelectPermissions(r)
    <2> DEFINE n == [q EXCEPT !.pc = "setGrants", !.gs = direct[q.caller]]
    <2>1. q.pc = "getGrants" /\ q.caller \in User /\ Becomes(r, n) /\ UNCHANGED <<tables, cache, ghosts>>
      BY <1>0, <1>5, RequestTypes DEF SelectPermissions, Finished
    <2>2. /\ n.pc = "setGrants" /\ n.ps = q.ps /\ n.gs = direct[q.caller] /\ n.phase = q.phase
          /\ n.checks = q.checks /\ n.todo = q.todo
          /\ n.caller = q.caller /\ n.super = q.super /\ n.op = q.op /\ n.saw = q.saw /\ n.edit = q.edit
          /\ n.action = q.action /\ n.scope = q.scope
      BY <1>0 DEF Request
    <2> HIDE DEF n
    <2>3. \A g \in direct[q.caller] : <<q.caller, g>> \in Known
      BY <1>0, <2>1, EffectiveFacts DEF GuardInv, TablesKnown
    <2>4. Backed(Known, n)
      BY <1>0, <2>1, <2>2, <2>3 DEF Backed
    <2>5. HandsOut(n) = HandsOut(q)
      BY <2>2, SameHandsOut
    <2>6. Approved(Known, n)
      BY <1>0, <2>1, <2>2, <2>5, StaysApproved DEF Checking, Finished
    <2> QED
      BY <2>1, <2>4, <2>6, GuardStep
  <1>6. CASE SetPermissions(r)
    <2>1. q.pc = "setGrants" /\ q.caller \in User
      BY <1>0, <1>6, RequestTypes DEF SetPermissions, Finished
    <2>2. Backs(Known, q.caller, q.ps) /\ \A g \in q.gs : <<q.caller, g>> \in Known
      BY <1>0, <2>1 DEF Backed
    <2>3. Backed(Known, WithGrants(q, q.gs)) /\ Approved(Known, WithGrants(q, q.gs))
      BY <1>0, <2>1, <2>2, WithGrantsApproved
    <2>4. Becomes(r, WithGrants(q, q.gs)) /\ UNCHANGED <<tables, listed, ghosts>>
      BY <1>6 DEF SetPermissions
    <2>5. Known' = Known
      BY <2>4 DEF Known, ghosts
    <2>6. CachesKnown'
      <3>1. granted' = granted \/ granted' = [granted EXCEPT ![q.caller] = q.gs]
        BY <1>6 DEF SetPermissions
      <3>2. ASSUME NEW u \in User, granted'[u] # None PROVE \A g \in granted'[u] : <<u, g>> \in Known'
        BY <1>0, <2>2, <2>5, <3>1, <3>2 DEF GuardInv, CachesKnown, TypeInv, TypeOK
      <3> QED
        BY <2>4, <2>5, <3>2 DEF GuardInv, CachesKnown
    <2> QED
      BY <2>3, <2>4, <2>5, <2>6, TablesStayKnown, RequestsStayApproved DEF GuardInv
  <1>7. CASE Respond(r)
    <2>1. Backed(Known, NoReq) /\ Approved(Known, NoReq)
      BY FinishedApproved DEF NoReq, Finished
    <2>2. Becomes(r, NoReq) /\ UNCHANGED <<tables, cache, ghosts>>
      BY <1>7 DEF Respond, Ends
    <2> QED
      BY <2>1, <2>2, GuardStep
  <1> QED
    BY <1>1, <1>2, <1>3, <1>4, <1>5, <1>6, <1>7 DEF Authorises


LEMMA ExpiresApproved ==
  ASSUME GuardInv, TypeInv', NEW u \in User, ExpirePolicies(u) \/ ExpirePermissions(u) PROVE GuardInv'
  <1>1. UNCHANGED <<tables, req, ghosts>>
    BY DEF ExpirePolicies, ExpirePermissions
  <1>2. Known' = Known
    BY <1>1 DEF Known, ghosts
  <1>3. \A v \in User : listed'[v] \in {None, listed[v]} /\ granted'[v] \in {None, granted[v]}
    BY DEF ExpirePolicies, ExpirePermissions, GuardInv, TypeInv, TypeOK
  <1>4. RequestsApproved'
    BY <1>1, <1>2 DEF GuardInv, RequestsApproved
  <1> QED
    BY <1>1, <1>2, <1>3, <1>4, TablesStayKnown, CachesStayKnown DEF GuardInv

LEMMA NextGuardInv == GuardInv /\ [Next]_vars => GuardInv'
  <1> SUFFICES ASSUME GuardInv, [Next]_vars PROVE GuardInv'
    OBVIOUS
  <1>1. TypeInv'
    BY NextTypeInv DEF GuardInv
  <1>2. CASE UNCHANGED vars
    <2>1. UNCHANGED <<tables, cache, req, ghosts>>
      BY <1>2 DEF vars, tables, cache, ghosts
    <2>2. Known' = Known
      BY <2>1 DEF Known, ghosts
    <2>3. \A v \in User : listed'[v] \in {None, listed[v]} /\ granted'[v] \in {None, granted[v]}
      BY <2>1 DEF cache
    <2>4. RequestsApproved'
      BY <2>1, <2>2 DEF GuardInv, RequestsApproved
    <2> QED
      BY <1>1, <2>1, <2>2, <2>3, <2>4, TablesStayKnown, CachesStayKnown DEF GuardInv
  <1>3. ASSUME NEW r \in Req, Arrives(r) \/ Serve(r) PROVE GuardInv'
    BY <1>1, <1>3, ArrivesApproved, AuthorisesApproved, PreparesApproved, AppliesApproved DEF Serve
  <1> QED
    BY <1>1, <1>2, <1>3, ExpiresApproved DEF Next

\* A request that commits has had every question answered: what it hands out, its
\* caller has had the use of under no more conditions, or is credited with by a
\* policy the request loaded before it changed, or holds system_superuser.  It
\* holds for any number of requests, whatever the caches contain while the guard
\* runs and however the commands to Valkey fail (assert_authorized_to_grant).
THEOREM GrantsWithinOwn == Spec => GrantsStayWithinOwn
  <1>1. ASSUME GuardInv, NEW r \in Req, req[r].pc = "apply", ~req[r].super, NEW a \in HandsOut(req[r]).actions
        PROVE  Had(req[r].caller, a, HandsOut(req[r]).scope)
    <2>1. Approved(Known, req[r]) /\ ~Pending(req[r], a) /\ req[r].pc \notin Finished
      BY <1>1 DEF GuardInv, RequestsApproved, Pending, Checking, Finished
    <2> QED
      BY <1>1, <2>1 DEF Approved, Had, Known
  <1>2. GuardInv =>
          [\A r \in Req :
             req[r].pc = "apply" /\ req'[r].pc # "apply" /\ ~req[r].super =>
               \A a \in HandsOut(req[r]).actions : Had(req[r].caller, a, HandsOut(req[r]).scope)]_vars
    BY <1>1
  <1> QED
    BY <1>2, InitGuardInv, NextGuardInv, PTL DEF Spec, GrantsStayWithinOwn
=============================================================================
