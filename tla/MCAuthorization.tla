--------------------------- MODULE MCAuthorization ---------------------------
(* Instances of Authorization for TLC.  root is the system account and holds  *)
(* system_superuser (S).  alice may manage, and holds the app-owned action x  *)
(* only under condition c.                                                    *)
EXTENDS Authorization

CONSTANTS root, alice, S, P, Q, m, x, c

Defined(actions, scope, active) == [actions |-> actions, scope |-> scope, active |-> active]

Granted(action, scope) == [action |-> action, scope |-> scope]

MCHeld == {<<root, S>>, <<alice, P>>}

AliceHas(grants) == [u \in {root, alice} |-> IF u = alice THEN grants ELSE {}]

-----------------------------------------------------------------------------
(* P is switched off, Q does not exist yet.                                   *)

MCPolicy ==
    [p \in {S, P, Q} |->
        CASE p = S -> Defined({m}, {}, TRUE)
          [] p = P -> Defined({x}, {c}, FALSE)
          [] p = Q -> None]

MCDirect == AliceHas({Granted(m, {}), Granted(x, {c})})

\* Every request comes from where c holds.
MCContexts == {{c}}

\* Switched on with another action, switched off.
MCEdits == {Defined({m}, {}, TRUE), Defined(None, None, FALSE)}

\* Two changes that race, or one with a command that fails.
MCBounds == {[writes |-> 2, faults |-> 0], [writes |-> 1, faults |-> 1]}

-----------------------------------------------------------------------------
(* For the claims: both policies are in use, c holds for some requests only.  *)

ClaimPolicy ==
    [p \in {S, P, Q} |->
        CASE p = S -> Defined({m}, {}, TRUE)
          [] p = P -> Defined({m, x}, {c}, TRUE)
          [] p = Q -> Defined({m}, {c}, FALSE)]

\* What P grants and nothing else.
ClaimDirect == AliceHas({})

ClaimContexts == {{}, {c}}

\* Only the actions, only the conditions, only the switch.
ClaimEdits == {Defined({m, x}, None, None), Defined(None, {}, None), Defined(None, None, TRUE)}

\* No key fails to be written or deleted.
ClaimBounds == {[writes |-> 2, faults |-> 0]}

-----------------------------------------------------------------------------
(* For HandsOutOnlyHeld: root takes x out of P, and gives P to alice, while   *)
(* alice is handing out P.                                                    *)

LoadedPolicy ==
    [p \in {S, P} |-> IF p = S THEN Defined({m, x}, {}, TRUE) ELSE Defined({x}, {}, TRUE)]

LoadedHeld == {<<root, S>>}

LoadedDirect == AliceHas({Granted(m, {})})

LoadedContexts == {{}}

LoadedEdits == {Defined({m}, None, None)}

LoadedBounds == {[writes |-> 3, faults |-> 0]}
=============================================================================
