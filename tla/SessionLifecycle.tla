-------------------------- MODULE SessionLifecycle --------------------------
(***************************************************************************)
(* What the token core promises about a login session, whatever tokens are *)
(* rotated underneath: it is started once by a sign-in, it may be ended at *)
(* any moment (together with others, for an account-wide revocation), and  *)
(* an ended session is final.  Only a password change, where the run or    *)
(* the theorem admits one, may renew the session it was made from.         *)
(***************************************************************************)
CONSTANTS Chain, Renewal

VARIABLE session

Init == session = [c \in Chain |-> "none"]

SignIn(c) ==
    /\ session[c] = "none"
    /\ session' = [session EXCEPT ![c] = "live"]

End(C) ==
    /\ \A c \in C : session[c] = "live"
    /\ session' = [c \in Chain |-> IF c \in C THEN "ended" ELSE session[c]]

Renew(c) ==
    /\ Renewal
    /\ session[c] = "ended"
    /\ session' = [session EXCEPT ![c] = "live"]

Next ==
    \/ \E c \in Chain : SignIn(c) \/ Renew(c)
    \/ \E C \in SUBSET Chain : End(C)

Spec == Init /\ [][Next]_session
=============================================================================
