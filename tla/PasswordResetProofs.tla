------------------------ MODULE PasswordResetProofs ------------------------
(***************************************************************************)
(* Proofs about PasswordReset, for every number of requests, links,        *)
(* passwords and attempts, whatever faults and stalls occur.               *)
(***************************************************************************)
EXTENDS PasswordReset, TLAPS

\* A confirmation works on a link that has been issued.
LinkInUse ==
    \A r \in Req : req[r].pc \in Mutating \cup {"lock_check", "reserve"} =>
        req[r].link \in Link /\ req[r].link <= issued

TypeInv == TypeOK /\ LinkInUse

LEMMA GotoFacts ==
  ASSUME req \in [Req -> Request], NEW r \in Req, NEW pc \in Pc, Goto(r, pc)
  PROVE  /\ req' \in [Req -> Request]
         /\ \A q \in Req \ {r} : req'[q] = req[q]
         /\ req'[r].pc = pc
         /\ req'[r].link = req[r].link
         /\ req'[r].pw = req[r].pw
         /\ req'[r].write = req[r].write
  BY DEF Goto, Request

LEMMA FinishFacts ==
  ASSUME req \in [Req -> Request], NEW r \in Req, Finish(r)
  PROVE  /\ req' \in [Req -> Request]
         /\ \A q \in Req \ {r} : req'[q] = req[q]
         /\ req'[r].pc = "idle"
         /\ req'[r].write = 0
  BY PasswordAssumption DEF Finish, Request, NoReq, Pc

LEMMA BeginFacts ==
  ASSUME req \in [Req -> Request], NEW r \in Req, NEW pc \in {"lock_check", "verify"},
         NEW l \in Link \cup {NoLink}, NEW p \in Password,
         req' = [req EXCEPT ![r] = [pc |-> pc, link |-> l, pw |-> p, write |-> 0]]
  PROVE  /\ req' \in [Req -> Request]
         /\ \A q \in Req \ {r} : req'[q] = req[q]
         /\ req'[r].pc = pc
         /\ req'[r].link = l
         /\ req'[r].write = 0
  BY DEF Request, Pc

LEMMA WriteFacts ==
  ASSUME req \in [Req -> Request], writes \in Nat, NEW r \in Req,
         req' = [req EXCEPT ![r] = [@ EXCEPT !.pc = "revoke", !.write = writes + 1]]
  PROVE  /\ req' \in [Req -> Request]
         /\ \A q \in Req \ {r} : req'[q] = req[q]
         /\ req'[r].pc = "revoke"
         /\ req'[r].link = req[r].link
         /\ req'[r].write = writes + 1
  <1> DEFINE new == [req[r] EXCEPT !.pc = "revoke", !.write = writes + 1]
  <1>1. req' = [req EXCEPT ![r] = new]
    BY DEF Request
  <1>2. writes + 1 \in Nat /\ "revoke" \in Pc
    BY DEF Pc, Reserving, Mutating
  <1>3. new \in Request /\ new.pc = "revoke" /\ new.link = req[r].link /\ new.write = writes + 1
    BY <1>2 DEF Request
  <1> HIDE DEF new
  <1> QED
    BY <1>1, <1>3

LEMMA RedeemFacts ==
  ASSUME redeemed \in [Link -> Nat], NEW l \in Link, redeemed' = [redeemed EXCEPT ![l] = @ + 1]
  PROVE  /\ redeemed' \in [Link -> Nat]
         /\ redeemed'[l] = redeemed[l] + 1
         /\ \A k \in Link \ {l} : redeemed'[k] = redeemed[k]
  OBVIOUS
-----------------------------------------------------------------------------
(* Types *)

LEMMA InitTypeInv == Init => TypeInv
  BY BoundAssumption, PasswordAssumption
  DEF Init, TypeInv, TypeOK, LinkInUse, Mutating, Reserving, Request, NoReq, Pc, NoLink

LEMMA NextTypeInv == TypeInv /\ [Next]_vars => TypeInv'
  <1> SUFFICES ASSUME TypeInv, [Next]_vars PROVE TypeInv'
    OBVIOUS
  <1> USE DEF Pc, Reserving, Mutating
  <1>1. ASSUME SendResetEmail
        PROVE  TypeInv'
    <2>1. TypeOK'
      BY <1>1, BoundAssumption
      DEF SendResetEmail, TypeInv, TypeOK, LinkInUse, Link, NoLink, link, guard, account, history
    <2>2. LinkInUse'
      BY <1>1
      DEF SendResetEmail, TypeInv, TypeOK, LinkInUse, Link, NoLink, link, guard, account, history
    <2> QED
      BY <2>1, <2>2 DEF TypeInv
  <1>2. ASSUME NEW r \in Req, NEW l \in Link, NEW p \in Password, BeginConfirm(r, l, p)
        PROVE  TypeInv'
    <2>1. TypeOK'
      BY <1>2, BeginFacts, BoundAssumption
      DEF BeginConfirm, At, TypeInv, TypeOK, LinkInUse, Link, NoLink, link, guard, account, history
    <2>2. LinkInUse'
      BY <1>2, BeginFacts
      DEF BeginConfirm, At, TypeInv, TypeOK, LinkInUse, Link, NoLink, link, guard, account, history
    <2> QED
      BY <2>1, <2>2 DEF TypeInv
  <1>3. ASSUME NEW r \in Req, NEW p \in Password, BeginLogin(r, p)
        PROVE  TypeInv'
    <2>1. TypeOK'
      BY <1>3, BeginFacts, BoundAssumption
      DEF BeginLogin, At, TypeInv, TypeOK, LinkInUse, Link, NoLink, link, guard, account, history
    <2>2. LinkInUse'
      BY <1>3, BeginFacts
      DEF BeginLogin, At, TypeInv, TypeOK, LinkInUse, Link, NoLink, link, guard, account, history
    <2> QED
      BY <2>1, <2>2 DEF TypeInv
  <1>4. ASSUME NEW r \in Req, LockCheck(r)
        PROVE  TypeInv'
    <2>1. TypeOK'
      BY <1>4, GotoFacts, FinishFacts, BoundAssumption
      DEF LockCheck, At, TypeInv, TypeOK, LinkInUse, Link, NoLink, link, guard, account, history
    <2>2. LinkInUse'
      BY <1>4, GotoFacts, FinishFacts
      DEF LockCheck, At, TypeInv, TypeOK, LinkInUse, Link, NoLink, link, guard, account, history
    <2> QED
      BY <2>1, <2>2 DEF TypeInv
  <1>5. ASSUME NEW r \in Req, Reserve(r)
        PROVE  TypeInv'
    <2>1. TypeOK'
      BY <1>5, GotoFacts, FinishFacts, BoundAssumption
      DEF Reserve, At, TypeInv, TypeOK, LinkInUse, Link, NoLink, link, guard, account, history
    <2>2. LinkInUse'
      BY <1>5, GotoFacts, FinishFacts
      DEF Reserve, At, TypeInv, TypeOK, LinkInUse, Link, NoLink, link, guard, account, history
    <2> QED
      BY <2>1, <2>2 DEF TypeInv
  <1>6. ASSUME NEW r \in Req, ReserveFails(r)
        PROVE  TypeInv'
    <2>1. TypeOK'
      BY <1>6, FinishFacts, BoundAssumption
      DEF ReserveFails, At, TypeInv, TypeOK, LinkInUse, Link, NoLink, link, guard, account, history
    <2>2. LinkInUse'
      BY <1>6, FinishFacts
      DEF ReserveFails, At, TypeInv, TypeOK, LinkInUse, Link, NoLink, link, guard, account, history
    <2> QED
      BY <2>1, <2>2 DEF TypeInv
  <1>7. ASSUME NEW r \in Req, ConsumeLink(r)
        PROVE  TypeInv'
    <2>1. TypeOK'
      BY <1>7, GotoFacts, BoundAssumption
      DEF ConsumeLink, At, TypeInv, TypeOK, LinkInUse, Link, NoLink, link, guard, account, history
    <2>2. LinkInUse'
      BY <1>7, GotoFacts
      DEF ConsumeLink, At, TypeInv, TypeOK, LinkInUse, Link, NoLink, link, guard, account, history
    <2> QED
      BY <2>1, <2>2 DEF TypeInv
  <1>8. ASSUME NEW r \in Req, ConsumeFails(r)
        PROVE  TypeInv'
    <2>1. TypeOK'
      BY <1>8, GotoFacts, BoundAssumption
      DEF ConsumeFails, At, TypeInv, TypeOK, LinkInUse, Link, NoLink, link, guard, account, history
    <2>2. LinkInUse'
      BY <1>8, GotoFacts
      DEF ConsumeFails, At, TypeInv, TypeOK, LinkInUse, Link, NoLink, link, guard, account, history
    <2> QED
      BY <2>1, <2>2 DEF TypeInv
  <1>9. ASSUME NEW r \in Req, LookUpUser(r)
        PROVE  TypeInv'
    <2>1. TypeOK'
      BY <1>9, GotoFacts, BoundAssumption
      DEF LookUpUser, At, TypeInv, TypeOK, LinkInUse, Link, NoLink, link, guard, account, history
    <2>2. LinkInUse'
      BY <1>9, GotoFacts
      DEF LookUpUser, At, TypeInv, TypeOK, LinkInUse, Link, NoLink, link, guard, account, history
    <2> QED
      BY <2>1, <2>2 DEF TypeInv
  <1>10. ASSUME NEW r \in Req, Overload(r)
         PROVE  TypeInv'
    <2>1. TypeOK'
      BY <1>10, GotoFacts, BoundAssumption
      DEF Overload, At, TypeInv, TypeOK, LinkInUse, Link, NoLink, link, guard, account, history
    <2>2. LinkInUse'
      BY <1>10, GotoFacts
      DEF Overload, At, TypeInv, TypeOK, LinkInUse, Link, NoLink, link, guard, account, history
    <2> QED
      BY <2>1, <2>2 DEF TypeInv
  <1>11. ASSUME NEW r \in Req, WritePassword(r)
         PROVE  TypeInv'
    <2>1. TypeOK'
      <3>1. req[r].link \in Link /\ req[r].pw \in Password
        BY <1>11 DEF WritePassword, At, TypeInv, TypeOK, LinkInUse, Request
      <3>2. redeemed' \in [Link -> Nat]
        BY <1>11, <3>1, RedeemFacts DEF WritePassword, TypeInv, TypeOK
      <3>3. req' \in [Req -> Request]
        BY <1>11, WriteFacts DEF WritePassword, TypeInv, TypeOK
      <3> QED
        BY <1>11, <3>1, <3>2, <3>3 DEF WritePassword, TypeInv, TypeOK, link, guard
    <2>2. LinkInUse'
      <3>1. /\ \A q \in Req \ {r} : req'[q] = req[q]
            /\ req'[r].link = req[r].link
        BY <1>11, WriteFacts DEF WritePassword, TypeInv, TypeOK
      <3> QED
        BY <1>11, <3>1 DEF WritePassword, At, TypeInv, TypeOK, LinkInUse, link
    <2> QED
      BY <2>1, <2>2 DEF TypeInv
  <1>12. ASSUME NEW r \in Req, DatabaseFails(r)
         PROVE  TypeInv'
    <2>1. TypeOK'
      <3>1. req[r].link \in Link /\ req[r].pw \in Password
        BY <1>12 DEF DatabaseFails, At, TypeInv, TypeOK, LinkInUse, Request
      <3>2. redeemed' \in [Link -> Nat]
        BY <1>12, <3>1, RedeemFacts DEF DatabaseFails, TypeInv, TypeOK
      <3>3. req' \in [Req -> Request]
        BY <1>12, GotoFacts DEF DatabaseFails, TypeInv, TypeOK
      <3> QED
        BY <1>12, <3>1, <3>2, <3>3 DEF DatabaseFails, TypeInv, TypeOK, link, guard
    <2>2. LinkInUse'
      BY <1>12, GotoFacts, RedeemFacts
      DEF DatabaseFails, At, TypeInv, TypeOK, LinkInUse, Link, NoLink, link, guard, account, history
    <2> QED
      BY <2>1, <2>2 DEF TypeInv
  <1>13. ASSUME NEW r \in Req, RevokeSessions(r)
         PROVE  TypeInv'
    <2>1. TypeOK'
      <3>1. req[r].write \in Nat
        BY DEF TypeInv, TypeOK, Request
      <3>2. confirmed' \in Nat /\ accountVer' \in Nat
        BY <1>13, <3>1 DEF RevokeSessions, TypeInv, TypeOK
      <3>3. req' \in [Req -> Request]
        BY <1>13, GotoFacts DEF RevokeSessions, TypeInv, TypeOK
      <3> QED
        BY <1>13, <3>2, <3>3 DEF RevokeSessions, TypeInv, TypeOK, link, guard
    <2>2. LinkInUse'
      BY <1>13, GotoFacts
      DEF RevokeSessions, At, TypeInv, TypeOK, LinkInUse, Link, NoLink, link, guard, account, history
    <2> QED
      BY <2>1, <2>2 DEF TypeInv
  <1>14. ASSUME NEW r \in Req, RestoreLink(r)
         PROVE  TypeInv'
    <2>1. TypeOK'
      BY <1>14, GotoFacts, BoundAssumption
      DEF RestoreLink, At, TypeInv, TypeOK, LinkInUse, Link, NoLink, link, guard, account, history
    <2>2. LinkInUse'
      BY <1>14, GotoFacts
      DEF RestoreLink, At, TypeInv, TypeOK, LinkInUse, Link, NoLink, link, guard, account, history
    <2> QED
      BY <2>1, <2>2 DEF TypeInv
  <1>15. ASSUME NEW r \in Req, FinishAction(r)
         PROVE  TypeInv'
    <2>1. TypeOK'
      BY <1>15, GotoFacts, BoundAssumption
      DEF FinishAction, At, TypeInv, TypeOK, LinkInUse, Link, NoLink, link, guard, account, history
    <2>2. LinkInUse'
      BY <1>15, GotoFacts
      DEF FinishAction, At, TypeInv, TypeOK, LinkInUse, Link, NoLink, link, guard, account, history
    <2> QED
      BY <2>1, <2>2 DEF TypeInv
  <1>16. ASSUME NEW r \in Req, Release(r)
         PROVE  TypeInv'
    <2>1. TypeOK'
      BY <1>16, GotoFacts, BoundAssumption
      DEF Release, At, TypeInv, TypeOK, LinkInUse, Link, NoLink, link, guard, account, history
    <2>2. LinkInUse'
      BY <1>16, GotoFacts
      DEF Release, At, TypeInv, TypeOK, LinkInUse, Link, NoLink, link, guard, account, history
    <2> QED
      BY <2>1, <2>2 DEF TypeInv
  <1>17. ASSUME NEW r \in Req, FinalRelease(r)
         PROVE  TypeInv'
    <2>1. TypeOK'
      BY <1>17, FinishFacts, BoundAssumption
      DEF FinalRelease, At, TypeInv, TypeOK, LinkInUse, Link, NoLink, link, guard, account, history
    <2>2. LinkInUse'
      BY <1>17, FinishFacts
      DEF FinalRelease, At, TypeInv, TypeOK, LinkInUse, Link, NoLink, link, guard, account, history
    <2> QED
      BY <2>1, <2>2 DEF TypeInv
  <1>18. ASSUME NEW r \in Req, LoginVerify(r)
         PROVE  TypeInv'
    <2>1. TypeOK'
      BY <1>18, GotoFacts, FinishFacts, BoundAssumption
      DEF LoginVerify, At, TypeInv, TypeOK, LinkInUse, Link, NoLink, link, guard, account, history
    <2>2. LinkInUse'
      BY <1>18, GotoFacts, FinishFacts
      DEF LoginVerify, At, TypeInv, TypeOK, LinkInUse, Link, NoLink, link, guard, account, history
    <2> QED
      BY <2>1, <2>2 DEF TypeInv
  <1>19. ASSUME NEW r \in Req, LoginMint(r)
         PROVE  TypeInv'
    <2>1. TypeOK'
      BY <1>19, FinishFacts, BoundAssumption
      DEF LoginMint, At, TypeInv, TypeOK, LinkInUse, Link, NoLink, link, guard, account, history
    <2>2. LinkInUse'
      BY <1>19, FinishFacts
      DEF LoginMint, At, TypeInv, TypeOK, LinkInUse, Link, NoLink, link, guard, account, history
    <2> QED
      BY <2>1, <2>2 DEF TypeInv
  <1>20. ASSUME JwtExpires
         PROVE  TypeInv'
    <2>1. TypeOK'
      BY <1>20, BoundAssumption
      DEF JwtExpires, TypeInv, TypeOK, LinkInUse, Link, NoLink, link, guard, account, history
    <2>2. LinkInUse'
      BY <1>20
      DEF JwtExpires, TypeInv, TypeOK, LinkInUse, Link, NoLink, link, guard, account, history
    <2> QED
      BY <2>1, <2>2 DEF TypeInv
  <1>21. ASSUME NEW l \in Link, KeysExpire(l)
         PROVE  TypeInv'
    <2>1. TypeOK'
      BY <1>21, BoundAssumption
      DEF KeysExpire, TypeInv, TypeOK, LinkInUse, Link, NoLink, link, guard, account, history
    <2>2. LinkInUse'
      BY <1>21
      DEF KeysExpire, TypeInv, TypeOK, LinkInUse, Link, NoLink, link, guard, account, history
    <2> QED
      BY <2>1, <2>2 DEF TypeInv
  <1>22. ASSUME ReservationLapses
         PROVE  TypeInv'
    <2>1. TypeOK'
      BY <1>22, BoundAssumption
      DEF ReservationLapses, TypeInv, TypeOK, LinkInUse, Link, NoLink, link, guard, account, history
    <2>2. LinkInUse'
      BY <1>22
      DEF ReservationLapses, TypeInv, TypeOK, LinkInUse, Link, NoLink, link, guard, account, history
    <2> QED
      BY <2>1, <2>2 DEF TypeInv
  <1>23. ASSUME LockoutEnds
         PROVE  TypeInv'
    <2>1. TypeOK'
      BY <1>23, BoundAssumption
      DEF LockoutEnds, TypeInv, TypeOK, LinkInUse, Link, NoLink, link, guard, account, history
    <2>2. LinkInUse'
      BY <1>23
      DEF LockoutEnds, TypeInv, TypeOK, LinkInUse, Link, NoLink, link, guard, account, history
    <2> QED
      BY <2>1, <2>2 DEF TypeInv
  <1>24. CASE UNCHANGED vars
    BY <1>24 DEF vars, TypeInv, TypeOK, LinkInUse
  <1> QED
    BY <1>1, <1>2, <1>3, <1>4, <1>5, <1>6, <1>7, <1>8, <1>9, <1>10, <1>11, <1>12, <1>13, <1>14, <1>15, <1>16, <1>17, <1>18, <1>19, <1>20, <1>21, <1>22, <1>23, <1>24 DEF Next, Serve

\* The state of the reset flow stays well typed.
THEOREM ResetTypeCorrect == Spec => []TypeOK
  <1>1. TypeInv => TypeOK
    BY DEF TypeInv
  <1> QED
    BY <1>1, InitTypeInv, NextTypeInv, PTL DEF Spec
-----------------------------------------------------------------------------
(* Links *)

Holding == {"lookup", "write", "restore", "restore_raise"}

\* Who may still use a link: the request that consumed it, or whoever redeems
\* its marker next, and neither once the password has been written through it.
Exclusive ==
    /\ \A r \in Req : req[r].pc \in Holding =>
           req[r].link \notin marker /\ redeemed[req[r].link] = 0
    /\ \A q, r \in Req : q # r /\ req[q].pc \in Holding /\ req[r].pc \in Holding =>
           req[q].link # req[r].link
    /\ \A l \in marker : l <= issued /\ redeemed[l] = 0
    /\ \A l \in Link : redeemed[l] <= 1 /\ (l > issued => redeemed[l] = 0)

LinkInv == TypeInv /\ Exclusive

LEMMA InitLinkInv == Init => LinkInv
  BY InitTypeInv DEF Init, LinkInv, Exclusive, Holding, NoReq

LEMMA NextLinkInv == LinkInv /\ [Next]_vars => LinkInv'
  <1> SUFFICES ASSUME LinkInv, [Next]_vars PROVE Exclusive'
    BY NextTypeInv DEF LinkInv
  <1>0. TypeOK /\ LinkInUse /\ Exclusive /\ TypeInv'
    BY NextTypeInv DEF LinkInv, TypeInv
  <1> USE DEF Holding
  <1>1. ASSUME SendResetEmail
        PROVE  Exclusive'
    <2>1. issued + 1 \in Link /\ redeemed[issued + 1] = 0 /\ issued \in Nat
      BY <1>0, <1>1, BoundAssumption DEF SendResetEmail, TypeOK, Exclusive, Link
    <2>2. \A r \in Req : req[r].pc \in Holding => req[r].link \in Link /\ req[r].link <= issued
      BY <1>0 DEF LinkInUse, Mutating
    <2>3. /\ issued' = issued + 1 /\ marker' = marker \cup {issued + 1}
          /\ UNCHANGED <<req, redeemed>>
      BY <1>1 DEF SendResetEmail, history
    <2>4. \A l \in Link : l \in Nat
      BY BoundAssumption DEF Link
    <2>5. \A l \in marker' : l <= issued' /\ redeemed'[l] = 0
      BY <1>0, <2>1, <2>3, <2>4 DEF TypeOK, Exclusive
    <2>6. \A r \in Req : req[r].pc \in Holding => req[r].link # issued + 1
      BY <2>1, <2>2, <2>4
    <2> QED
      BY <1>0, <2>1, <2>3, <2>4, <2>5, <2>6 DEF Exclusive
  <1>2. ASSUME NEW r \in Req, NEW l \in Link, NEW p \in Password, BeginConfirm(r, l, p)
        PROVE  Exclusive'
    BY <1>0, <1>2, BeginFacts
    DEF BeginConfirm, At, TypeOK, LinkInUse, Exclusive, Redeemable, Pc, Reserving, Mutating, link, guard, account, history
  <1>3. ASSUME NEW r \in Req, NEW p \in Password, BeginLogin(r, p)
        PROVE  Exclusive'
    BY <1>0, <1>3, BeginFacts
    DEF BeginLogin, At, TypeOK, LinkInUse, Exclusive, Redeemable, Pc, Reserving, Mutating, link, guard, account, history
  <1>4. ASSUME NEW r \in Req, LockCheck(r)
        PROVE  Exclusive'
    BY <1>0, <1>4, GotoFacts, FinishFacts
    DEF LockCheck, At, TypeOK, LinkInUse, Exclusive, Redeemable, Pc, Reserving, Mutating, link, guard, account, history
  <1>5. ASSUME NEW r \in Req, Reserve(r)
        PROVE  Exclusive'
    BY <1>0, <1>5, GotoFacts, FinishFacts
    DEF Reserve, At, TypeOK, LinkInUse, Exclusive, Redeemable, Pc, Reserving, Mutating, link, guard, account, history
  <1>6. ASSUME NEW r \in Req, ReserveFails(r)
        PROVE  Exclusive'
    BY <1>0, <1>6, FinishFacts
    DEF ReserveFails, At, TypeOK, LinkInUse, Exclusive, Redeemable, Pc, Reserving, Mutating, link, guard, account, history
  <1>7. ASSUME NEW r \in Req, ConsumeLink(r)
        PROVE  Exclusive'
    BY <1>0, <1>7, GotoFacts
    DEF ConsumeLink, At, TypeOK, LinkInUse, Exclusive, Redeemable, Pc, Reserving, Mutating, link, guard, account, history
  <1>8. ASSUME NEW r \in Req, ConsumeFails(r)
        PROVE  Exclusive'
    BY <1>0, <1>8, GotoFacts
    DEF ConsumeFails, At, TypeOK, LinkInUse, Exclusive, Redeemable, Pc, Reserving, Mutating, link, guard, account, history
  <1>9. ASSUME NEW r \in Req, LookUpUser(r)
        PROVE  Exclusive'
    BY <1>0, <1>9, GotoFacts
    DEF LookUpUser, At, TypeOK, LinkInUse, Exclusive, Redeemable, Pc, Reserving, Mutating, link, guard, account, history
  <1>10. ASSUME NEW r \in Req, Overload(r)
         PROVE  Exclusive'
    BY <1>0, <1>10, GotoFacts
    DEF Overload, At, TypeOK, LinkInUse, Exclusive, Redeemable, Pc, Reserving, Mutating, link, guard, account, history
  <1>11. ASSUME NEW r \in Req, WritePassword(r)
         PROVE  Exclusive'
    <2>1. req[r].link \in Link /\ req[r].link <= issued /\ req[r].pc \in Holding
      BY <1>0, <1>11 DEF WritePassword, At, LinkInUse, Mutating
    <2>2. /\ \A q \in Req \ {r} : req'[q] = req[q]
          /\ req'[r].pc = "revoke"
      BY <1>0, <1>11, WriteFacts DEF WritePassword, TypeOK
    <2>3. /\ redeemed'[req[r].link] = redeemed[req[r].link] + 1
          /\ \A k \in Link \ {req[r].link} : redeemed'[k] = redeemed[k]
      BY <1>0, <1>11, <2>1, RedeemFacts DEF WritePassword, TypeOK
    <2>4. /\ redeemed[req[r].link] = 0 /\ req[r].link \notin marker
          /\ UNCHANGED <<marker, issued>>
      BY <1>0, <1>11, <2>1 DEF WritePassword, Exclusive, link
    <2>5. \A q \in Req \ {r} : req[q].pc \in Holding => req[q].link \in Link \ {req[r].link}
      BY <1>0, <2>1 DEF LinkInUse, Exclusive, Mutating
    <2>6. \A l \in marker : l \in Link \ {req[r].link}
      BY <1>0, <2>4 DEF TypeOK
    <2>7. ASSUME NEW l \in Link
          PROVE  redeemed'[l] <= 1 /\ (l > issued => redeemed'[l] = 0)
      <3>1. issued \in Nat /\ Link \subseteq Nat
        BY <1>0, BoundAssumption DEF TypeOK, Link
      <3>2. CASE l = req[r].link
        BY <2>1, <2>3, <2>4, <3>1, <3>2
      <3>3. CASE l # req[r].link
        BY <1>0, <2>3, <3>3 DEF Exclusive
      <3> QED
        BY <3>2, <3>3
    <2>8. req'[r].pc \notin Holding
      BY <2>2
    <2>9. \A k \in Link \ {req[r].link} : redeemed'[k] = redeemed[k]
      BY <2>3
    <2> QED
      BY <1>0, <2>2, <2>4, <2>5, <2>6, <2>7, <2>8, <2>9 DEF Exclusive
  <1>12. ASSUME NEW r \in Req, DatabaseFails(r)
         PROVE  Exclusive'
    <2>1. req[r].link \in Link /\ req[r].link <= issued /\ req[r].pc \in Holding
      BY <1>0, <1>12 DEF DatabaseFails, At, LinkInUse, Mutating
    <2>2. /\ \A q \in Req \ {r} : req'[q] = req[q]
          /\ req'[r].pc = "finish_fail"
      BY <1>0, <1>12, GotoFacts DEF DatabaseFails, TypeOK, Pc, Reserving
    <2>3. \/ redeemed' = redeemed
          \/ /\ redeemed'[req[r].link] = redeemed[req[r].link] + 1
             /\ \A k \in Link \ {req[r].link} : redeemed'[k] = redeemed[k]
      BY <1>0, <1>12, <2>1, RedeemFacts DEF DatabaseFails, TypeOK
    <2>4. /\ redeemed[req[r].link] = 0 /\ req[r].link \notin marker
          /\ UNCHANGED <<marker, issued>>
      BY <1>0, <1>12, <2>1 DEF DatabaseFails, Exclusive, link
    <2>5. \A q \in Req \ {r} : req[q].pc \in Holding => req[q].link \in Link \ {req[r].link}
      BY <1>0, <2>1 DEF LinkInUse, Exclusive, Mutating
    <2>6. \A l \in marker : l \in Link \ {req[r].link}
      BY <1>0, <2>4 DEF TypeOK
    <2>7. ASSUME NEW l \in Link
          PROVE  redeemed'[l] <= 1 /\ (l > issued => redeemed'[l] = 0)
      <3>1. issued \in Nat /\ Link \subseteq Nat
        BY <1>0, BoundAssumption DEF TypeOK, Link
      <3>2. CASE l = req[r].link
        BY <2>1, <2>3, <2>4, <3>1, <3>2
      <3>3. CASE l # req[r].link
        BY <1>0, <2>3, <3>3 DEF Exclusive
      <3> QED
        BY <3>2, <3>3
    <2>8. req'[r].pc \notin Holding
      BY <2>2
    <2>9. \A k \in Link \ {req[r].link} : redeemed'[k] = redeemed[k]
      BY <2>3
    <2> QED
      BY <1>0, <2>2, <2>4, <2>5, <2>6, <2>7, <2>8, <2>9 DEF Exclusive
  <1>13. ASSUME NEW r \in Req, RevokeSessions(r)
         PROVE  Exclusive'
    BY <1>0, <1>13, GotoFacts
    DEF RevokeSessions, At, TypeOK, LinkInUse, Exclusive, Redeemable, Pc, Reserving, Mutating, link, guard, account, history
  <1>14. ASSUME NEW r \in Req, RestoreLink(r)
         PROVE  Exclusive'
    BY <1>0, <1>14, GotoFacts
    DEF RestoreLink, At, TypeOK, LinkInUse, Exclusive, Redeemable, Pc, Reserving, Mutating, link, guard, account, history
  <1>15. ASSUME NEW r \in Req, FinishAction(r)
         PROVE  Exclusive'
    BY <1>0, <1>15, GotoFacts
    DEF FinishAction, At, TypeOK, LinkInUse, Exclusive, Redeemable, Pc, Reserving, Mutating, link, guard, account, history
  <1>16. ASSUME NEW r \in Req, Release(r)
         PROVE  Exclusive'
    BY <1>0, <1>16, GotoFacts
    DEF Release, At, TypeOK, LinkInUse, Exclusive, Redeemable, Pc, Reserving, Mutating, link, guard, account, history
  <1>17. ASSUME NEW r \in Req, FinalRelease(r)
         PROVE  Exclusive'
    BY <1>0, <1>17, FinishFacts
    DEF FinalRelease, At, TypeOK, LinkInUse, Exclusive, Redeemable, Pc, Reserving, Mutating, link, guard, account, history
  <1>18. ASSUME NEW r \in Req, LoginVerify(r)
         PROVE  Exclusive'
    BY <1>0, <1>18, GotoFacts, FinishFacts
    DEF LoginVerify, At, TypeOK, LinkInUse, Exclusive, Redeemable, Pc, Reserving, Mutating, link, guard, account, history
  <1>19. ASSUME NEW r \in Req, LoginMint(r)
         PROVE  Exclusive'
    BY <1>0, <1>19, FinishFacts
    DEF LoginMint, At, TypeOK, LinkInUse, Exclusive, Redeemable, Pc, Reserving, Mutating, link, guard, account, history
  <1>20. ASSUME JwtExpires
         PROVE  Exclusive'
    BY <1>0, <1>20
    DEF JwtExpires, TypeOK, LinkInUse, Exclusive, Redeemable, Pc, Reserving, Mutating, link, guard, account, history
  <1>21. ASSUME NEW l \in Link, KeysExpire(l)
         PROVE  Exclusive'
    BY <1>0, <1>21
    DEF KeysExpire, TypeOK, LinkInUse, Exclusive, Redeemable, Pc, Reserving, Mutating, link, guard, account, history
  <1>22. ASSUME ReservationLapses
         PROVE  Exclusive'
    BY <1>0, <1>22
    DEF ReservationLapses, TypeOK, LinkInUse, Exclusive, Redeemable, Pc, Reserving, Mutating, link, guard, account, history
  <1>23. ASSUME LockoutEnds
         PROVE  Exclusive'
    BY <1>0, <1>23
    DEF LockoutEnds, TypeOK, LinkInUse, Exclusive, Redeemable, Pc, Reserving, Mutating, link, guard, account, history
  <1>24. CASE UNCHANGED vars
    BY <1>0, <1>24 DEF vars, Exclusive
  <1> QED
    BY <1>1, <1>2, <1>3, <1>4, <1>5, <1>6, <1>7, <1>8, <1>9, <1>10, <1>11, <1>12, <1>13, <1>14, <1>15, <1>16, <1>17, <1>18, <1>19, <1>20, <1>21, <1>22, <1>23, <1>24 DEF Next, Serve

\* One link writes the password at most once.
THEOREM LinksAreSingleUse == Spec => []LinkRedeemedOnce
  <1>1. LinkInv => LinkRedeemedOnce
    BY DEF LinkInv, Exclusive, LinkRedeemedOnce, Redeemable
  <1> QED
    BY <1>1, InitLinkInv, NextLinkInv, PTL DEF Spec
-----------------------------------------------------------------------------
(* Sessions *)

\* Versions only grow, and a session carries one that existed.
SessionHistory ==
    /\ confirmed <= writes
    /\ \A r \in Req : req[r].write <= writes
    /\ \A s \in sessions : s.ver <= accountVer /\ s.write <= writes
    /\ \A s \in sessions : s.write < confirmed => s.ver < accountVer

SessionInv == TypeInv /\ SessionHistory

LEMMA InitSessionInv == Init => SessionInv
  BY InitTypeInv DEF Init, SessionInv, SessionHistory, NoReq

LEMMA NextSessionInv == SessionInv /\ [Next]_vars => SessionInv'
  <1> SUFFICES ASSUME SessionInv, [Next]_vars PROVE SessionHistory'
    BY NextTypeInv DEF SessionInv
  <1>0. TypeOK /\ SessionHistory /\ \A r \in Req : req[r].write \in Nat
    BY DEF SessionInv, TypeInv, TypeOK, Request
  <1>1. ASSUME SendResetEmail
        PROVE  SessionHistory'
    BY <1>0, <1>1
    DEF SendResetEmail, TypeOK, SessionHistory, Pc, Reserving, Mutating, link, guard, account, history
  <1>2. ASSUME NEW r \in Req, NEW l \in Link, NEW p \in Password, BeginConfirm(r, l, p)
        PROVE  SessionHistory'
    BY <1>0, <1>2, BeginFacts
    DEF BeginConfirm, At, TypeOK, SessionHistory, Pc, Reserving, Mutating, link, guard, account, history
  <1>3. ASSUME NEW r \in Req, NEW p \in Password, BeginLogin(r, p)
        PROVE  SessionHistory'
    BY <1>0, <1>3, BeginFacts
    DEF BeginLogin, At, TypeOK, SessionHistory, Pc, Reserving, Mutating, link, guard, account, history
  <1>4. ASSUME NEW r \in Req, LockCheck(r)
        PROVE  SessionHistory'
    BY <1>0, <1>4, GotoFacts, FinishFacts
    DEF LockCheck, At, TypeOK, SessionHistory, Pc, Reserving, Mutating, link, guard, account, history
  <1>5. ASSUME NEW r \in Req, Reserve(r)
        PROVE  SessionHistory'
    BY <1>0, <1>5, GotoFacts, FinishFacts
    DEF Reserve, At, TypeOK, SessionHistory, Pc, Reserving, Mutating, link, guard, account, history
  <1>6. ASSUME NEW r \in Req, ReserveFails(r)
        PROVE  SessionHistory'
    BY <1>0, <1>6, FinishFacts
    DEF ReserveFails, At, TypeOK, SessionHistory, Pc, Reserving, Mutating, link, guard, account, history
  <1>7. ASSUME NEW r \in Req, ConsumeLink(r)
        PROVE  SessionHistory'
    BY <1>0, <1>7, GotoFacts
    DEF ConsumeLink, At, TypeOK, SessionHistory, Pc, Reserving, Mutating, link, guard, account, history
  <1>8. ASSUME NEW r \in Req, ConsumeFails(r)
        PROVE  SessionHistory'
    BY <1>0, <1>8, GotoFacts
    DEF ConsumeFails, At, TypeOK, SessionHistory, Pc, Reserving, Mutating, link, guard, account, history
  <1>9. ASSUME NEW r \in Req, LookUpUser(r)
        PROVE  SessionHistory'
    BY <1>0, <1>9, GotoFacts
    DEF LookUpUser, At, TypeOK, SessionHistory, Pc, Reserving, Mutating, link, guard, account, history
  <1>10. ASSUME NEW r \in Req, Overload(r)
         PROVE  SessionHistory'
    BY <1>0, <1>10, GotoFacts
    DEF Overload, At, TypeOK, SessionHistory, Pc, Reserving, Mutating, link, guard, account, history
  <1>11. ASSUME NEW r \in Req, WritePassword(r)
         PROVE  SessionHistory'
    <2>1. /\ \A q \in Req \ {r} : req'[q] = req[q]
          /\ req'[r].write = writes + 1
      BY <1>0, <1>11, WriteFacts DEF WritePassword, TypeOK
    <2> QED
      BY <1>0, <1>11, <2>1 DEF WritePassword, TypeOK, SessionHistory
  <1>12. ASSUME NEW r \in Req, DatabaseFails(r)
         PROVE  SessionHistory'
    BY <1>0, <1>12, GotoFacts, RedeemFacts
    DEF DatabaseFails, At, TypeOK, SessionHistory, Pc, Reserving, Mutating, link, guard, account, history
  <1>13. ASSUME NEW r \in Req, RevokeSessions(r)
         PROVE  SessionHistory'
    BY <1>0, <1>13, GotoFacts
    DEF RevokeSessions, At, TypeOK, SessionHistory, Pc, Reserving, Mutating, link, guard, account, history
  <1>14. ASSUME NEW r \in Req, RestoreLink(r)
         PROVE  SessionHistory'
    BY <1>0, <1>14, GotoFacts
    DEF RestoreLink, At, TypeOK, SessionHistory, Pc, Reserving, Mutating, link, guard, account, history
  <1>15. ASSUME NEW r \in Req, FinishAction(r)
         PROVE  SessionHistory'
    BY <1>0, <1>15, GotoFacts
    DEF FinishAction, At, TypeOK, SessionHistory, Pc, Reserving, Mutating, link, guard, account, history
  <1>16. ASSUME NEW r \in Req, Release(r)
         PROVE  SessionHistory'
    BY <1>0, <1>16, GotoFacts
    DEF Release, At, TypeOK, SessionHistory, Pc, Reserving, Mutating, link, guard, account, history
  <1>17. ASSUME NEW r \in Req, FinalRelease(r)
         PROVE  SessionHistory'
    BY <1>0, <1>17, FinishFacts
    DEF FinalRelease, At, TypeOK, SessionHistory, Pc, Reserving, Mutating, link, guard, account, history
  <1>18. ASSUME NEW r \in Req, LoginVerify(r)
         PROVE  SessionHistory'
    BY <1>0, <1>18, GotoFacts, FinishFacts
    DEF LoginVerify, At, TypeOK, SessionHistory, Pc, Reserving, Mutating, link, guard, account, history
  <1>19. ASSUME NEW r \in Req, LoginMint(r)
         PROVE  SessionHistory'
    BY <1>0, <1>19, FinishFacts
    DEF LoginMint, At, TypeOK, SessionHistory, Pc, Reserving, Mutating, link, guard, account, history
  <1>20. ASSUME JwtExpires
         PROVE  SessionHistory'
    BY <1>0, <1>20
    DEF JwtExpires, TypeOK, SessionHistory, Pc, Reserving, Mutating, link, guard, account, history
  <1>21. ASSUME NEW l \in Link, KeysExpire(l)
         PROVE  SessionHistory'
    BY <1>0, <1>21
    DEF KeysExpire, TypeOK, SessionHistory, Pc, Reserving, Mutating, link, guard, account, history
  <1>22. ASSUME ReservationLapses
         PROVE  SessionHistory'
    BY <1>0, <1>22
    DEF ReservationLapses, TypeOK, SessionHistory, Pc, Reserving, Mutating, link, guard, account, history
  <1>23. ASSUME LockoutEnds
         PROVE  SessionHistory'
    BY <1>0, <1>23
    DEF LockoutEnds, TypeOK, SessionHistory, Pc, Reserving, Mutating, link, guard, account, history
  <1>24. CASE UNCHANGED vars
    BY <1>0, <1>24 DEF vars, SessionHistory
  <1> QED
    BY <1>1, <1>2, <1>3, <1>4, <1>5, <1>6, <1>7, <1>8, <1>9, <1>10, <1>11, <1>12, <1>13, <1>14, <1>15, <1>16, <1>17, <1>18, <1>19, <1>20, <1>21, <1>22, <1>23, <1>24 DEF Next, Serve

\* A confirmed reset has ended every session older than its password.
THEOREM ConfirmedResetsEndSessions == Spec => []ResetEndsOlderSessions
  <1>1. SessionInv => ResetEndsOlderSessions
    BY DEF SessionInv, SessionHistory, ResetEndsOlderSessions, TypeInv, TypeOK
  <1> QED
    BY <1>1, InitSessionInv, NextSessionInv, PTL DEF Spec
=============================================================================
