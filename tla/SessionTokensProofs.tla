------------------------- MODULE SessionTokensProofs -------------------------
(***************************************************************************)
(* Proofs about SessionTokens, for every number of users, chains, tokens   *)
(* and concurrent requests.                                                *)
(***************************************************************************)
EXTENDS SessionTokens, TLAPS

RefreshPc == {"check", "claim", "duplicate", "recheck"}
RowPc     == {"create_row", "find_row", "move_row", "row_error"}

\* A request in flight works on a real chain, a refresh on a token of that
\* chain; a request that updates session rows has minted its token.
ReqOK ==
    \A r \in Req :
        /\ req[r].pc # "idle" => req[r].chain \in Chain
        /\ req[r].pc \in RefreshPc =>
               /\ req[r].jti \in Minted
               /\ req[r].chain = tok[req[r].jti].chain
               /\ req[r].ip \in IP
        /\ req[r].pc \in RowPc => req[r].new \in Minted
        /\ req[r].pc = "move_row" => req[r].row \in Jti

\* Rows and clients only ever name tokens that were minted.
NamesOK ==
    /\ \A i \in Jti : rows[i] # None => rows[i] \in Minted
    /\ delivered \subseteq Minted

TypeInv == TypeOK /\ ReqOK /\ NamesOK

LEMMA InitTypeInv == Init => TypeInv
  BY NoneAssumption
  DEF Init, TypeInv, TypeOK, Token, Claim, Request, ReqOK, NamesOK, Minted, NoToken, NoClaim, NoReq, Pc,
      Operation, RefreshPc, RowPc

LEMMA GotoFacts ==
  ASSUME req \in [Req -> Request], NEW r \in Req, NEW pc \in Pc, Goto(r, pc)
  PROVE  /\ req' \in [Req -> Request]
         /\ \A q \in Req \ {r} : req'[q] = req[q]
         /\ req'[r].pc = pc
         /\ req'[r].op = req[r].op
         /\ req'[r].jti = req[r].jti
         /\ req'[r].chain = req[r].chain
         /\ req'[r].new = req[r].new
         /\ req'[r].row = req[r].row
         /\ req'[r].ip = req[r].ip
  BY DEF Goto, Request

LEMMA FinishFacts ==
  ASSUME req \in [Req -> Request], NEW r \in Req, Finish(r)
  PROVE  /\ req' \in [Req -> Request]
         /\ \A q \in Req \ {r} : req'[q] = req[q]
         /\ req'[r].pc = "idle"
         /\ req'[r].op = "none"
         /\ req'[r].chain = None
  BY DEF Finish, Request, NoReq, Operation, Pc

\* A mint hands its token to its request.
Hands(r, n, pc) == req' = [req EXCEPT ![r] = [@ EXCEPT !.new = n, !.pc = pc]]

LEMMA MintedFacts ==
  ASSUME req \in [Req -> Request], NEW r \in Req, NEW n \in Jti, NEW pc \in Pc, Hands(r, n, pc)
  PROVE  /\ req' \in [Req -> Request]
         /\ \A q \in Req \ {r} : req'[q] = req[q]
         /\ req'[r].pc = pc
         /\ req'[r].new = n
         /\ req'[r].op = req[r].op
         /\ req'[r].jti = req[r].jti
         /\ req'[r].chain = req[r].chain
  <1> DEFINE new == [req[r] EXCEPT !.new = n, !.pc = pc]
  <1>1. req' = [req EXCEPT ![r] = new]
    BY DEF Hands
  <1>2. /\ new \in Request /\ new.pc = pc /\ new.new = n /\ new.op = req[r].op
        /\ new.jti = req[r].jti /\ new.chain = req[r].chain
    BY DEF Request
  <1> HIDE DEF new
  <1> QED
    BY <1>1, <1>2

LEMMA FoundFacts ==
  ASSUME req \in [Req -> Request], NEW r \in Req, NEW i \in Jti,
         req' = [req EXCEPT ![r] = [@ EXCEPT !.row = i, !.pc = "move_row"]]
  PROVE  /\ req' \in [Req -> Request]
         /\ \A q \in Req \ {r} : req'[q] = req[q]
         /\ req'[r].pc = "move_row"
         /\ req'[r].row = i
         /\ req'[r].op = req[r].op
         /\ req'[r].jti = req[r].jti
         /\ req'[r].chain = req[r].chain
         /\ req'[r].new = req[r].new
  <1> DEFINE new == [req[r] EXCEPT !.row = i, !.pc = "move_row"]
  <1>1. req' = [req EXCEPT ![r] = new]
    OBVIOUS
  <1>2. "move_row" \in Pc
    BY DEF Pc
  <1>3. /\ new \in Request /\ new.pc = "move_row" /\ new.row = i /\ new.op = req[r].op
        /\ new.jti = req[r].jti /\ new.chain = req[r].chain /\ new.new = req[r].new
    BY <1>2 DEF Request
  <1> HIDE DEF new
  <1> QED
    BY <1>1, <1>3

LEMMA FindRowFacts ==
  ASSUME req \in [Req -> Request], NEW r \in Req, FindRow(r)
  PROVE  /\ req' \in [Req -> Request]
         /\ \A q \in Req \ {r} : req'[q] = req[q]
         /\ req'[r].pc \in {"move_row", "create_row", "row_error"}
         /\ req'[r].pc = "move_row" => req'[r].row \in Jti
         /\ req'[r].op = req[r].op
         /\ req'[r].jti = req[r].jti
         /\ req'[r].chain = req[r].chain
         /\ req'[r].new = req[r].new
  <1>1. ASSUME NEW i \in RowsFor(r), req' = [req EXCEPT ![r] = [@ EXCEPT !.row = i, !.pc = "move_row"]]
        PROVE  /\ req' \in [Req -> Request]
               /\ \A q \in Req \ {r} : req'[q] = req[q]
               /\ req'[r].pc = "move_row" /\ req'[r].row = i /\ i \in Jti
               /\ req'[r].op = req[r].op /\ req'[r].jti = req[r].jti
               /\ req'[r].chain = req[r].chain /\ req'[r].new = req[r].new
    <2>1. i \in Jti
      BY DEF RowsFor, RowsOfChain
    <2> QED
      BY <1>1, <2>1, FoundFacts
  <1>2. CASE \E i \in RowsFor(r) : req' = [req EXCEPT ![r] = [@ EXCEPT !.row = i, !.pc = "move_row"]]
    BY <1>1, <1>2
  <1>3. CASE Goto(r, "create_row") \/ Goto(r, "row_error")
    BY <1>3, GotoFacts DEF Pc
  <1> QED
    BY <1>2, <1>3 DEF FindRow

LEMMA ClaimFacts ==
  ASSUME claim \in [Jti -> Claim], NEW j \in Jti, NEW ip \in IP \cup {None}, NEW age \in {"fresh", "late"},
         claim' = [claim EXCEPT ![j] = [ip |-> ip, age |-> age]]
  PROVE  /\ claim' \in [Jti -> Claim]
         /\ claim'[j].ip = ip
         /\ \A k \in Jti \ {j} : claim'[k] = claim[k]
  BY DEF Claim

LEMMA GraceFacts ==
  ASSUME claim \in [Jti -> Claim], NEW j \in Jti, claim' = [claim EXCEPT ![j].age = "late"]
  PROVE  /\ claim' \in [Jti -> Claim]
         /\ \A k \in Jti : claim'[k].ip = claim[k].ip
  <1>1. /\ [claim[j] EXCEPT !.age = "late"] \in Claim
        /\ [claim[j] EXCEPT !.age = "late"].ip = claim[j].ip
    BY DEF Claim
  <1>2. claim' = [claim EXCEPT ![j] = [claim[j] EXCEPT !.age = "late"]]
    OBVIOUS
  <1> QED
    BY <1>1, <1>2 DEF Claim

\* Every version bump, confirmed or not, ends its request or moves it on.
LEMMA BumpStepFacts ==
  ASSUME TypeInv, NEW r \in Req, req[r].pc # "idle",
         accountVer' \in [User -> Nat], chainVer' \in [Chain -> Nat],
         NEW pc \in Pc \ (RefreshPc \cup RowPc), Goto(r, pc) \/ Finish(r),
         UNCHANGED <<tok, delivered, expired, claim, rows, report>>
  PROVE  TypeInv'
  <1>1. req' \in [Req -> Request] /\ \A q \in Req \ {r} : req'[q] = req[q]
    BY GotoFacts, FinishFacts DEF TypeInv, TypeOK
  <1>2. req'[r].pc = "idle" \/ (req'[r].pc = pc /\ req'[r].chain = req[r].chain)
    BY GotoFacts, FinishFacts DEF TypeInv, TypeOK
  <1>3. TypeOK'
    BY <1>1 DEF TypeInv, TypeOK, report
  <1>4. ReqOK'
    BY <1>1, <1>2 DEF TypeInv, ReqOK, Minted, RefreshPc, RowPc
  <1>5. NamesOK'
    BY DEF TypeInv, NamesOK, Minted
  <1> QED
    BY <1>3, <1>4, <1>5 DEF TypeInv

LEMMA BumpTypes ==
  ASSUME TypeOK
  PROVE  /\ \A c \in Chain : BumpChain(c) \/ UNCHANGED store =>
                accountVer' \in [User -> Nat] /\ chainVer' \in [Chain -> Nat]
         /\ \A u \in User : BumpAccount(u) \/ UNCHANGED store =>
                accountVer' \in [User -> Nat] /\ chainVer' \in [Chain -> Nat]
  BY DEF TypeOK, BumpChain, BumpAccount, store

\* Minting gives an unused jti the claims t and hands it to its request.
LEMMA MintKeepsTypes ==
  ASSUME TypeInv, NEW r \in Req, NEW n \in Jti, NEW t \in Token, NEW pc \in {"create_row", "find_row"},
         req[r].pc # "idle", t.chain # None, tok[n].chain = None,
         tok' = [tok EXCEPT ![n] = t], Hands(r, n, pc),
         UNCHANGED <<store, delivered, expired, claim, rows, report>>
  PROVE  TypeInv'
  <1>1. /\ req' \in [Req -> Request]
        /\ \A q \in Req \ {r} : req'[q] = req[q]
        /\ req'[r].pc = pc /\ req'[r].new = n /\ req'[r].chain = req[r].chain
    <2>1. req \in [Req -> Request]
      BY DEF TypeInv, TypeOK
    <2>2. pc \in Pc
      BY DEF Pc
    <2> QED
      BY <2>1, <2>2, MintedFacts
  <1>2. /\ tok' \in [Jti -> Token]
        /\ tok'[n] = t /\ \A j \in Jti \ {n} : tok'[j] = tok[j]
    BY DEF TypeInv, TypeOK
  <1>3. Minted' = Minted \cup {n} /\ \A j \in Minted : tok'[j] = tok[j]
    BY <1>2 DEF Minted
  <1>4. TypeOK'
    BY <1>1, <1>2 DEF TypeInv, TypeOK, store, report
  <1>5. ReqOK'
    <2>1. ASSUME NEW q \in Req \ {r} PROVE ReqOK!(q)'
      BY <1>1, <1>3 DEF TypeInv, ReqOK
    <2>2. ReqOK!(r)'
      BY <1>1, <1>3 DEF TypeInv, ReqOK, RefreshPc
    <2> QED
      BY <2>1, <2>2 DEF ReqOK
  <1>6. NamesOK'
    BY <1>3 DEF TypeInv, NamesOK
  <1> QED
    BY <1>4, <1>5, <1>6 DEF TypeInv

LEMMA NextTypeInv == TypeInv /\ [Next]_vars => TypeInv'
  <1> SUFFICES ASSUME TypeInv, [Next]_vars PROVE TypeInv'
    OBVIOUS
  <1> USE NoneAssumption, OwnerAssumption, OpAssumption
      DEF TypeInv, TypeOK, ReqOK, NamesOK, Minted, RefreshPc, RowPc, store, report, At
  <1>1. ASSUME NEW r \in Req, NEW c \in Chain, BeginLogin(r, c) PROVE TypeInv'
    BY <1>1 DEF BeginLogin, Presentable, Begin, Request, Operation, Pc, Token
  <1>2. ASSUME NEW r \in Req, NEW j \in Jti, NEW ip \in IP, BeginRefresh(r, j, ip) PROVE TypeInv'
    BY <1>2 DEF BeginRefresh, Presentable, Begin, Request, Operation, Pc, Token
  <1>3. ASSUME NEW r \in Req, NEW j \in Jti, BeginLogout(r, j) PROVE TypeInv'
    BY <1>3 DEF BeginLogout, Presentable, Begin, Request, Operation, Pc, Token
  <1>4. ASSUME NEW r \in Req, NEW j \in Jti, BeginLogoutAll(r, j) PROVE TypeInv'
    BY <1>4 DEF BeginLogoutAll, Presentable, Begin, Request, Operation, Pc, Token
  <1>5. ASSUME NEW r \in Req, NEW j \in Jti, BeginPassword(r, j) PROVE TypeInv'
    BY <1>5 DEF BeginPassword, Presentable, Begin, Request, Operation, Pc, Token
  <1>6. ASSUME NEW r \in Req, NEW j \in Jti, NEW i \in Jti, BeginRevoke(r, j, i) PROVE TypeInv'
    BY <1>6 DEF BeginRevoke, Presentable, Begin, Request, Operation, Pc, Token
  <1>7. ASSUME NEW r \in Req, NEW n \in Jti, LoginMint(r, n) PROVE TypeInv'
    <2> DEFINE c == req[r].chain
               t == [chain |-> c, accountVer |-> accountVer[Owner[c]], chainVer |-> chainVer[c],
                     parent |-> None, origin |-> "login"]
    <2>1. req[r].pc # "idle" /\ c \in Chain /\ t \in Token /\ t.chain # None
      BY <1>7 DEF LoginMint, Token
    <2>2. tok[n].chain = None /\ tok' = [tok EXCEPT ![n] = t]
      BY <1>7 DEF LoginMint, MintCurrent
    <2>3. Hands(r, n, "create_row")
      BY <1>7 DEF LoginMint, MintCurrent, Hands
    <2>4. UNCHANGED <<store, delivered, expired, claim, rows, report>>
      BY <1>7 DEF LoginMint
    <2> HIDE DEF t
    <2> QED
      BY <2>1, <2>2, <2>3, <2>4, MintKeepsTypes
  <1>8. ASSUME NEW r \in Req, NEW n \in Jti, RefreshMint(r, n) PROVE TypeInv'
    <2> DEFINE t == [tok[req[r].jti] EXCEPT !.parent = req[r].jti]
    <2>1. req[r].pc # "idle" /\ req[r].jti \in Jti /\ tok[req[r].jti].chain # None
      BY <1>8 DEF RefreshMint
    <2>2. t \in Token /\ t.chain # None
      BY <2>1 DEF Token
    <2>3. tok[n].chain = None /\ tok' = [tok EXCEPT ![n] = t]
      BY <1>8 DEF RefreshMint
    <2>4. Hands(r, n, "find_row")
      BY <1>8 DEF RefreshMint, Hands
    <2>5. UNCHANGED <<store, delivered, expired, claim, rows, report>>
      BY <1>8 DEF RefreshMint
    <2> HIDE DEF t
    <2> QED
      BY <2>1, <2>2, <2>3, <2>4, <2>5, MintKeepsTypes
  <1>9. ASSUME NEW r \in Req, NEW n \in Jti, PasswordMint(r, n) PROVE TypeInv'
    <2> DEFINE c == req[r].chain
               t == [chain |-> c, accountVer |-> accountVer[Owner[c]], chainVer |-> chainVer[c],
                     parent |-> None, origin |-> "password"]
    <2>1. req[r].pc # "idle" /\ c \in Chain /\ t \in Token /\ t.chain # None
      BY <1>9 DEF PasswordMint, Token
    <2>2. tok[n].chain = None /\ tok' = [tok EXCEPT ![n] = t]
      BY <1>9 DEF PasswordMint, MintCurrent
    <2>3. Hands(r, n, "find_row")
      BY <1>9 DEF PasswordMint, MintCurrent, Hands
    <2>4. UNCHANGED <<store, delivered, expired, claim, rows, report>>
      BY <1>9 DEF PasswordMint
    <2> HIDE DEF t
    <2> QED
      BY <2>1, <2>2, <2>3, <2>4, MintKeepsTypes
  <1>10. ASSUME NEW r \in Req, CreateRow(r) PROVE TypeInv'
    BY <1>10, FinishFacts DEF CreateRow, Respond
  <1>11. ASSUME NEW r \in Req, FindRow(r) PROVE TypeInv'
    <2>1. /\ req' \in [Req -> Request]
          /\ \A q \in Req \ {r} : req'[q] = req[q]
          /\ req'[r].pc \in {"move_row", "create_row", "row_error"}
          /\ req'[r].pc = "move_row" => req'[r].row \in Jti
          /\ req'[r].chain = req[r].chain
          /\ req'[r].new = req[r].new
      BY <1>11, FindRowFacts
    <2>2. At(r, "find_row") /\ UNCHANGED <<store, tok, delivered, expired, claim, rows, report>>
      BY <1>11 DEF FindRow
    <2> QED
      BY <2>1, <2>2
  <1>12. ASSUME NEW r \in Req, MoveRow(r) PROVE TypeInv'
    BY <1>12, FinishFacts DEF MoveRow, Respond
  <1>13. ASSUME NEW r \in Req, RowError(r) PROVE TypeInv'
    BY <1>13, FinishFacts DEF RowError, Respond
  <1>14. ASSUME NEW r \in Req, MintUnavailable(r) PROVE TypeInv'
    BY <1>14, FinishFacts DEF MintUnavailable
  <1>15. ASSUME NEW r \in Req, RefreshCheck(r) PROVE TypeInv'
    BY <1>15, GotoFacts, FinishFacts DEF RefreshCheck, Pc
  <1>16. ASSUME NEW r \in Req, RefreshClaim(r) PROVE TypeInv'
    <2>1. claim' \in [Jti -> Claim]
      BY <1>16, ClaimFacts DEF RefreshClaim
    <2>2. \E pc \in {"duplicate", "recheck"} : Goto(r, pc)
      BY <1>16 DEF RefreshClaim
    <2> QED
      BY <1>16, <2>1, <2>2, GotoFacts DEF RefreshClaim, Pc
  <1>17. ASSUME NEW r \in Req, RefreshClaimLost(r) PROVE TypeInv'
    BY <1>17, FinishFacts DEF RefreshClaimLost, Claim, NoClaim
  <1>18. ASSUME NEW r \in Req, RefreshDuplicate(r) PROVE TypeInv'
    BY <1>18, GotoFacts, FinishFacts DEF RefreshDuplicate, Pc
  <1>19. ASSUME NEW r \in Req, ReuseBump(r) PROVE TypeInv'
    <2>1. req[r].chain \in Chain
      BY <1>19 DEF ReuseBump
    <2>2. accountVer' \in [User -> Nat] /\ chainVer' \in [Chain -> Nat]
      BY <1>19, <2>1, BumpTypes DEF ReuseBump, BumpChainUnconfirmed
    <2>3. Goto(r, "reuse_row") \/ Finish(r)
      BY <1>19 DEF ReuseBump
    <2> QED
      BY <1>19, <2>2, <2>3, BumpStepFacts DEF ReuseBump, Pc
  <1>20. ASSUME NEW r \in Req, ReuseRow(r) PROVE TypeInv'
    BY <1>20, FinishFacts DEF ReuseRow, Delete
  <1>21. ASSUME NEW r \in Req, RefreshStale(r) PROVE TypeInv'
    BY <1>21, FinishFacts DEF RefreshStale
  <1>22. ASSUME NEW r \in Req, RefreshUnavailable(r) PROVE TypeInv'
    BY <1>22, FinishFacts DEF RefreshUnavailable
  <1>23. ASSUME NEW r \in Req, LogoutFind(r) PROVE TypeInv'
    BY <1>23, GotoFacts, FinishFacts DEF LogoutFind, ReportLoggedOut, Pc
  <1>24. ASSUME NEW r \in Req, LogoutBump(r) PROVE TypeInv'
    <2>1. req[r].chain \in Chain
      BY <1>24 DEF LogoutBump
    <2>2. accountVer' \in [User -> Nat] /\ chainVer' \in [Chain -> Nat]
      BY <1>24, <2>1, BumpTypes DEF LogoutBump, BumpChainUnconfirmed
    <2>3. Goto(r, "logout_delete") \/ Finish(r)
      BY <1>24 DEF LogoutBump
    <2> QED
      BY <1>24, <2>2, <2>3, BumpStepFacts DEF LogoutBump, Pc
  <1>25. ASSUME NEW r \in Req, LogoutDelete(r) PROVE TypeInv'
    BY <1>25, FinishFacts DEF LogoutDelete, ReportLoggedOut, Delete
  <1>26. ASSUME NEW r \in Req, LogoutAllBump(r) PROVE TypeInv'
    <2>1. req[r].chain \in Chain /\ Owner[req[r].chain] \in User
      BY <1>26 DEF LogoutAllBump
    <2>2. accountVer' \in [User -> Nat] /\ chainVer' \in [Chain -> Nat]
      BY <1>26, <2>1, BumpTypes DEF LogoutAllBump, BumpAccountUnconfirmed
    <2>3. Goto(r, "all_rows") \/ Finish(r)
      BY <1>26 DEF LogoutAllBump
    <2> QED
      BY <1>26, <2>2, <2>3, BumpStepFacts DEF LogoutAllBump, Pc
  <1>27. ASSUME NEW r \in Req, LogoutAllRows(r) PROVE TypeInv'
    BY <1>27, FinishFacts DEF LogoutAllRows, Delete
  <1>28. ASSUME NEW r \in Req, RevokeBump(r) PROVE TypeInv'
    <2>1. req[r].chain \in Chain
      BY <1>28 DEF RevokeBump
    <2>2. accountVer' \in [User -> Nat] /\ chainVer' \in [Chain -> Nat]
      BY <1>28, <2>1, BumpTypes DEF RevokeBump, BumpChainUnconfirmed
    <2>3. Goto(r, "revoke_delete") \/ Finish(r)
      BY <1>28 DEF RevokeBump
    <2> QED
      BY <1>28, <2>2, <2>3, BumpStepFacts DEF RevokeBump, Pc
  <1>29. ASSUME NEW r \in Req, RevokeDelete(r) PROVE TypeInv'
    BY <1>29, FinishFacts DEF RevokeDelete, Delete
  <1>30. ASSUME NEW r \in Req, PasswordBump(r) PROVE TypeInv'
    <2>1. req[r].chain \in Chain /\ Owner[req[r].chain] \in User
      BY <1>30 DEF PasswordBump
    <2>2. accountVer' \in [User -> Nat] /\ chainVer' \in [Chain -> Nat]
      BY <1>30, <2>1, BumpTypes DEF PasswordBump, BumpAccountUnconfirmed
    <2>3. Goto(r, "password_rows") \/ Goto(r, "password_mint")
      BY <1>30 DEF PasswordBump
    <2> QED
      BY <1>30, <2>2, <2>3, BumpStepFacts DEF PasswordBump, Pc
  <1>31. ASSUME NEW r \in Req, PasswordRows(r) PROVE TypeInv'
    BY <1>31, GotoFacts DEF PasswordRows, Delete, Pc
  <1>32. ASSUME NEW j \in Jti, GraceElapses(j) PROVE TypeInv'
    BY <1>32, GraceFacts DEF GraceElapses
  <1>33. ASSUME NEW j \in Jti, Expire(j) PROVE TypeInv'
    BY <1>33 DEF Expire
  <1>34. ASSUME SweepClaims PROVE TypeInv'
    BY <1>34 DEF SweepClaims, Claim, NoClaim
  <1>35. ASSUME SweepRows PROVE TypeInv'
    BY <1>35 DEF SweepRows, Delete
  <1>36. CASE UNCHANGED vars
    BY <1>36 DEF vars
  <1> QED
    BY <1>1, <1>2, <1>3, <1>4, <1>5, <1>6, <1>7, <1>8, <1>9, <1>10, <1>11, <1>12, <1>13, <1>14, <1>15, <1>16, <1>17, <1>18, <1>19, <1>20, <1>21, <1>22, <1>23, <1>24, <1>25, <1>26, <1>27, <1>28, <1>29, <1>30, <1>31, <1>32, <1>33, <1>34, <1>35, <1>36 DEF Next, Arrive, Serve, Time

\* The type invariant of the token core: no request, row or claim ever names
\* a token, chain or address that does not exist.
THEOREM TypeCorrect == Spec => []TypeOK
  <1>1. Init => TypeInv
    BY InitTypeInv
  <1>2. TypeInv /\ [Next]_vars => TypeInv'
    BY NextTypeInv
  <1>3. TypeInv => TypeOK
    BY DEF TypeInv
  <1> QED
    BY <1>1, <1>2, <1>3, PTL DEF Spec
-----------------------------------------------------------------------------
(* What a single step may do to versions, tokens, claims and claim holders. *)

\* Versions only grow, and the claims of a minted token never change.
Monotone ==
    /\ \A u \in User : accountVer'[u] >= accountVer[u]
    /\ \A c \in Chain : chainVer'[c] >= chainVer[c]
    /\ \A j \in Minted : tok'[j] = tok[j]
    /\ expired \subseteq expired'

\* A claim disappears only once its token has expired, and a request comes to
\* hold a claim only by making it.
ClaimStep ==
    /\ \A j \in Jti : Consumed(j) => claim'[j].ip # None \/ j \in expired'
    /\ \A r \in Req : req'[r].pc = "recheck" =>
           /\ req'[r].jti = req[r].jti
           /\ \/ req[r].pc = "recheck"
              \/ /\ ~ Consumed(req[r].jti)
                 /\ claim'[req[r].jti].ip # None
                 /\ \A q \in Req \ {r} : req'[q] = req[q]
                 /\ UNCHANGED tok

LEMMA BumpsGrow ==
  ASSUME TypeOK
  PROVE  /\ \A c \in Chain : BumpChain(c) \/ UNCHANGED store =>
                /\ \A u \in User : accountVer'[u] >= accountVer[u]
                /\ \A d \in Chain : chainVer'[d] >= chainVer[d]
         /\ \A u \in User : BumpAccount(u) \/ UNCHANGED store =>
                /\ \A v \in User : accountVer'[v] >= accountVer[v]
                /\ \A d \in Chain : chainVer'[d] >= chainVer[d]
  BY DEF TypeOK, BumpChain, BumpAccount, store

LEMMA BumpStepGrows ==
  ASSUME TypeInv, NEW r \in Req,
         \A u \in User : accountVer'[u] >= accountVer[u],
         \A c \in Chain : chainVer'[c] >= chainVer[c],
         NEW pc \in Pc \ RefreshPc, Goto(r, pc) \/ Finish(r),
         UNCHANGED <<tok, expired, claim>>
  PROVE  Monotone /\ ClaimStep
  <1>1. \A q \in Req \ {r} : req'[q] = req[q]
    BY GotoFacts, FinishFacts DEF TypeInv, TypeOK
  <1>2. req'[r].pc # "recheck"
    BY GotoFacts, FinishFacts DEF TypeInv, TypeOK, RefreshPc
  <1>3. Monotone
    BY DEF Monotone
  <1>4. ClaimStep
    BY <1>1, <1>2 DEF ClaimStep, Consumed
  <1> QED
    BY <1>3, <1>4

LEMMA StepFacts == TypeInv /\ [Next]_vars => Monotone /\ ClaimStep
  <1> SUFFICES ASSUME TypeInv, [Next]_vars PROVE Monotone /\ ClaimStep
    OBVIOUS
  <1> USE NoneAssumption, OwnerAssumption
      DEF TypeInv, TypeOK, Minted, store, report, At, Monotone, ClaimStep, Consumed
  <1>1. ASSUME NEW r \in Req, NEW c \in Chain, BeginLogin(r, c) PROVE Monotone /\ ClaimStep
    BY <1>1 DEF BeginLogin, Begin
  <1>2. ASSUME NEW r \in Req, NEW j \in Jti, NEW ip \in IP, BeginRefresh(r, j, ip) PROVE Monotone /\ ClaimStep
    BY <1>2 DEF BeginRefresh, Begin
  <1>3. ASSUME NEW r \in Req, NEW j \in Jti, BeginLogout(r, j) PROVE Monotone /\ ClaimStep
    BY <1>3 DEF BeginLogout, Begin
  <1>4. ASSUME NEW r \in Req, NEW j \in Jti, BeginLogoutAll(r, j) PROVE Monotone /\ ClaimStep
    BY <1>4 DEF BeginLogoutAll, Begin
  <1>5. ASSUME NEW r \in Req, NEW j \in Jti, BeginPassword(r, j) PROVE Monotone /\ ClaimStep
    BY <1>5 DEF BeginPassword, Begin
  <1>6. ASSUME NEW r \in Req, NEW j \in Jti, NEW i \in Jti, BeginRevoke(r, j, i) PROVE Monotone /\ ClaimStep
    BY <1>6 DEF BeginRevoke, Begin
  <1>7. ASSUME NEW r \in Req, NEW n \in Jti, LoginMint(r, n) PROVE Monotone /\ ClaimStep
    BY <1>7 DEF LoginMint, Request, MintCurrent
  <1>8. ASSUME NEW r \in Req, NEW n \in Jti, RefreshMint(r, n) PROVE Monotone /\ ClaimStep
    BY <1>8 DEF RefreshMint, Request, Token
  <1>9. ASSUME NEW r \in Req, NEW n \in Jti, PasswordMint(r, n) PROVE Monotone /\ ClaimStep
    BY <1>9 DEF PasswordMint, Request, MintCurrent
  <1>10. ASSUME NEW r \in Req, CreateRow(r) PROVE Monotone /\ ClaimStep
    BY <1>10, FinishFacts DEF CreateRow, Respond
  <1>11. ASSUME NEW r \in Req, FindRow(r) PROVE Monotone /\ ClaimStep
    <2>1. /\ req' \in [Req -> Request]
          /\ \A q \in Req \ {r} : req'[q] = req[q]
          /\ req'[r].pc \in {"move_row", "create_row", "row_error"}
          /\ req'[r].pc = "move_row" => req'[r].row \in Jti
          /\ req'[r].chain = req[r].chain
          /\ req'[r].new = req[r].new
      BY <1>11, FindRowFacts
    <2>2. At(r, "find_row") /\ UNCHANGED <<store, tok, delivered, expired, claim, rows, report>>
      BY <1>11 DEF FindRow
    <2> QED
      BY <2>1, <2>2
  <1>12. ASSUME NEW r \in Req, MoveRow(r) PROVE Monotone /\ ClaimStep
    BY <1>12, FinishFacts DEF MoveRow, Respond
  <1>13. ASSUME NEW r \in Req, RowError(r) PROVE Monotone /\ ClaimStep
    BY <1>13, FinishFacts DEF RowError, Respond
  <1>14. ASSUME NEW r \in Req, MintUnavailable(r) PROVE Monotone /\ ClaimStep
    BY <1>14, FinishFacts DEF MintUnavailable
  <1>15. ASSUME NEW r \in Req, RefreshCheck(r) PROVE Monotone /\ ClaimStep
    BY <1>15, GotoFacts, FinishFacts DEF RefreshCheck, Pc
  <1>16. ASSUME NEW r \in Req, RefreshClaim(r) PROVE Monotone /\ ClaimStep
    <2>1. CASE Consumed(req[r].jti)
      BY <1>16, <2>1, GotoFacts DEF RefreshClaim, Pc
    <2>2. CASE ~ Consumed(req[r].jti)
      <3>1. Goto(r, "recheck") /\ "recheck" \in Pc
        BY <1>16, <2>2 DEF RefreshClaim, Pc
      <3>2. req[r].jti \in Jti /\ req[r].ip \in IP
        BY <1>16 DEF RefreshClaim, ReqOK, RefreshPc
      <3>3. /\ claim'[req[r].jti].ip = req[r].ip
            /\ \A k \in Jti \ {req[r].jti} : claim'[k] = claim[k]
        BY <1>16, <2>2, <3>2, ClaimFacts DEF RefreshClaim
      <3> QED
        BY <1>16, <2>2, <3>1, <3>2, <3>3, GotoFacts DEF RefreshClaim
    <2> QED
      BY <2>1, <2>2
  <1>17. ASSUME NEW r \in Req, RefreshClaimLost(r) PROVE Monotone /\ ClaimStep
    BY <1>17, FinishFacts DEF RefreshClaimLost, ReqOK, RefreshPc, Claim
  <1>18. ASSUME NEW r \in Req, RefreshDuplicate(r) PROVE Monotone /\ ClaimStep
    BY <1>18, GotoFacts, FinishFacts DEF RefreshDuplicate, Pc
  <1>19. ASSUME NEW r \in Req, ReuseBump(r) PROVE Monotone /\ ClaimStep
    <2>1. req[r].chain \in Chain
      BY <1>19 DEF ReuseBump, ReqOK
    <2>2. BumpChain(req[r].chain) \/ UNCHANGED store
      BY <1>19 DEF ReuseBump, BumpChainUnconfirmed
    <2>3. (Goto(r, "reuse_row") \/ Finish(r)) /\ UNCHANGED <<tok, expired, claim>>
      BY <1>19 DEF ReuseBump
    <2>4. /\ \A u \in User : accountVer'[u] >= accountVer[u]
          /\ \A c \in Chain : chainVer'[c] >= chainVer[c]
      BY <2>1, <2>2, BumpsGrow
    <2> QED
      BY <2>3, <2>4, BumpStepGrows DEF Pc, RefreshPc
  <1>20. ASSUME NEW r \in Req, ReuseRow(r) PROVE Monotone /\ ClaimStep
    BY <1>20, FinishFacts DEF ReuseRow
  <1>21. ASSUME NEW r \in Req, RefreshStale(r) PROVE Monotone /\ ClaimStep
    BY <1>21, FinishFacts DEF RefreshStale
  <1>22. ASSUME NEW r \in Req, RefreshUnavailable(r) PROVE Monotone /\ ClaimStep
    BY <1>22, FinishFacts DEF RefreshUnavailable
  <1>23. ASSUME NEW r \in Req, LogoutFind(r) PROVE Monotone /\ ClaimStep
    BY <1>23, GotoFacts, FinishFacts DEF LogoutFind, Pc
  <1>24. ASSUME NEW r \in Req, LogoutBump(r) PROVE Monotone /\ ClaimStep
    <2>1. req[r].chain \in Chain
      BY <1>24 DEF LogoutBump, ReqOK
    <2>2. BumpChain(req[r].chain) \/ UNCHANGED store
      BY <1>24 DEF LogoutBump, BumpChainUnconfirmed
    <2>3. (Goto(r, "logout_delete") \/ Finish(r)) /\ UNCHANGED <<tok, expired, claim>>
      BY <1>24 DEF LogoutBump
    <2>4. /\ \A u \in User : accountVer'[u] >= accountVer[u]
          /\ \A c \in Chain : chainVer'[c] >= chainVer[c]
      BY <2>1, <2>2, BumpsGrow
    <2> QED
      BY <2>3, <2>4, BumpStepGrows DEF Pc, RefreshPc
  <1>25. ASSUME NEW r \in Req, LogoutDelete(r) PROVE Monotone /\ ClaimStep
    BY <1>25, FinishFacts DEF LogoutDelete
  <1>26. ASSUME NEW r \in Req, LogoutAllBump(r) PROVE Monotone /\ ClaimStep
    <2>1. Owner[req[r].chain] \in User
      BY <1>26 DEF LogoutAllBump, ReqOK
    <2>2. BumpAccount(Owner[req[r].chain]) \/ UNCHANGED store
      BY <1>26 DEF LogoutAllBump, BumpAccountUnconfirmed
    <2>3. (Goto(r, "all_rows") \/ Finish(r)) /\ UNCHANGED <<tok, expired, claim>>
      BY <1>26 DEF LogoutAllBump
    <2>4. /\ \A u \in User : accountVer'[u] >= accountVer[u]
          /\ \A c \in Chain : chainVer'[c] >= chainVer[c]
      BY <2>1, <2>2, BumpsGrow
    <2> QED
      BY <2>3, <2>4, BumpStepGrows DEF Pc, RefreshPc
  <1>27. ASSUME NEW r \in Req, LogoutAllRows(r) PROVE Monotone /\ ClaimStep
    BY <1>27, FinishFacts DEF LogoutAllRows
  <1>28. ASSUME NEW r \in Req, RevokeBump(r) PROVE Monotone /\ ClaimStep
    <2>1. req[r].chain \in Chain
      BY <1>28 DEF RevokeBump, ReqOK
    <2>2. BumpChain(req[r].chain) \/ UNCHANGED store
      BY <1>28 DEF RevokeBump, BumpChainUnconfirmed
    <2>3. (Goto(r, "revoke_delete") \/ Finish(r)) /\ UNCHANGED <<tok, expired, claim>>
      BY <1>28 DEF RevokeBump
    <2>4. /\ \A u \in User : accountVer'[u] >= accountVer[u]
          /\ \A c \in Chain : chainVer'[c] >= chainVer[c]
      BY <2>1, <2>2, BumpsGrow
    <2> QED
      BY <2>3, <2>4, BumpStepGrows DEF Pc, RefreshPc
  <1>29. ASSUME NEW r \in Req, RevokeDelete(r) PROVE Monotone /\ ClaimStep
    BY <1>29, FinishFacts DEF RevokeDelete
  <1>30. ASSUME NEW r \in Req, PasswordBump(r) PROVE Monotone /\ ClaimStep
    <2>1. Owner[req[r].chain] \in User
      BY <1>30 DEF PasswordBump, ReqOK
    <2>2. BumpAccount(Owner[req[r].chain]) \/ UNCHANGED store
      BY <1>30 DEF PasswordBump, BumpAccountUnconfirmed
    <2>3. (Goto(r, "password_rows") \/ Goto(r, "password_mint")) /\ UNCHANGED <<tok, expired, claim>>
      BY <1>30 DEF PasswordBump
    <2>4. /\ \A u \in User : accountVer'[u] >= accountVer[u]
          /\ \A c \in Chain : chainVer'[c] >= chainVer[c]
      BY <2>1, <2>2, BumpsGrow
    <2> QED
      BY <2>3, <2>4, BumpStepGrows DEF Pc, RefreshPc
  <1>31. ASSUME NEW r \in Req, PasswordRows(r) PROVE Monotone /\ ClaimStep
    BY <1>31, GotoFacts DEF PasswordRows, Pc
  <1>32. ASSUME NEW j \in Jti, GraceElapses(j) PROVE Monotone /\ ClaimStep
    BY <1>32, GraceFacts DEF GraceElapses
  <1>33. ASSUME NEW j \in Jti, Expire(j) PROVE Monotone /\ ClaimStep
    BY <1>33 DEF Expire
  <1>34. ASSUME SweepClaims PROVE Monotone /\ ClaimStep
    BY <1>34 DEF SweepClaims, NoClaim
  <1>35. ASSUME SweepRows PROVE Monotone /\ ClaimStep
    BY <1>35 DEF SweepRows
  <1>36. CASE UNCHANGED vars
    BY <1>36 DEF vars
  <1> QED
    BY <1>1, <1>2, <1>3, <1>4, <1>5, <1>6, <1>7, <1>8, <1>9, <1>10, <1>11, <1>12, <1>13, <1>14, <1>15, <1>16, <1>17, <1>18, <1>19, <1>20, <1>21, <1>22, <1>23, <1>24, <1>25, <1>26, <1>27, <1>28, <1>29, <1>30, <1>31, <1>32, <1>33, <1>34, <1>35, <1>36 DEF Next, Arrive, Serve, Time

\* Tokens come into being in three places.
MintStep ==
    \E r \in Req, n \in Jti : LoginMint(r, n) \/ RefreshMint(r, n) \/ PasswordMint(r, n)

LEMMA OnlyMintsMint == [Next]_vars => UNCHANGED tok \/ MintStep
  <1> SUFFICES ASSUME [Next]_vars PROVE UNCHANGED tok \/ MintStep
    OBVIOUS
  <1>1. ASSUME NEW r \in Req, Arrive(r) PROVE UNCHANGED tok
    BY <1>1 DEF Arrive, BeginLogin, BeginRefresh, BeginLogout, BeginLogoutAll,
                BeginPassword, BeginRevoke
  <1>2. ASSUME NEW r \in Req, Serve(r), ~ MintStep PROVE UNCHANGED tok
    BY <1>2 DEF Serve, MintStep, CreateRow, FindRow, MoveRow, RowError, MintUnavailable,
                RefreshCheck, RefreshClaim, RefreshClaimLost, RefreshDuplicate, ReuseBump,
                ReuseRow, RefreshStale, RefreshUnavailable, LogoutFind, LogoutBump,
                LogoutDelete, LogoutAllBump, LogoutAllRows, RevokeBump, RevokeDelete,
                PasswordBump, PasswordRows
  <1>3. ASSUME Time PROVE UNCHANGED tok
    BY <1>3 DEF Time, GraceElapses, Expire, SweepClaims, SweepRows
  <1>4. CASE UNCHANGED vars
    BY <1>4 DEF vars
  <1> QED
    BY <1>1, <1>2, <1>3, <1>4 DEF Next

\* A minted token: where its claims come from.
LEMMA MintFacts ==
  ASSUME TypeInv, MintStep
  PROVE  \E r \in Req, n \in Jti :
            /\ tok[n].chain = None
            /\ \A j \in Jti \ {n} : tok'[j] = tok[j]
            /\ tok'[n].chain = req[r].chain
            /\ req[r].chain \in Chain
            /\ UNCHANGED <<store, claim, expired>>
            /\ \A q \in Req \ {r} : req'[q] = req[q]
            /\ req'[r].pc \in {"create_row", "find_row"}
            /\ \/ /\ req[r].pc = "login_mint" \/ req[r].pc = "password_mint"
                  /\ tok'[n].origin = (IF req[r].pc = "login_mint" THEN "login" ELSE "password")
                  /\ tok'[n].accountVer = accountVer[Owner[req[r].chain]]
                  /\ tok'[n].chainVer = chainVer[req[r].chain]
                  /\ tok'[n].parent = None
               \/ /\ req[r].pc = "recheck"
                  /\ req[r].jti \in Minted /\ req[r].jti # n
                  /\ Current(req[r].jti)
                  /\ tok'[n].chain = tok[req[r].jti].chain
                  /\ tok'[n].accountVer = tok[req[r].jti].accountVer
                  /\ tok'[n].chainVer = tok[req[r].jti].chainVer
                  /\ tok'[n].origin = tok[req[r].jti].origin
                  /\ tok'[n].parent = req[r].jti
  <1> USE DEF TypeInv, TypeOK, store, report, At
  <1>1. PICK r \in Req, n \in Jti : LoginMint(r, n) \/ RefreshMint(r, n) \/ PasswordMint(r, n)
    BY DEF MintStep
  <1>2. req[r] \in Request /\ tok[n] \in Token
    OBVIOUS
  <1>3. PICK pc \in {"create_row", "find_row"} : Hands(r, n, pc)
    BY <1>1 DEF LoginMint, PasswordMint, RefreshMint, MintCurrent, Hands
  <1>4. req'[r].pc \in {"create_row", "find_row"} /\ \A q \in Req \ {r} : req'[q] = req[q]
    <2>1. req \in [Req -> Request] /\ pc \in Pc
      BY DEF Pc
    <2>2. req'[r].pc = pc /\ \A q \in Req \ {r} : req'[q] = req[q]
      BY <1>3, <2>1, MintedFacts
    <2> QED
      BY <2>2
  <1>5. /\ UNCHANGED <<store, claim, expired>>
        /\ tok[n].chain = None
        /\ \A j \in Jti \ {n} : tok'[j] = tok[j]
    BY <1>1 DEF LoginMint, PasswordMint, RefreshMint, MintCurrent
  <1>6. CASE LoginMint(r, n) \/ PasswordMint(r, n)
    <2>1. req[r].chain \in Chain
      BY <1>6 DEF LoginMint, PasswordMint, ReqOK
    <2>2. /\ req[r].pc = "login_mint" \/ req[r].pc = "password_mint"
          /\ tok'[n].chain = req[r].chain
          /\ tok'[n].origin = (IF req[r].pc = "login_mint" THEN "login" ELSE "password")
          /\ tok'[n].accountVer = accountVer[Owner[req[r].chain]]
          /\ tok'[n].chainVer = chainVer[req[r].chain]
          /\ tok'[n].parent = None
      BY <1>6 DEF LoginMint, PasswordMint, MintCurrent
    <2> QED
      BY <1>4, <1>5, <2>1, <2>2
  <1>7. CASE RefreshMint(r, n)
    <2>1. req[r].jti \in Minted /\ req[r].chain = tok[req[r].jti].chain /\ req[r].chain \in Chain
      BY <1>7 DEF RefreshMint, ReqOK, RefreshPc
    <2>2. req[r].jti \in Jti /\ req[r].jti # n
      BY <1>7, <2>1, NoneAssumption DEF RefreshMint, Minted
    <2>3. tok[req[r].jti] \in Token
      BY <2>2
    <2>4. /\ req[r].pc = "recheck"
          /\ Current(req[r].jti)
          /\ tok'[n] = [tok[req[r].jti] EXCEPT !.parent = req[r].jti]
      BY <1>7 DEF RefreshMint
    <2>5. /\ tok'[n].chain = tok[req[r].jti].chain
          /\ tok'[n].accountVer = tok[req[r].jti].accountVer
          /\ tok'[n].chainVer = tok[req[r].jti].chainVer
          /\ tok'[n].origin = tok[req[r].jti].origin
          /\ tok'[n].parent = req[r].jti
      BY <2>3, <2>4 DEF Token
    <2> QED
      BY <1>4, <1>5, <2>1, <2>2, <2>4, <2>5
  <1> QED
    BY <1>1, <1>6, <1>7
-----------------------------------------------------------------------------
(* The inductive invariant behind revocation and rotation. *)

\* No token is stamped with a version from the future.
Stamped ==
    \A j \in Minted :
        /\ tok[j].accountVer <= accountVer[Owner[tok[j].chain]]
        /\ tok[j].chainVer <= chainVer[tok[j].chain]

\* A rotated token carries its parent's claims, and its parent is used up.
Lineage ==
    \A j \in Minted : tok[j].parent # None =>
        /\ tok[j].parent \in Minted
        /\ tok[j].chain = tok[tok[j].parent].chain
        /\ tok[j].accountVer = tok[tok[j].parent].accountVer
        /\ tok[j].chainVer = tok[tok[j].parent].chainVer
        /\ Consumed(tok[j].parent) \/ tok[j].parent \in expired

Holder(r, j) == req[r].pc = "recheck" /\ req[r].jti = j

\* Unless the token has expired, the request that holds its claim is the only
\* one, and nothing has been minted from the token yet.
Exclusive ==
    \A r \in Req, j \in Jti : Holder(r, j) /\ j \notin expired =>
        /\ Consumed(j)
        /\ \A q \in Req \ {r} : ~ Holder(q, j)
        /\ \A k \in Minted : tok[k].parent # j

RotationInv == TypeInv /\ Stamped /\ Lineage /\ Exclusive /\ SingleUse

LEMMA InitRotationInv == Init => RotationInv
  <1> SUFFICES ASSUME Init PROVE RotationInv
    OBVIOUS
  <1>1. Minted = {}
    BY DEF Init, Minted, NoToken
  <1>2. \A r \in Req : req[r].pc = "idle"
    BY DEF Init, NoReq
  <1> QED
    BY <1>1, <1>2, InitTypeInv DEF RotationInv, Stamped, Lineage, Exclusive, SingleUse, Holder

\* Steps that mint nothing.
LEMMA QuietStep ==
  ASSUME RotationInv, TypeInv', Monotone, ClaimStep, UNCHANGED tok
  PROVE  RotationInv'
  <1> USE DEF RotationInv, TypeInv, TypeOK
  <1>1. Minted' = Minted /\ Minted \subseteq Jti
    BY DEF Minted
  <1>2. ASSUME NEW j \in Minted PROVE tok[j].chain \in Chain /\ Owner[tok[j].chain] \in User
    BY <1>1, OwnerAssumption DEF Minted, Token
  <1>3. Stamped'
    <2> SUFFICES ASSUME NEW j \in Minted
                 PROVE  /\ tok[j].accountVer <= accountVer'[Owner[tok[j].chain]]
                        /\ tok[j].chainVer <= chainVer'[tok[j].chain]
      BY <1>1 DEF Stamped
    <2>1. /\ accountVer[Owner[tok[j].chain]] \in Nat /\ accountVer'[Owner[tok[j].chain]] \in Nat
          /\ chainVer[tok[j].chain] \in Nat /\ chainVer'[tok[j].chain] \in Nat
          /\ tok[j].accountVer \in Nat /\ tok[j].chainVer \in Nat
      BY <1>1, <1>2 DEF Token
    <2> QED
      BY <1>2, <2>1 DEF Stamped, Monotone
  <1>4. Lineage'
    BY <1>1 DEF Lineage, ClaimStep, Monotone, Consumed
  <1>5. SingleUse'
    BY <1>1 DEF SingleUse, Monotone
  <1>6. Exclusive'
    <2> SUFFICES ASSUME NEW r \in Req, NEW j \in Jti, Holder(r, j)', j \notin expired'
                 PROVE  /\ Consumed(j)'
                        /\ \A q \in Req \ {r} : ~ Holder(q, j)'
                        /\ \A k \in Minted : tok[k].parent # j
      BY <1>1 DEF Exclusive
    <2>1. j \notin expired
      BY DEF Monotone
    <2>2. CASE req[r].pc = "recheck"
      <3>1. Holder(r, j)
        BY <2>2 DEF ClaimStep, Holder
      <3>2. /\ Consumed(j)
            /\ \A q \in Req \ {r} : ~ Holder(q, j)
            /\ \A k \in Minted : tok[k].parent # j
        BY <2>1, <3>1 DEF Exclusive
      <3>3. \A q \in Req \ {r} : ~ Holder(q, j)'
        BY <3>2 DEF ClaimStep, Holder
      <3> QED
        BY <3>2, <3>3 DEF ClaimStep, Consumed
    <2>3. CASE req[r].pc # "recheck"
      <3>1. /\ ~ Consumed(j)
            /\ Consumed(j)'
            /\ \A q \in Req \ {r} : req'[q] = req[q]
        BY <2>3 DEF ClaimStep, Holder, Consumed
      <3>2. \A q \in Req \ {r} : ~ Holder(q, j)
        BY <2>1, <3>1 DEF Exclusive
      <3>3. \A k \in Minted : tok[k].parent # j
        BY <2>1, <3>1, NoneAssumption DEF Lineage
      <3> QED
        BY <3>1, <3>2, <3>3 DEF Holder
    <2> QED
      BY <2>2, <2>3
  <1> QED
    BY <1>3, <1>4, <1>5, <1>6

\* Steps that mint a token.
LEMMA MintingStep ==
  ASSUME RotationInv, TypeInv', MintStep
  PROVE  RotationInv'
  <1> USE DEF RotationInv, TypeInv, TypeOK
  <1>1. PICK r \in Req, n \in Jti :
            /\ tok[n].chain = None
            /\ \A j \in Jti \ {n} : tok'[j] = tok[j]
            /\ tok'[n].chain = req[r].chain
            /\ req[r].chain \in Chain
            /\ UNCHANGED <<store, claim, expired>>
            /\ \A q \in Req \ {r} : req'[q] = req[q]
            /\ req'[r].pc # "recheck"
            /\ \/ /\ tok'[n].accountVer = accountVer[Owner[req[r].chain]]
                  /\ tok'[n].chainVer = chainVer[req[r].chain]
                  /\ tok'[n].parent = None
               \/ /\ req[r].pc = "recheck"
                  /\ req[r].jti \in Minted /\ req[r].jti # n
                  /\ tok'[n].chain = tok[req[r].jti].chain
                  /\ tok'[n].accountVer = tok[req[r].jti].accountVer
                  /\ tok'[n].chainVer = tok[req[r].jti].chainVer
                  /\ tok'[n].parent = req[r].jti
    BY MintFacts
  <1>2. UNCHANGED <<accountVer, chainVer, claim, expired>>
    BY <1>1 DEF store
  <1>3. Minted' = Minted \cup {n} /\ n \notin Minted /\ Minted \subseteq Jti
    BY <1>1, NoneAssumption DEF Minted
  <1>4. \A j \in Minted : tok'[j] = tok[j]
    BY <1>1, <1>3
  <1>5. Owner[req[r].chain] \in User
    BY <1>1, OwnerAssumption
  <1>6. Stamped'
    <2>1. \A j \in Minted : /\ tok'[j].accountVer <= accountVer'[Owner[tok'[j].chain]]
                            /\ tok'[j].chainVer <= chainVer'[tok'[j].chain]
      BY <1>2, <1>4 DEF Stamped
    <2>2. /\ tok'[n].accountVer <= accountVer'[Owner[tok'[n].chain]]
          /\ tok'[n].chainVer <= chainVer'[tok'[n].chain]
      BY <1>1, <1>2, <1>5 DEF Stamped
    <2> QED
      BY <1>3, <2>1, <2>2 DEF Stamped
  \* Only the holder's own child can be new, and an unexpired token has no other.
  <1>7. ASSUME tok'[n].parent # None
        PROVE  /\ Holder(r, tok'[n].parent)
               /\ tok'[n].parent \in Minted
               /\ tok'[n].parent \in expired \/ Consumed(tok'[n].parent)
               /\ tok'[n].parent \in expired \/ \A k \in Minted : tok[k].parent # tok'[n].parent
               /\ tok'[n].parent \in expired \/ \A q \in Req \ {r} : ~ Holder(q, tok'[n].parent)
    BY <1>1, <1>3, <1>7 DEF Exclusive, Holder
  <1>8. Lineage'
    <2>1. ASSUME NEW j \in Minted, tok'[j].parent # None
          PROVE  /\ tok'[j].parent \in Minted'
                 /\ tok'[j].chain = tok'[tok'[j].parent].chain
                 /\ tok'[j].accountVer = tok'[tok'[j].parent].accountVer
                 /\ tok'[j].chainVer = tok'[tok'[j].parent].chainVer
                 /\ claim'[tok'[j].parent].ip # None \/ tok'[j].parent \in expired'
      <3>1. tok'[j] = tok[j] /\ tok[j].parent \in Minted
        BY <1>4, <2>1 DEF Lineage
      <3>2. tok'[tok[j].parent] = tok[tok[j].parent]
        BY <1>4, <3>1
      <3> QED
        BY <1>2, <1>3, <2>1, <3>1, <3>2 DEF Lineage, Consumed
    <2>2. ASSUME tok'[n].parent # None
          PROVE  /\ tok'[n].parent \in Minted'
                 /\ tok'[n].chain = tok'[tok'[n].parent].chain
                 /\ tok'[n].accountVer = tok'[tok'[n].parent].accountVer
                 /\ tok'[n].chainVer = tok'[tok'[n].parent].chainVer
                 /\ claim'[tok'[n].parent].ip # None \/ tok'[n].parent \in expired'
      <3>1. tok'[n].parent \in Minted /\ tok'[tok'[n].parent] = tok[tok'[n].parent]
        BY <1>4, <1>7, <2>2
      <3> QED
        BY <1>1, <1>2, <1>3, <1>7, <2>2, <3>1 DEF Consumed
    <2> QED
      BY <1>3, <2>1, <2>2 DEF Lineage, Consumed
  <1>9. SingleUse'
    <2> SUFFICES ASSUME NEW a \in Minted', NEW b \in Minted', a # b,
                        tok'[a].parent # None, tok'[a].parent = tok'[b].parent
                 PROVE  tok'[a].parent \in expired
      BY <1>2 DEF SingleUse
    <2>1. CASE a = n
      BY <1>3, <1>4, <1>7, <2>1
    <2>2. CASE b = n
      BY <1>3, <1>4, <1>7, <2>2
    <2>3. CASE a # n /\ b # n
      BY <1>3, <1>4, <2>3 DEF SingleUse
    <2> QED
      BY <2>1, <2>2, <2>3
  <1>10. Exclusive'
    <2> SUFFICES ASSUME NEW q \in Req, NEW j \in Jti, Holder(q, j)', j \notin expired
                 PROVE  /\ Consumed(j)
                        /\ \A p \in Req \ {q} : ~ Holder(p, j)'
                        /\ \A k \in Minted' : tok'[k].parent # j
      BY <1>2 DEF Exclusive, Consumed
    <2>1. q # r /\ Holder(q, j)
      BY <1>1 DEF Holder
    <2>2. /\ Consumed(j)
          /\ \A p \in Req \ {q} : ~ Holder(p, j)
          /\ \A k \in Minted : tok[k].parent # j
      BY <2>1 DEF Exclusive
    <2>3. \A p \in Req \ {q} : ~ Holder(p, j)'
      BY <1>1, <2>2 DEF Holder
    <2>4. tok'[n].parent # j
      BY <1>7, <2>1, NoneAssumption
    <2> QED
      BY <1>3, <1>4, <2>2, <2>3, <2>4
  <1> QED
    BY <1>6, <1>8, <1>9, <1>10

LEMMA NextRotationInv == RotationInv /\ [Next]_vars => RotationInv'
  BY NextTypeInv, StepFacts, OnlyMintsMint, QuietStep, MintingStep DEF RotationInv

LEMMA RotationInvariant == Spec => []RotationInv
  BY InitRotationInv, NextRotationInv, PTL DEF Spec

\* Rotation is single-use for any number of concurrent requests: the unique
\* claim of claim_jti_for_rotation leaves one request that may mint.
THEOREM RotationIsSingleUse == Spec => []SingleUse
  <1>1. RotationInv => SingleUse
    BY DEF RotationInv
  <1> QED
    BY <1>1, RotationInvariant, PTL

\* A child is never accepted once its parent has been revoked.
THEOREM ChildrenDieWithParents == Spec => []ChildDiesWithParent
  <1>1. RotationInv => ChildDiesWithParent
    BY DEF RotationInv, Lineage, ChildDiesWithParent, Current, Minted
  <1> QED
    BY <1>1, RotationInvariant, PTL

LEMMA StaysRevoked ==
  ASSUME RotationInv, [Next]_vars, NEW j \in Minted, Current(j)'
  PROVE  Current(j)
  <1> USE DEF RotationInv, TypeInv, TypeOK
  <1>1. Monotone /\ TypeInv'
    BY StepFacts, NextTypeInv
  <1>2. tok'[j] = tok[j] /\ tok[j].chain \in Chain /\ Owner[tok[j].chain] \in User /\ tok[j].chain # None
    BY <1>1, OwnerAssumption DEF Monotone, Minted, Token
  <1>3. /\ accountVer[Owner[tok[j].chain]] \in Nat /\ accountVer'[Owner[tok[j].chain]] \in Nat
        /\ chainVer[tok[j].chain] \in Nat /\ chainVer'[tok[j].chain] \in Nat
        /\ tok[j].accountVer \in Nat /\ tok[j].chainVer \in Nat
    BY <1>1, <1>2 DEF Token, Minted
  <1>4. /\ tok[j].accountVer = accountVer'[Owner[tok[j].chain]]
        /\ tok[j].chainVer = chainVer'[tok[j].chain]
    BY <1>2 DEF Current
  <1>5. /\ tok[j].accountVer <= accountVer[Owner[tok[j].chain]]
        /\ tok[j].chainVer <= chainVer[tok[j].chain]
    BY DEF Stamped
  <1>6. /\ accountVer'[Owner[tok[j].chain]] >= accountVer[Owner[tok[j].chain]]
        /\ chainVer'[tok[j].chain] >= chainVer[tok[j].chain]
    BY <1>1, <1>2 DEF Monotone
  <1> QED
    BY <1>2, <1>3, <1>4, <1>5, <1>6 DEF Current

\* An invalidated token never becomes valid again: versions only grow and no
\* token carries a version from the future.
THEOREM RevocationFinality == Spec => RevocationIsFinal
  <1>1. RotationInv /\ [Next]_vars => [\A j \in Minted : ~ Current(j) => ~ Current(j)']_vars
    BY StaysRevoked
  <1> QED
    BY <1>1, RotationInvariant, PTL DEF Spec, RevocationIsFinal
-----------------------------------------------------------------------------
(* How requests begin and advance, and which of them bump a version. *)

PasswordPc == {"password_bump", "password_rows", "password_mint"}

StartsLogin(r) ==
    /\ req[r].pc = "idle"
    /\ req'[r].pc = "login_mint" /\ req'[r].op = "login"
    /\ \A j \in Jti : tok[j].chain # req'[r].chain
    /\ \A q \in Req : ~ (req[q].op = "login" /\ req[q].chain = req'[r].chain)
    /\ UNCHANGED tok

Starts(r) ==
    /\ req[r].pc = "idle"
    /\ req'[r].pc \in {"check", "logout_find", "all_bump", "revoke_bump", "password_bump"}
    /\ req'[r].pc = "password_bump" => "password" \in Op
    /\ \E j \in Jti : tok[j].chain = req'[r].chain

Advances(r) ==
    /\ req[r].pc # "idle"
    /\ req'[r].pc \notin {"idle", "login_mint"}
    /\ req'[r].chain = req[r].chain
    /\ req[r].pc = "login_mint" => \E n \in Jti : tok'[n].chain = req[r].chain
    /\ req'[r].pc \in {"reuse_row", "revoke_delete"} =>
           chainVer' = [chainVer EXCEPT ![req[r].chain] = @ + 1]
    /\ req'[r].pc \in PasswordPc => req[r].pc \in PasswordPc

RequestStep ==
    \/ UNCHANGED req
    \/ \E r \in Req :
          /\ \A q \in Req \ {r} : req'[q] = req[q]
          /\ req'[r].pc = "idle" \/ StartsLogin(r) \/ Starts(r) \/ Advances(r)

LEMMA RequestFacts == TypeInv /\ [Next]_vars => RequestStep
  <1> SUFFICES ASSUME TypeInv, [Next]_vars PROVE RequestStep
    OBVIOUS
  <1> USE NoneAssumption
      DEF TypeInv, TypeOK, store, report, At, RequestStep, StartsLogin, Starts, Advances, PasswordPc
  <1>1. ASSUME NEW r \in Req, NEW c \in Chain, BeginLogin(r, c) PROVE RequestStep
    BY <1>1 DEF BeginLogin, Used, Request, Begin
  <1>2. ASSUME NEW r \in Req, NEW j \in Jti, NEW ip \in IP, BeginRefresh(r, j, ip) PROVE RequestStep
    BY <1>2 DEF BeginRefresh, Presentable, NamesOK, Minted, Request, Begin
  <1>3. ASSUME NEW r \in Req, NEW j \in Jti, BeginLogout(r, j) PROVE RequestStep
    BY <1>3 DEF BeginLogout, Presentable, NamesOK, Minted, Request, Begin
  <1>4. ASSUME NEW r \in Req, NEW j \in Jti, BeginLogoutAll(r, j) PROVE RequestStep
    BY <1>4 DEF BeginLogoutAll, Presentable, NamesOK, Minted, Request, Begin
  <1>5. ASSUME NEW r \in Req, NEW j \in Jti, BeginPassword(r, j) PROVE RequestStep
    BY <1>5 DEF BeginPassword, Presentable, NamesOK, Minted, Request, Begin
  <1>6. ASSUME NEW r \in Req, NEW j \in Jti, NEW i \in Jti, BeginRevoke(r, j, i) PROVE RequestStep
    BY <1>6 DEF BeginRevoke, Presentable, NamesOK, Minted, Request, Begin
  <1>7. ASSUME NEW r \in Req, NEW n \in Jti, LoginMint(r, n) PROVE RequestStep
    BY <1>7 DEF LoginMint, Request, Token, MintCurrent
  <1>8. ASSUME NEW r \in Req, NEW n \in Jti, RefreshMint(r, n) PROVE RequestStep
    BY <1>8 DEF RefreshMint, Request, Token
  <1>9. ASSUME NEW r \in Req, NEW n \in Jti, PasswordMint(r, n) PROVE RequestStep
    BY <1>9 DEF PasswordMint, Request, Token, MintCurrent
  <1>10. ASSUME NEW r \in Req, CreateRow(r) PROVE RequestStep
    BY <1>10, FinishFacts DEF CreateRow, Respond
  <1>11. ASSUME NEW r \in Req, FindRow(r) PROVE RequestStep
    <2>1. /\ \A q \in Req \ {r} : req'[q] = req[q]
          /\ req'[r].pc \in {"move_row", "create_row", "row_error"}
          /\ req'[r].chain = req[r].chain
      BY <1>11, FindRowFacts
    <2>2. At(r, "find_row")
      BY <1>11 DEF FindRow
    <2> QED
      BY <2>1, <2>2
  <1>12. ASSUME NEW r \in Req, MoveRow(r) PROVE RequestStep
    BY <1>12, FinishFacts DEF MoveRow, Respond
  <1>13. ASSUME NEW r \in Req, RowError(r) PROVE RequestStep
    BY <1>13, FinishFacts DEF RowError, Respond
  <1>14. ASSUME NEW r \in Req, MintUnavailable(r) PROVE RequestStep
    BY <1>14, FinishFacts DEF MintUnavailable
  <1>15. ASSUME NEW r \in Req, RefreshCheck(r) PROVE RequestStep
    BY <1>15, GotoFacts, FinishFacts DEF RefreshCheck, Pc
  <1>16. ASSUME NEW r \in Req, RefreshClaim(r) PROVE RequestStep
    BY <1>16, GotoFacts DEF RefreshClaim, Pc
  <1>17. ASSUME NEW r \in Req, RefreshClaimLost(r) PROVE RequestStep
    BY <1>17, FinishFacts DEF RefreshClaimLost
  <1>18. ASSUME NEW r \in Req, RefreshDuplicate(r) PROVE RequestStep
    BY <1>18, GotoFacts, FinishFacts DEF RefreshDuplicate, Pc
  <1>19. ASSUME NEW r \in Req, ReuseBump(r) PROVE RequestStep
    BY <1>19, GotoFacts, FinishFacts DEF ReuseBump, BumpChain, BumpChainUnconfirmed, Pc
  <1>20. ASSUME NEW r \in Req, ReuseRow(r) PROVE RequestStep
    BY <1>20, FinishFacts DEF ReuseRow
  <1>21. ASSUME NEW r \in Req, RefreshStale(r) PROVE RequestStep
    BY <1>21, FinishFacts DEF RefreshStale
  <1>22. ASSUME NEW r \in Req, RefreshUnavailable(r) PROVE RequestStep
    BY <1>22, FinishFacts DEF RefreshUnavailable
  <1>23. ASSUME NEW r \in Req, LogoutFind(r) PROVE RequestStep
    BY <1>23, GotoFacts, FinishFacts DEF LogoutFind, Pc
  <1>24. ASSUME NEW r \in Req, LogoutBump(r) PROVE RequestStep
    BY <1>24, GotoFacts, FinishFacts DEF LogoutBump, BumpChain, BumpChainUnconfirmed, Pc
  <1>25. ASSUME NEW r \in Req, LogoutDelete(r) PROVE RequestStep
    BY <1>25, FinishFacts DEF LogoutDelete
  <1>26. ASSUME NEW r \in Req, LogoutAllBump(r) PROVE RequestStep
    BY <1>26, GotoFacts, FinishFacts DEF LogoutAllBump, BumpAccount, BumpAccountUnconfirmed, Pc
  <1>27. ASSUME NEW r \in Req, LogoutAllRows(r) PROVE RequestStep
    BY <1>27, FinishFacts DEF LogoutAllRows
  <1>28. ASSUME NEW r \in Req, RevokeBump(r) PROVE RequestStep
    BY <1>28, GotoFacts, FinishFacts DEF RevokeBump, BumpChain, BumpChainUnconfirmed, Pc
  <1>29. ASSUME NEW r \in Req, RevokeDelete(r) PROVE RequestStep
    BY <1>29, FinishFacts DEF RevokeDelete
  <1>30. ASSUME NEW r \in Req, PasswordBump(r) PROVE RequestStep
    <2>1. req[r].pc = "password_bump" /\ (Goto(r, "password_rows") \/ Goto(r, "password_mint"))
      BY <1>30 DEF PasswordBump
    <2>2. /\ \A q \in Req \ {r} : req'[q] = req[q]
          /\ req'[r].pc \in {"password_rows", "password_mint"}
          /\ req'[r].chain = req[r].chain
      BY <2>1, GotoFacts DEF Pc
    <2> QED
      BY <2>1, <2>2
  <1>31. ASSUME NEW r \in Req, PasswordRows(r) PROVE RequestStep
    BY <1>31, GotoFacts DEF PasswordRows, Pc
  <1>32. ASSUME NEW j \in Jti, GraceElapses(j) PROVE RequestStep
    BY <1>32, GraceFacts DEF GraceElapses
  <1>33. ASSUME NEW j \in Jti, Expire(j) PROVE RequestStep
    BY <1>33 DEF Expire
  <1>34. ASSUME SweepClaims PROVE RequestStep
    BY <1>34 DEF SweepClaims
  <1>35. ASSUME SweepRows PROVE RequestStep
    BY <1>35 DEF SweepRows
  <1>36. CASE UNCHANGED vars
    BY <1>36 DEF vars
  <1> QED
    BY <1>1, <1>2, <1>3, <1>4, <1>5, <1>6, <1>7, <1>8, <1>9, <1>10, <1>11, <1>12, <1>13, <1>14, <1>15, <1>16, <1>17, <1>18, <1>19, <1>20, <1>21, <1>22, <1>23, <1>24, <1>25, <1>26, <1>27, <1>28, <1>29, <1>30, <1>31, <1>32, <1>33, <1>34, <1>35, <1>36 DEF Next, Arrive, Serve, Time

BumpPc == {"reuse_bump", "logout_bump", "revoke_bump"}
AllBumpPc == {"all_bump", "password_bump"}

\* A version changes only by a bump, and a bump changes one version.
VersionStep ==
    \/ UNCHANGED store
    \/ \E r \in Req : req[r].pc \in BumpPc /\ BumpChain(req[r].chain)
    \/ \E r \in Req : req[r].pc \in AllBumpPc /\ BumpAccount(Owner[req[r].chain])

LEMMA OnlyBumpsBump == [Next]_vars => VersionStep
  <1> SUFFICES ASSUME [Next]_vars PROVE VersionStep
    OBVIOUS
  <1>1. ASSUME NEW r \in Req, Arrive(r) PROVE UNCHANGED store
    BY <1>1 DEF Arrive, store, BeginLogin, BeginRefresh, BeginLogout, BeginLogoutAll,
                BeginPassword, BeginRevoke
  <1>2. ASSUME NEW r \in Req, ReuseBump(r) \/ LogoutBump(r) \/ RevokeBump(r) PROVE VersionStep
    BY <1>2 DEF ReuseBump, LogoutBump, RevokeBump, At, VersionStep, BumpPc, BumpChainUnconfirmed
  <1>3. ASSUME NEW r \in Req, LogoutAllBump(r) \/ PasswordBump(r) PROVE VersionStep
    BY <1>3 DEF LogoutAllBump, PasswordBump, At, VersionStep, AllBumpPc, BumpAccountUnconfirmed
  <1>4. ASSUME NEW r \in Req, Serve(r),
               ~ (ReuseBump(r) \/ LogoutBump(r) \/ RevokeBump(r) \/ LogoutAllBump(r) \/ PasswordBump(r))
        PROVE  UNCHANGED store
    BY <1>4 DEF Serve, store, LoginMint, RefreshMint, PasswordMint, CreateRow, FindRow, MoveRow,
                RowError, MintUnavailable, RefreshCheck, RefreshClaim, RefreshClaimLost,
                RefreshDuplicate, ReuseRow, RefreshStale, RefreshUnavailable, LogoutFind,
                LogoutDelete, LogoutAllRows, RevokeDelete, PasswordRows
  <1>5. ASSUME Time PROVE UNCHANGED store
    BY <1>5 DEF Time, store, GraceElapses, Expire, SweepClaims, SweepRows
  <1>6. CASE UNCHANGED vars
    BY <1>6 DEF vars, store, VersionStep
  <1> QED
    BY <1>1, <1>2, <1>3, <1>4, <1>5, <1>6 DEF Next, VersionStep

\* ended only grows by the chain of a request that has bumped it.
EndedStep ==
    \A c \in ended' : c \in ended \/ \E r \in Req :
        req[r].pc \in {"reuse_row", "revoke_delete"} /\ req[r].chain = c

LEMMA OnlyReportsEnd == [Next]_vars => EndedStep
  <1> SUFFICES ASSUME [Next]_vars PROVE EndedStep
    OBVIOUS
  <1>1. ASSUME NEW r \in Req, Arrive(r) PROVE UNCHANGED ended
    BY <1>1 DEF Arrive, report, BeginLogin, BeginRefresh, BeginLogout, BeginLogoutAll,
                BeginPassword, BeginRevoke
  <1>2. ASSUME NEW r \in Req, ReuseRow(r) \/ RevokeDelete(r) PROVE EndedStep
    BY <1>2 DEF ReuseRow, RevokeDelete, At, EndedStep
  <1>3. ASSUME NEW r \in Req, Serve(r), ~ (ReuseRow(r) \/ RevokeDelete(r)) PROVE UNCHANGED ended
    BY <1>3 DEF Serve, report, LoginMint, RefreshMint, PasswordMint, CreateRow, FindRow, MoveRow,
                RowError, MintUnavailable, RefreshCheck, RefreshClaim, RefreshClaimLost,
                RefreshDuplicate, ReuseBump, RefreshStale, RefreshUnavailable, LogoutFind,
                LogoutBump, LogoutDelete, LogoutAllBump, LogoutAllRows, RevokeBump,
                PasswordBump, PasswordRows
  <1>4. ASSUME Time PROVE UNCHANGED ended
    BY <1>4 DEF Time, report, GraceElapses, Expire, SweepClaims, SweepRows
  <1>5. CASE UNCHANGED vars
    BY <1>5 DEF vars, EndedStep
  <1> QED
    BY <1>1, <1>2, <1>3, <1>4, <1>5 DEF Next, EndedStep
-----------------------------------------------------------------------------
(* A chain that was reported revoked stays dead. *)

\* A chain id is new until its login mints, nobody bumps it before that, and a
\* password change is in progress only where password changes exist.
ChainHistory ==
    /\ \A r \in Req : req[r].pc = "login_mint" => req[r].op = "login" /\ ~ Used(req[r].chain)
    /\ \A r, q \in Req : r # q /\ req[r].pc = "login_mint" /\ req[q].pc = "login_mint"
           => req[r].chain # req[q].chain
    /\ \A r \in Req : req[r].pc \notin {"idle", "login_mint"} => Used(req[r].chain)
    /\ \A r \in Req : req[r].pc \in PasswordPc => "password" \in Op
    /\ \A c \in Chain : chainVer[c] # 0 => Used(c)

\* Tokens of a login, and their descendants, carry the chain version 0, which a
\* revoked chain has left for good.
EndedHistory ==
    /\ \A j \in Minted : tok[j].origin = "login" => tok[j].chainVer = 0
    /\ \A r \in Req : req[r].pc \in {"reuse_row", "revoke_delete"} => chainVer[req[r].chain] # 0
    /\ \A c \in ended : chainVer[c] # 0

HistoryInv == RotationInv /\ ChainHistory /\ EndedHistory

LEMMA InitHistoryInv == Init => HistoryInv
  <1> SUFFICES ASSUME Init PROVE HistoryInv
    OBVIOUS
  <1>1. Minted = {}
    BY DEF Init, Minted, NoToken
  <1>2. \A r \in Req : req[r].pc = "idle"
    BY DEF Init, NoReq
  <1>3. ended = {} /\ \A c \in Chain : chainVer[c] = 0
    BY DEF Init
  <1> QED
    BY <1>1, <1>2, <1>3, InitRotationInv DEF HistoryInv, ChainHistory, EndedHistory, PasswordPc

\* A chain in use stays in use.
LEMMA UsedStays ==
  ASSUME TypeInv, Monotone, NEW c \in Chain, Used(c)
  PROVE  Used(c)'
  BY NoneAssumption DEF TypeInv, TypeOK, Monotone, Used, Minted, Token

LEMMA NextChainHistory ==
  ASSUME HistoryInv, TypeInv', Monotone, RequestStep, VersionStep, UNCHANGED tok \/ MintStep
  PROVE  ChainHistory'
  <1> USE DEF HistoryInv, RotationInv
  <1>1. \A c \in Chain : Used(c) => Used(c)'
    BY UsedStays
  <1>2. \A r \in Req : req[r].pc # "idle" => req[r].chain \in Chain
    BY DEF TypeInv, ReqOK
  <1>3. \A r \in Req : req'[r].pc # "idle" => req'[r].chain \in Chain
    BY DEF TypeInv, ReqOK
  \* Which requests are at login_mint after the step.
  <1>4. \A r \in Req : req'[r].pc = "login_mint" => req'[r] = req[r] \/ StartsLogin(r)
    BY DEF RequestStep, Starts, Advances
  <1>5. ASSUME NEW r \in Req, req'[r].pc = "login_mint"
        PROVE  req'[r].op = "login" /\ \A j \in Jti : tok'[j].chain # req'[r].chain
    <2>1. CASE StartsLogin(r)
      BY <2>1 DEF StartsLogin, Used
    <2>2. CASE req'[r] = req[r] /\ UNCHANGED tok
      BY <1>5, <2>2 DEF ChainHistory, Used
    <2>3. CASE req'[r] = req[r] /\ MintStep
      <3>1. PICK q \in Req, n \in Jti :
                /\ \A j \in Jti \ {n} : tok'[j] = tok[j]
                /\ tok'[n].chain = req[q].chain
                /\ \A p \in Req \ {q} : req'[p] = req[p]
                /\ req'[q].pc \in {"create_row", "find_row"}
                /\ req[q].pc \in {"login_mint", "password_mint", "recheck"}
        BY <2>3, MintFacts
      <3>2. q # r
        BY <1>5, <3>1
      <3>3. req[q].chain # req[r].chain
        BY <1>5, <2>3, <3>1, <3>2 DEF ChainHistory
      <3>4. ~ Used(req[r].chain)
        BY <1>5, <2>3 DEF ChainHistory
      <3> QED
        BY <1>5, <2>3, <3>1, <3>3, <3>4 DEF Used, ChainHistory
    <2> QED
      BY <1>4, <1>5, <2>1, <2>2, <2>3
  <1>6. ASSUME NEW r \in Req, NEW q \in Req, r # q,
               req'[r].pc = "login_mint", req'[q].pc = "login_mint"
        PROVE  req'[r].chain # req'[q].chain
    <2>1. CASE StartsLogin(r)
      <3>1. req'[q] = req[q]
        BY <1>6, <2>1 DEF RequestStep, StartsLogin
      <3> QED
        BY <1>6, <2>1, <3>1 DEF StartsLogin, ChainHistory
    <2>2. CASE StartsLogin(q)
      <3>1. req'[r] = req[r]
        BY <1>6, <2>2 DEF RequestStep, StartsLogin
      <3> QED
        BY <1>6, <2>2, <3>1 DEF StartsLogin, ChainHistory
    <2>3. CASE req'[r] = req[r] /\ req'[q] = req[q]
      BY <1>6, <2>3 DEF ChainHistory
    <2> QED
      BY <1>4, <1>6, <2>1, <2>2, <2>3
  <1>7. ASSUME NEW r \in Req, req'[r].pc \notin {"idle", "login_mint"}
        PROVE  \E j \in Jti : tok'[j].chain = req'[r].chain
    <2>1. CASE req'[r] = req[r]
      BY <1>1, <1>2, <1>7, <2>1 DEF ChainHistory, Used
    <2>2. CASE Starts(r)
      BY <1>1, <1>3, <1>7, <2>2 DEF Starts, Used
    <2>3. CASE Advances(r)
      BY <1>1, <1>2, <1>7, <2>3 DEF Advances, ChainHistory, Used
    <2> QED
      BY <1>7, <2>1, <2>2, <2>3 DEF RequestStep, StartsLogin
  <1>8. ASSUME NEW r \in Req, req'[r].pc \in PasswordPc PROVE "password" \in Op
    BY <1>8 DEF RequestStep, StartsLogin, Starts, Advances, PasswordPc, ChainHistory
  <1>9. ASSUME NEW c \in Chain, chainVer'[c] # 0 PROVE Used(c)'
    <2>1. CASE chainVer[c] # 0
      BY <1>1, <2>1 DEF ChainHistory
    <2>2. CASE chainVer[c] = 0
      <3>1. PICK r \in Req : req[r].pc \in BumpPc /\ BumpChain(req[r].chain)
        BY <1>9, <2>2 DEF VersionStep, store, BumpAccount
      <3>2. req[r].chain = c
        BY <1>9, <2>2, <3>1 DEF BumpChain, TypeInv, TypeOK
      <3> QED
        BY <1>1, <3>1, <3>2 DEF BumpPc, ChainHistory
    <2> QED
      BY <2>1, <2>2
  <1> QED
    BY <1>5, <1>6, <1>7, <1>8, <1>9 DEF ChainHistory, Used

LEMMA NextEndedHistory ==
  ASSUME HistoryInv, TypeInv', Monotone, RequestStep, EndedStep, UNCHANGED tok \/ MintStep
  PROVE  EndedHistory'
  <1> USE DEF HistoryInv, RotationInv, TypeInv, TypeOK
  <1>1. \A c \in Chain : chainVer[c] # 0 => chainVer'[c] # 0
    BY DEF Monotone
  <1>2. \A r \in Req : req[r].pc # "idle" => req[r].chain \in Chain
    BY DEF ReqOK
  <1>3. ASSUME NEW j \in Minted', tok'[j].origin = "login" PROVE tok'[j].chainVer = 0
    <2>1. CASE UNCHANGED tok
      BY <1>3, <2>1 DEF EndedHistory, Minted
    <2>2. CASE MintStep
      <3>1. PICK r \in Req, n \in Jti :
                /\ tok[n].chain = None
                /\ \A k \in Jti \ {n} : tok'[k] = tok[k]
                /\ req[r].chain \in Chain
                /\ \/ /\ req[r].pc = "login_mint" \/ req[r].pc = "password_mint"
                      /\ tok'[n].origin = (IF req[r].pc = "login_mint" THEN "login" ELSE "password")
                      /\ tok'[n].chainVer = chainVer[req[r].chain]
                   \/ /\ req[r].jti \in Minted
                      /\ tok'[n].origin = tok[req[r].jti].origin
                      /\ tok'[n].chainVer = tok[req[r].jti].chainVer
        BY <2>2, MintFacts
      <3>2. CASE j # n
        BY <1>3, <3>1, <3>2 DEF EndedHistory, Minted
      <3>3. CASE j = n /\ req[r].jti \in Minted /\ tok'[n].origin = tok[req[r].jti].origin
                 /\ tok'[n].chainVer = tok[req[r].jti].chainVer
        BY <1>3, <3>3 DEF EndedHistory
      <3>4. CASE j = n /\ req[r].pc = "login_mint" /\ tok'[n].chainVer = chainVer[req[r].chain]
        BY <3>1, <3>4 DEF ChainHistory
      <3> QED
        BY <1>3, <3>1, <3>2, <3>3, <3>4
    <2> QED
      BY <2>1, <2>2
  <1>4. ASSUME NEW r \in Req, req'[r].pc \in {"reuse_row", "revoke_delete"}
        PROVE  chainVer'[req'[r].chain] # 0
    <2>1. CASE req'[r] = req[r]
      BY <1>1, <1>2, <1>4, <2>1 DEF EndedHistory
    <2>2. CASE Advances(r)
      <3>1. req'[r].chain = req[r].chain /\ req[r].chain \in Chain
        BY <1>2, <2>2 DEF Advances
      <3>2. chainVer' = [chainVer EXCEPT ![req[r].chain] = @ + 1]
        BY <1>4, <2>2 DEF Advances
      <3>3. chainVer[req[r].chain] \in Nat
        BY <3>1
      <3> QED
        BY <3>1, <3>2, <3>3
    <2> QED
      BY <1>4, <2>1, <2>2 DEF RequestStep, StartsLogin, Starts
  <1>5. ASSUME NEW c \in ended' PROVE chainVer'[c] # 0
    BY <1>1, <1>2, <1>5 DEF EndedStep, EndedHistory
  <1> QED
    BY <1>3, <1>4, <1>5 DEF EndedHistory

LEMMA HistoryInvariant == Spec => []HistoryInv
  <1>1. HistoryInv /\ [Next]_vars => HistoryInv'
    BY NextRotationInv, NextTypeInv, StepFacts, RequestFacts, OnlyBumpsBump, OnlyReportsEnd,
       OnlyMintsMint, NextChainHistory, NextEndedHistory DEF HistoryInv, RotationInv
  <1> QED
    BY <1>1, InitHistoryInv, PTL DEF Spec

\* A chain reported revoked by Manage Sessions or by reuse detection has no
\* valid token but those a password change re-issued.
THEOREM EndedChainsAreDead == Spec => []EndedMeansDead
  <1>1. HistoryInv => EndedMeansDead
    <2> SUFFICES ASSUME HistoryInv, NEW j \in Minted, tok[j].chain \in ended, Current(j)
                 PROVE  tok[j].origin = "password"
      BY DEF EndedMeansDead
    <2>1. chainVer[tok[j].chain] # 0 /\ tok[j].chainVer = chainVer[tok[j].chain]
      BY DEF HistoryInv, EndedHistory, Current
    <2>2. tok[j].origin \in {"login", "password"}
      BY DEF HistoryInv, RotationInv, TypeInv, TypeOK, Token, Minted
    <2> QED
      BY <2>1, <2>2 DEF HistoryInv, EndedHistory
  <1> QED
    BY <1>1, HistoryInvariant, PTL

\* Revocation is targeted: a token loses its validity only to a request that
\* bumps its own chain or its owner's account.
THEOREM RevocationIsTargeted == Spec => OnlyTargetsAreRevoked
  <1>1. ASSUME TypeInv, [Next]_vars, NEW j \in Minted, Current(j), ~ Current(j)'
        PROVE  \E r \in Req :
                  \/ /\ req[r].pc \in {"reuse_bump", "logout_bump", "revoke_bump"}
                     /\ req[r].chain = tok[j].chain
                  \/ /\ req[r].pc \in {"all_bump", "password_bump"}
                     /\ Owner[req[r].chain] = Owner[tok[j].chain]
    <2>1. Monotone /\ VersionStep
      BY <1>1, StepFacts, OnlyBumpsBump
    <2>2. tok'[j] = tok[j] /\ tok[j].chain \in Chain /\ Owner[tok[j].chain] \in User
      BY <1>1, <2>1, OwnerAssumption DEF Monotone, TypeInv, TypeOK, Minted, Token
    <2>3. CASE UNCHANGED store
      BY <1>1, <2>2, <2>3 DEF Current, store
    <2>4. ASSUME NEW r \in Req, req[r].pc \in BumpPc, BumpChain(req[r].chain)
          PROVE  req[r].chain = tok[j].chain
      BY <1>1, <2>2, <2>4 DEF Current, BumpChain, TypeInv, TypeOK
    <2>5. ASSUME NEW r \in Req, req[r].pc \in AllBumpPc, BumpAccount(Owner[req[r].chain])
          PROVE  Owner[req[r].chain] = Owner[tok[j].chain]
      BY <1>1, <2>2, <2>5 DEF Current, BumpAccount, TypeInv, TypeOK
    <2> QED
      BY <2>1, <2>3, <2>4, <2>5 DEF VersionStep, BumpPc, AllBumpPc
  <1>2. TypeInv /\ [Next]_vars =>
          [\A j \in Minted : Current(j) /\ ~ Current(j)' =>
              \E r \in Req :
                 \/ /\ req[r].pc \in {"reuse_bump", "logout_bump", "revoke_bump"}
                    /\ req[r].chain = tok[j].chain
                 \/ /\ req[r].pc \in {"all_bump", "password_bump"}
                    /\ Owner[req[r].chain] = Owner[tok[j].chain]]_vars
    BY <1>1
  <1>3. RotationInv => TypeInv
    BY DEF RotationInv
  <1> QED
    BY <1>2, <1>3, RotationInvariant, PTL DEF Spec, OnlyTargetsAreRevoked
-----------------------------------------------------------------------------
(* Session rows stay with the login they were created for. *)

\* The steps that neither mint nor write or look up a row leave the rows alone
\* or delete some, and bring no request to its row bookkeeping.
RowQuiet ==
    /\ UNCHANGED tok
    /\ \A i \in Jti : rows'[i] \in {rows[i], None}
    /\ \A q \in Req :
          \/ req'[q] = req[q]
          \/ /\ req'[q].pc \notin RowPc
             /\ req'[q].pc \in PasswordPc =>
                    \/ req'[q].op = "password"
                    \/ req[q].pc \in PasswordPc /\ req'[q].op = req[q].op

RowStep == \E r \in Req : CreateRow(r) \/ FindRow(r) \/ MoveRow(r)

LEMMA OtherStepsAreQuiet ==
  ASSUME TypeInv, [Next]_vars, ~ MintStep, ~ RowStep
  PROVE  RowQuiet
  <1> USE DEF TypeInv, TypeOK, store, report, At, RowQuiet, RowPc, PasswordPc
  <1>1. ASSUME NEW r \in Req, Arrive(r) PROVE RowQuiet
    <2>1. UNCHANGED <<tok, rows>>
      BY <1>1 DEF Arrive, BeginLogin, BeginRefresh, BeginLogout, BeginLogoutAll, BeginPassword,
                  BeginRevoke
    <2>2. /\ \A q \in Req \ {r} : req'[q] = req[q]
          /\ \/ req'[r].pc \in {"login_mint", "check", "logout_find", "all_bump", "revoke_bump"}
             \/ req'[r].op = "password" /\ req'[r].pc = "password_bump"
      BY <1>1 DEF Arrive, BeginLogin, BeginRefresh, BeginLogout, BeginLogoutAll, BeginPassword,
                  BeginRevoke, Begin
    <2> QED
      BY <2>1, <2>2
  <1>2. ASSUME NEW r \in Req, NEW pc \in Pc \ (RowPc \cup PasswordPc), Goto(r, pc) \/ Finish(r),
               UNCHANGED tok, \A i \in Jti : rows'[i] \in {rows[i], None}
        PROVE  RowQuiet
    <2>1. /\ \A q \in Req \ {r} : req'[q] = req[q]
          /\ req'[r].pc \in {"idle", pc}
      BY <1>2, GotoFacts, FinishFacts
    <2> QED
      BY <1>2, <2>1
  <1>3. ASSUME NEW r \in Req,
               RowError(r) \/ MintUnavailable(r) \/ RefreshStale(r) \/ RefreshUnavailable(r)
                   \/ RefreshClaimLost(r)
        PROVE  RowQuiet
    BY <1>2, <1>3 DEF RowError, Respond, MintUnavailable, RefreshStale, RefreshUnavailable,
                      RefreshClaimLost, Pc
  <1>4. ASSUME NEW r \in Req, RefreshCheck(r) \/ RefreshClaim(r) \/ RefreshDuplicate(r)
        PROVE  RowQuiet
    <2>1. \/ Goto(r, "claim") \/ Goto(r, "duplicate") \/ Goto(r, "recheck") \/ Goto(r, "reuse_bump")
          \/ Finish(r)
      BY <1>4 DEF RefreshCheck, RefreshClaim, RefreshDuplicate
    <2>2. UNCHANGED <<tok, rows>>
      BY <1>4 DEF RefreshCheck, RefreshClaim, RefreshDuplicate
    <2> QED
      BY <1>2, <2>1, <2>2 DEF Pc
  <1>5. ASSUME NEW r \in Req,
               ReuseBump(r) \/ LogoutFind(r) \/ LogoutBump(r) \/ LogoutAllBump(r) \/ RevokeBump(r)
        PROVE  RowQuiet
    <2>1. \/ Goto(r, "reuse_row") \/ Goto(r, "logout_bump") \/ Goto(r, "logout_delete")
          \/ Goto(r, "all_rows") \/ Goto(r, "revoke_delete") \/ Finish(r)
      BY <1>5 DEF ReuseBump, LogoutFind, LogoutBump, LogoutAllBump, RevokeBump
    <2>2. UNCHANGED <<tok, rows>>
      BY <1>5 DEF ReuseBump, LogoutFind, LogoutBump, LogoutAllBump, RevokeBump
    <2> QED
      BY <1>2, <2>1, <2>2 DEF Pc
  <1>6. ASSUME NEW r \in Req,
               ReuseRow(r) \/ LogoutDelete(r) \/ LogoutAllRows(r) \/ RevokeDelete(r)
        PROVE  RowQuiet
    <2>1. Finish(r) /\ UNCHANGED tok
      BY <1>6 DEF ReuseRow, LogoutDelete, LogoutAllRows, RevokeDelete
    <2>2. UNCHANGED rows \/ \E ids : Delete(ids)
      BY <1>6 DEF ReuseRow, LogoutDelete, LogoutAllRows, RevokeDelete
    <2>3. \A i \in Jti : rows'[i] \in {rows[i], None}
      BY <2>2 DEF Delete
    <2> QED
      BY <1>2, <2>1, <2>3 DEF Pc
  <1>7. ASSUME NEW r \in Req, PasswordBump(r) \/ PasswordRows(r) PROVE RowQuiet
    <2>1. /\ req[r].pc \in PasswordPc
          /\ Goto(r, "password_rows") \/ Goto(r, "password_mint")
      BY <1>7 DEF PasswordBump, PasswordRows
    <2>2. /\ \A q \in Req \ {r} : req'[q] = req[q]
          /\ req'[r].pc \in {"password_rows", "password_mint"}
          /\ req'[r].op = req[r].op
      BY <2>1, GotoFacts DEF Pc
    <2>3. UNCHANGED tok /\ \A i \in Jti : rows'[i] \in {rows[i], None}
      BY <1>7 DEF PasswordBump, PasswordRows, Delete
    <2> QED
      BY <2>1, <2>2, <2>3
  <1>8. ASSUME Time PROVE RowQuiet
    BY <1>8 DEF Time, GraceElapses, Expire, SweepClaims, SweepRows, Delete
  <1>9. CASE UNCHANGED vars
    BY <1>9 DEF vars
  <1> QED
    BY <1>1, <1>3, <1>4, <1>5, <1>6, <1>7, <1>8, <1>9 DEF Next, Serve, MintStep, RowStep

\* A request that is to update the session row of its new token: the token
\* belongs to the request's login, the row it found does too, and the token is
\* neither in a row yet nor on its way into one by another request.
RowWork(r) ==
    /\ tok[req[r].new].chain = req[r].chain
    /\ \A i \in Jti : rows[i] # req[r].new
    /\ \A q \in Req \ {r} : req[q].pc \in RowPc => req[q].new # req[r].new
    /\ req[r].pc = "find_row" /\ req[r].op = "refresh" =>
           req[r].jti \in Minted /\ tok[req[r].jti].chain = req[r].chain
    /\ req[r].pc = "move_row" => req[r].row \in Minted /\ tok[req[r].row].chain = req[r].chain

RowsInv ==
    /\ TypeInv
    /\ RowsKeepTheirChain
    /\ \A i \in Jti : rows[i] # None => i \in Minted
    /\ \A r \in Req : req[r].pc \in RowPc => RowWork(r)
    /\ \A r \in Req : req[r].pc \in PasswordPc => req[r].op = "password"

LEMMA InitRowsInv == Init => RowsInv
  <1> SUFFICES ASSUME Init PROVE RowsInv
    OBVIOUS
  <1>1. /\ \A i \in Jti : rows[i] = None
        /\ \A r \in Req : req[r].pc = "idle"
    BY DEF Init, NoReq
  <1> QED
    BY <1>1, InitTypeInv DEF RowsInv, RowsKeepTheirChain, RowPc, PasswordPc

LEMMA QuietRows ==
  ASSUME RowsInv, TypeInv', RowQuiet
  PROVE  RowsInv'
  <1>1. UNCHANGED tok /\ Minted' = Minted
    BY DEF RowQuiet, Minted
  <1>2. \A i \in Jti : rows'[i] \in {rows[i], None}
    BY DEF RowQuiet
  <1>3. \A q \in Req : req'[q].pc \in RowPc => req'[q] = req[q]
    BY DEF RowQuiet
  <1>4. RowsKeepTheirChain'
    BY <1>1, <1>2 DEF RowsInv, RowsKeepTheirChain
  <1>5. \A i \in Jti : rows'[i] # None => i \in Minted'
    BY <1>1, <1>2 DEF RowsInv
  <1>6. ASSUME NEW r \in Req, req'[r].pc \in RowPc PROVE RowWork(r)'
    <2>1. req'[r] = req[r] /\ RowWork(r)
      BY <1>3, <1>6 DEF RowsInv
    <2>2. req[r].new # None
      BY <1>3, <1>6, NoneAssumption DEF RowsInv, TypeInv, ReqOK, Minted
    <2> QED
      BY <1>1, <1>2, <1>3, <2>1, <2>2 DEF RowWork
  <1>7. \A q \in Req : req'[q].pc \in PasswordPc => req'[q].op = "password"
    BY DEF RowsInv, RowQuiet
  <1> QED
    BY <1>4, <1>5, <1>6, <1>7 DEF RowsInv

\* A mint hands an unused token to a request that works on the token's chain.
LEMMA MintedRows ==
  ASSUME RowsInv, TypeInv', MintStep
  PROVE  RowsInv'
  <1> USE DEF RowsInv, TypeInv, TypeOK, At
  <1>1. PICK r \in Req, n \in Jti : LoginMint(r, n) \/ RefreshMint(r, n) \/ PasswordMint(r, n)
    BY DEF MintStep
  <1>2. PICK pc \in {"create_row", "find_row"} : Hands(r, n, pc)
    BY <1>1 DEF LoginMint, PasswordMint, RefreshMint, MintCurrent, Hands
  <1>3. /\ req'[r].pc = pc /\ req'[r].new = n /\ req'[r].op = req[r].op
        /\ req'[r].jti = req[r].jti /\ req'[r].chain = req[r].chain
        /\ \A q \in Req \ {r} : req'[q] = req[q]
    <2>1. req \in [Req -> Request] /\ pc \in Pc
      BY DEF Pc
    <2> QED
      BY <1>2, <2>1, MintedFacts
  <1>4. /\ tok[n].chain = None /\ UNCHANGED rows
        /\ \A j \in Jti \ {n} : tok'[j] = tok[j]
    BY <1>1 DEF LoginMint, PasswordMint, RefreshMint, MintCurrent
  <1>5. tok'[n].chain = req[r].chain /\ req[r].chain \in Chain
    <2>1. CASE LoginMint(r, n) \/ PasswordMint(r, n)
      BY <2>1 DEF LoginMint, PasswordMint, MintCurrent, ReqOK
    <2>2. CASE RefreshMint(r, n)
      <3>1. req[r].jti \in Minted /\ req[r].chain = tok[req[r].jti].chain /\ req[r].chain \in Chain
        BY <2>2 DEF RefreshMint, ReqOK, RefreshPc
      <3>2. tok[req[r].jti] \in Token /\ tok'[n] = [tok[req[r].jti] EXCEPT !.parent = req[r].jti]
        BY <2>2, <3>1 DEF RefreshMint, Minted
      <3> QED
        BY <3>1, <3>2 DEF Token
    <2> QED
      BY <1>1, <2>1, <2>2
  <1>6. /\ n \notin Minted /\ Minted' = Minted \cup {n}
        /\ \A j \in Minted : j \in Jti /\ tok'[j] = tok[j]
    BY <1>4, <1>5, NoneAssumption DEF Minted
  <1>7. \A i \in Jti : rows[i] # None => rows[i] \in Minted /\ i \in Minted
    BY DEF NamesOK
  <1>8. RowsKeepTheirChain'
    BY <1>4, <1>6, <1>7 DEF RowsKeepTheirChain
  <1>9. \A i \in Jti : rows'[i] # None => i \in Minted'
    BY <1>4, <1>6, <1>7
  <1>10. \A q \in Req : req[q].pc \in RowPc => req[q].new \in Minted
    BY DEF ReqOK
  <1>11. n # None
    BY NoneAssumption
  <1>12. RowWork(r)'
    <2>1. pc = "find_row" /\ req[r].op = "refresh" =>
              req[r].jti \in Minted /\ tok[req[r].jti].chain = req[r].chain
      <3>1. CASE LoginMint(r, n)
        BY <1>2, <1>3, <3>1, MintedFacts DEF LoginMint, MintCurrent
      <3>2. CASE PasswordMint(r, n)
        BY <3>2 DEF PasswordMint, PasswordPc
      <3>3. CASE RefreshMint(r, n)
        BY <3>3 DEF RefreshMint, ReqOK, RefreshPc
      <3> QED
        BY <1>1, <3>1, <3>2, <3>3
    <2> QED
      BY <1>3, <1>4, <1>5, <1>6, <1>7, <1>10, <1>11, <2>1 DEF RowWork
  <1>13. ASSUME NEW q \in Req \ {r}, req'[q].pc \in RowPc PROVE RowWork(q)'
    <2>1. req'[q] = req[q] /\ RowWork(q) /\ req[q].new \in Minted
      BY <1>3, <1>10, <1>13
    <2> QED
      BY <1>3, <1>4, <1>6, <2>1 DEF RowWork
  <1>14. \A q \in Req : req'[q].pc \in PasswordPc => req'[q].op = "password"
    BY <1>3 DEF PasswordPc
  <1> QED
    BY <1>8, <1>9, <1>12, <1>13, <1>14

\* Looking a row up.
LEMMA FoundRows ==
  ASSUME RowsInv, TypeInv', NEW r \in Req, FindRow(r)
  PROVE  RowsInv'
  <1> USE DEF RowsInv, TypeInv, TypeOK, At
  <1>1. At(r, "find_row") /\ UNCHANGED <<tok, rows>> /\ RowWork(r) /\ Minted' = Minted
    BY DEF FindRow, RowPc, Minted
  <1>2. /\ \A q \in Req \ {r} : req'[q] = req[q]
        /\ req'[r].pc \in {"move_row", "create_row", "row_error"}
        /\ req'[r].chain = req[r].chain /\ req'[r].new = req[r].new
    BY FindRowFacts
  <1>3. req'[r].pc = "move_row" => req'[r].row \in RowsFor(r)
    <2>1. ASSUME NEW i \in RowsFor(r), req' = [req EXCEPT ![r] = [@ EXCEPT !.row = i, !.pc = "move_row"]]
          PROVE  req'[r].row \in RowsFor(r)
      <3>1. i \in Jti
        BY DEF RowsFor, RowsOfChain
      <3>2. req'[r].row = i
        BY <2>1, <3>1, FoundFacts
      <3> QED
        BY <3>2
    <2>2. CASE Goto(r, "create_row") \/ Goto(r, "row_error")
      BY <2>2, GotoFacts DEF Pc
    <2> QED
      BY <2>1, <2>2 DEF FindRow
  <1>4. ASSUME NEW i \in RowsFor(r) PROVE i \in Minted /\ tok[i].chain = req[r].chain
    <2>1. CASE req[r].op = "refresh"
      <3>1. i \in Jti /\ rows[i] = req[r].jti /\ rows[i] \in Minted /\ tok[rows[i]].chain = req[r].chain
        BY <1>1, <1>4, <2>1 DEF RowsFor, RowWork
      <3>2. rows[i] # None
        BY <3>1, NoneAssumption DEF Minted
      <3> QED
        BY <3>1, <3>2 DEF RowsKeepTheirChain
    <2>2. CASE req[r].op # "refresh"
      BY <1>4, <2>2 DEF RowsFor, RowsOfChain, RowsKeepTheirChain
    <2> QED
      BY <2>1, <2>2
  <1>5. RowWork(r)'
    BY <1>1, <1>2, <1>3, <1>4 DEF RowWork
  <1>6. ASSUME NEW q \in Req \ {r}, req'[q].pc \in RowPc PROVE RowWork(q)'
    <2>1. req'[q] = req[q] /\ RowWork(q)
      BY <1>2, <1>6
    <2> QED
      BY <1>1, <1>2, <2>1 DEF RowWork, RowPc
  <1> QED
    BY <1>1, <1>2, <1>5, <1>6 DEF RowsKeepTheirChain, PasswordPc

\* Writing a row, by INSERT or UPDATE, and answering.
LEMMA WrittenRows ==
  ASSUME RowsInv, TypeInv', NEW r \in Req, CreateRow(r) \/ MoveRow(r)
  PROVE  RowsInv'
  <1> USE DEF RowsInv, TypeInv, TypeOK, At
  <1>1. /\ req[r].pc \in {"create_row", "move_row"} /\ RowWork(r) /\ req[r].new \in Minted
        /\ UNCHANGED tok /\ Minted' = Minted
    BY DEF CreateRow, MoveRow, RowPc, Minted, ReqOK
  <1>2. req'[r].pc = "idle" /\ \A q \in Req \ {r} : req'[q] = req[q]
    BY FinishFacts DEF CreateRow, MoveRow, Respond
  <1>3. PICK i \in Minted : /\ tok[i].chain = req[r].chain
                            /\ \A k \in Jti \ {i} : rows'[k] = rows[k]
                            /\ rows'[i] \in {rows[i], req[r].new}
    <2>1. CASE CreateRow(r)
      BY <1>1, <2>1 DEF CreateRow, RowWork, Minted
    <2>2. CASE MoveRow(r)
      <3>1. req[r].row \in Minted /\ tok[req[r].row].chain = req[r].chain
        BY <1>1, <2>2 DEF MoveRow, RowWork
      <3> QED
        BY <2>2, <3>1 DEF MoveRow, Minted
    <2> QED
      BY <2>1, <2>2
  <1>4. i \in Jti /\ tok[req[r].new].chain = req[r].chain /\ \A k \in Jti : rows[k] # req[r].new
    BY <1>1, <1>3 DEF RowWork, Minted
  <1>5. RowsKeepTheirChain'
    BY <1>1, <1>3, <1>4 DEF RowsKeepTheirChain
  <1>6. \A k \in Jti : rows'[k] # None => k \in Minted'
    BY <1>1, <1>3
  <1>7. ASSUME NEW q \in Req, req'[q].pc \in RowPc PROVE RowWork(q)'
    <2>1. q # r /\ req'[q] = req[q] /\ RowWork(q)
      BY <1>2, <1>7 DEF RowPc
    <2>2. req[q].new # req[r].new
      BY <1>1, <2>1 DEF RowWork, RowPc
    <2>3. \A k \in Jti : rows'[k] # req[q].new
      BY <1>3, <2>1, <2>2 DEF RowWork
    <2>4. \A p \in Req \ {q} : req'[p].pc \in RowPc => req'[p].new # req'[q].new
      BY <1>2, <2>1 DEF RowWork, RowPc
    <2> QED
      BY <1>1, <2>1, <2>3, <2>4 DEF RowWork
  <1>8. \A q \in Req : req'[q].pc \in PasswordPc => req'[q].op = "password"
    BY <1>2 DEF PasswordPc
  <1> QED
    BY <1>5, <1>6, <1>7, <1>8

\* However logins, refreshes, password changes and revocations interleave, a
\* session row on the Manage Sessions page stands for one login for as long as
\* it exists, and no token is shown twice.
THEOREM RowsStayWithTheirLogin == Spec => []RowsKeepTheirChain
  <1>1. RowsInv /\ [Next]_vars => RowsInv'
    BY NextTypeInv, OtherStepsAreQuiet, QuietRows, MintedRows, FoundRows, WrittenRows
    DEF RowsInv, RowStep
  <1>2. RowsInv => RowsKeepTheirChain
    BY DEF RowsInv
  <1> QED
    BY <1>1, <1>2, InitRowsInv, PTL DEF Spec
-----------------------------------------------------------------------------
(* Refinement: the token core implements SessionLifecycle. *)

Session == [c \in Chain |-> SessionOf(c)]

Valid == {j \in Minted : Current(j)}
InUse == {c \in Chain : Used(c)}
Live  == {c \in Chain : \E j \in Valid : tok[j].chain = c}

LEMMA SessionStates ==
    /\ Session = [c \in Chain |-> IF c \notin InUse THEN "none"
                                  ELSE IF c \in Live THEN "live" ELSE "ended"]
    /\ Live \subseteq InUse
  <1>1. \A c \in Chain : c \in InUse <=> Used(c)
    BY DEF InUse
  <1>2. \A c \in Chain : c \in Live <=> \E j \in Minted : tok[j].chain = c /\ Current(j)
    BY DEF Live, Valid
  <1>3. Live \subseteq InUse
    BY <1>1, <1>2 DEF Live, Used, Minted
  <1> QED
    BY <1>1, <1>2, <1>3 DEF Session, SessionOf

\* A step that mints nothing ends some of the live sessions, or is invisible.
LEMMA QuietStepEnds ==
  ASSUME HistoryInv, [Next]_vars, UNCHANGED tok
  PROVE  Lifecycle!Next
  <1> DEFINE C == Live \ Live'
  <1>2. Minted' = Minted /\ InUse' = InUse
    BY DEF Minted, InUse, Used
  <1>3. ASSUME NEW j \in Valid' PROVE j \in Valid
    <2>1. j \in Minted /\ Current(j)'
      BY <1>2 DEF Valid
    <2> QED
      BY <2>1, StaysRevoked DEF Valid, HistoryInv
  <1>4. Live' \subseteq Live
    BY <1>3 DEF Live
  <1>5. \A c \in C : Session[c] = "live"
    BY SessionStates DEF Live
  <1>6. Session' = [c \in Chain |-> IF c \notin InUse THEN "none"
                                    ELSE IF c \in Live' THEN "live" ELSE "ended"]
    <2>1. (Session = [c \in Chain |-> IF c \notin InUse THEN "none"
                                      ELSE IF c \in Live THEN "live" ELSE "ended"])'
      BY SessionStates, PTL
    <2> QED
      BY <1>2, <2>1
  <1>7. Session' = [c \in Chain |-> IF c \in C THEN "ended" ELSE Session[c]]
    BY <1>4, <1>6, SessionStates
  <1>8. C \in SUBSET Chain
    BY DEF Live
  <1> QED
    BY <1>5, <1>7, <1>8 DEF Lifecycle!Next, Lifecycle!End, Session

\* A step that mints makes its chain live and leaves the others as they are.
LEMMA MintStepMaps ==
  ASSUME HistoryInv, [Next]_vars, MintStep
  PROVE  Lifecycle!Next \/ UNCHANGED Session
  <1> USE DEF HistoryInv, RotationInv, TypeInv, TypeOK
  <1>1. PICK r \in Req, n \in Jti :
            /\ tok[n].chain = None
            /\ \A j \in Jti \ {n} : tok'[j] = tok[j]
            /\ tok'[n].chain = req[r].chain
            /\ req[r].chain \in Chain
            /\ UNCHANGED store
            /\ \/ /\ req[r].pc = "login_mint" \/ req[r].pc = "password_mint"
                  /\ tok'[n].accountVer = accountVer[Owner[req[r].chain]]
                  /\ tok'[n].chainVer = chainVer[req[r].chain]
               \/ /\ req[r].jti \in Minted
                  /\ Current(req[r].jti)
                  /\ tok'[n].chain = tok[req[r].jti].chain
                  /\ tok'[n].accountVer = tok[req[r].jti].accountVer
                  /\ tok'[n].chainVer = tok[req[r].jti].chainVer
    BY MintFacts
  <1> DEFINE d == req[r].chain
  <1>2. Minted' = Minted \cup {n} /\ n \notin Minted /\ Minted \subseteq Jti /\ d # None
    BY <1>1, NoneAssumption DEF Minted
  <1>3. UNCHANGED <<accountVer, chainVer>>
    BY <1>1 DEF store
  <1>4. \A j \in Minted : tok'[j] = tok[j]
    BY <1>1, <1>2
  <1>5. Valid' = Valid \cup {n}
    <2>1. Current(n)'
      BY <1>1, <1>2, <1>3, <1>4 DEF Current
    <2>2. \A j \in Minted : Current(j)' <=> Current(j)
      BY <1>3, <1>4 DEF Current
    <2> QED
      BY <1>2, <2>1, <2>2 DEF Valid
  <1>6. Live' = Live \cup {d}
    BY <1>1, <1>2, <1>4, <1>5 DEF Live, Valid
  <1>7. InUse' = InUse \cup {d}
    BY <1>1, NoneAssumption DEF InUse, Used
  <1>8. Session' = [Session EXCEPT ![d] = "live"]
    <2>1. (Session = [c \in Chain |-> IF c \notin InUse THEN "none"
                                      ELSE IF c \in Live THEN "live" ELSE "ended"])'
      BY SessionStates, PTL
    <2> QED
      BY <1>1, <1>6, <1>7, <2>1, SessionStates
  <1>9. /\ d \notin InUse => Session[d] = "none"
        /\ d \in Live => Session[d] = "live"
        /\ d \in InUse \ Live => Session[d] = "ended"
    BY <1>1, SessionStates
  <1>10. CASE req[r].pc = "login_mint"
    <2>1. Session[d] = "none"
      BY <1>1, <1>9, <1>10 DEF ChainHistory, InUse
    <2> QED
      BY <1>1, <1>8, <2>1 DEF Lifecycle!Next, Lifecycle!SignIn, Session
  <1>11. CASE req[r].pc = "password_mint"
    <2>1. d \in InUse /\ "password" \in Op
      BY <1>1, <1>11 DEF ChainHistory, PasswordPc, InUse
    <2>2. CASE d \in Live
      BY <1>1, <1>8, <1>9, <2>2 DEF Session
    <2>3. CASE d \notin Live
      BY <1>1, <1>8, <1>9, <2>1, <2>3 DEF Lifecycle!Next, Lifecycle!Renew, Session
    <2> QED
      BY <2>2, <2>3
  <1>12. CASE req[r].jti \in Minted /\ Current(req[r].jti) /\ tok'[n].chain = tok[req[r].jti].chain
    <2>1. d \in Live
      BY <1>1, <1>12 DEF Live, Valid
    <2> QED
      BY <1>1, <1>8, <1>9, <2>1 DEF Session
  <1> QED
    BY <1>1, <1>10, <1>11, <1>12

\* Whatever is rotated, claimed or swept underneath, a login session is started
\* once, ends at any moment and stays ended, a password change on it excepted.
THEOREM RefinesLifecycle == Spec => ImplementsLifecycle
  <1>1. Init => Lifecycle!Init
    BY NoneAssumption DEF Init, Lifecycle!Init, SessionOf, Used, NoToken
  <1>2. HistoryInv /\ [Next]_vars => [Lifecycle!Next]_Session
    <2> SUFFICES ASSUME HistoryInv, [Next]_vars PROVE Lifecycle!Next \/ UNCHANGED Session
      OBVIOUS
    <2>1. CASE UNCHANGED tok
      BY <2>1, QuietStepEnds
    <2>2. CASE MintStep
      BY <2>2, MintStepMaps
    <2> QED
      BY <2>1, <2>2, OnlyMintsMint
  <1>3. HistoryInv /\ [Next]_vars => [Lifecycle!Next]_([c \in Chain |-> SessionOf(c)])
    BY <1>2 DEF Session
  <1> QED
    BY <1>1, <1>3, HistoryInvariant, PTL DEF Spec, ImplementsLifecycle, Lifecycle!Spec
=============================================================================
