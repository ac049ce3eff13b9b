------------------------- MODULE BrowserSessionProofs -------------------------
(***************************************************************************)
(* The types of BrowserSession, FailsClosed, NoFalseBounce and             *)
(* CachesMatchAccount, for any accounts, permissions and number of faults. *)
(***************************************************************************)
EXTENDS BrowserSession, SequenceTheorems, TLAPS

Beliefs == [auth: {"unknown", "in", "out"}, pending: BOOLEAN, who: Account \cup {NoOne},
            perms: SUBSET Actions, asOf: 0..MaxChanges]
Fetches == [at: {"idle", "sent", "answered", "renewing", "renewed"}, retried: BOOLEAN,
            status: {"none", "ok", "unauthorized", "error"}, body: Profiles]
Logins  == [at: {"idle", "posting", "profile", "loaded", "refused"},
            who: Account \cup {NoOne}, body: Profiles]
Events  == {"permissions_changed", "sessions"}
Queues  == {q \in Seq(Events) : Len(q) <= 2 /\ \A i, j \in 1..Len(q) : i # j => q[i] # q[j]}
Streams == [of: Account \cup {NoOne}, queue: Queues]

\* GET /auth/me has been answered with a profile.
FetchOk == fetch.at = "answered" /\ fetch.status = "ok"

ServerInv ==
    /\ jar \in Account \cup {NoOne} /\ alive \subseteq Account
    /\ granted \in [Account -> Grants] /\ removed \in [Account -> SUBSET Actions]
    /\ epoch \in [Account -> 0..MaxChanges]
    /\ count \in [logins: Nat, changes: 0..MaxChanges, faults: Nat]
    /\ \A a \in Account : epoch[a] <= count.changes

\* The stream is open only while the store is signed in.
StoreInv ==
    /\ store \in Beliefs /\ (store.auth = "in" <=> store.who # NoOne)
    /\ stream \in Streams
    /\ stream.of # NoOne => store.auth = "in"
    /\ stream.queue # <<>> => stream.of # NoOne

PageInv == route \in Route /\ was \in BOOLEAN /\ (was => route \in Protected)

FetchInv == fetch \in Fetches /\ (FetchOk => fetch.body.who \in Account)

LoginInv ==
    /\ login \in Logins
    /\ login.at # "idle" => login.who \in Account
    /\ login.at = "loaded" => login.body.who \in Account

RestInv ==
    /\ loaded \in BOOLEAN /\ mark \in BOOLEAN /\ mixed \in BOOLEAN
    /\ logout \in {"idle", "sent", "done", "failed"}
    /\ own \in {"idle", "sent", "made", "refused"}
    /\ cache \in [Key -> Account \cup {NoOne}]
    /\ seen \in 0..MaxChanges

TypeInv == ServerInv /\ StoreInv /\ PageInv /\ FetchInv /\ LoginInv /\ RestInv

-----------------------------------------------------------------------------
(* Types *)

LEMMA SmallTypes ==
  ASSUME ServerInv
  PROVE  /\ NoProfile \in Profiles /\ NoFetch \in Fetches /\ NoFetch.at = "idle"
         /\ \A r \in BOOLEAN : Sent(r) \in Fetches /\ Sent(r).at = "sent"
         /\ \A a \in Account : Profile(a) \in Profiles /\ Profile(a).who = a
  <1>1. 0 \in 0..MaxChanges /\ {} \in SUBSET Actions
    BY LimitAssumption
  <1>2. NoProfile \in Profiles
    BY <1>1 DEF NoProfile, Profiles
  <1>3. NoFetch \in Fetches /\ NoFetch.at = "idle"
    BY <1>2 DEF NoFetch, Fetches
  <1>4. ASSUME NEW r \in BOOLEAN PROVE Sent(r) \in Fetches /\ Sent(r).at = "sent"
    BY <1>2, <1>4 DEF Sent, NoFetch, Fetches
  <1>5. ASSUME NEW a \in Account PROVE Profile(a) \in Profiles /\ Profile(a).who = a
    BY <1>5 DEF Profile, Profiles, ServerInv, Actions
  <1> QED
    BY <1>2, <1>3, <1>4, <1>5

LEMMA BeliefTypes ==
  ASSUME NEW p \in Profiles
  PROVE  \A x \in {"unknown", "in", "out"} :
            /\ Belief(x, p) \in Beliefs /\ Belief(x, p).auth = x /\ ~Belief(x, p).pending
            /\ Belief(x, p).who = p.who /\ Belief(x, p).perms = p.perms
            /\ Belief(x, p).asOf = p.asOf
  BY DEF Belief, Beliefs, Profiles

LEMMA SignedOutTypes ==
  ASSUME ServerInv
  PROVE  /\ SignedOut \in Beliefs /\ SignedOut.auth = "out" /\ SignedOut.who = NoOne
         /\ SignedOut.perms = {} /\ ~SignedOut.pending
  <1>1. NoProfile.who = NoOne /\ NoProfile.perms = {}
    BY DEF NoProfile
  <1>2. NoProfile \in Profiles
    BY SmallTypes
  <1> QED
    BY <1>1, <1>2, BeliefTypes DEF SignedOut

LEMMA SignedInTypes ==
  ASSUME NEW p \in Profiles
  PROVE  /\ SignedIn(p) \in Beliefs /\ SignedIn(p).auth = "in" /\ SignedIn(p).who = p.who
         /\ SignedIn(p).perms = p.perms /\ SignedIn(p).asOf = p.asOf /\ ~SignedIn(p).pending
  BY BeliefTypes DEF SignedIn

LEMMA DroppedTypes ==
  ASSUME NEW s \in Beliefs
  PROVE  LET d == dropPermissions(s) IN
         /\ d \in Beliefs /\ d.auth = s.auth /\ d.who = s.who /\ d.perms = {}
         /\ d.asOf = s.asOf /\ d.pending
  BY DEF dropPermissions, Beliefs

LEMMA RenderTypes ==
  ASSUME NEW s, NEW r \in Route, Render(s, r)
  PROVE  store' = s /\ PageInv'
  <1> DEFINE w    == was \/ (r \in Protected /\ Allowed(s, r))
             next == IF r \in Protected THEN ProtectedRoute(s, r, w)
                     ELSE IF r = "login" /\ s.auth = "in" THEN "dashboard" ELSE r
  <1>1. store' = s /\ route' = next /\ was' = (next \in Protected /\ (w \/ Allowed(s, next)))
    BY DEF Render
  <1>2. next \in Route
    BY DEF ProtectedRoute, Route, Protected
  <1>3. was' \in BOOLEAN /\ (was' => next \in Protected)
    <2> HIDE DEF next, w
    <2> QED
      BY <1>1, Zenon
  <1> HIDE DEF next, w
  <1> QED
    BY <1>1, <1>2, <1>3 DEF PageInv

LEMMA EmptyQueue == <<>> \in Queues
  BY EmptySeq DEF Queues

LEMMA StreamedTypes ==
  ASSUME ServerInv, StoreInv, NEW s \in Beliefs, s.auth = "in" <=> s.who # NoOne
  PROVE  LET m == Streamed(s) IN
         /\ m \in Streams /\ (m.of # NoOne => s.auth = "in")
         /\ m.queue # <<>> => m.of # NoOne
  <1>1. \A x \in Account \cup {NoOne} : [of |-> x, queue |-> <<>>] \in Streams
    BY EmptyQueue DEF Streams
  <1>2. CASE s.auth # "in"
    <2>1. Streamed(s) = [of |-> NoOne, queue |-> <<>>]
      BY <1>2 DEF Streamed
    <2> QED
      BY <1>1, <2>1
  <1>3. CASE s.auth = "in" /\ store.auth = "in"
    BY <1>3 DEF Streamed, StoreInv
  <1>4. CASE s.auth = "in" /\ store.auth # "in"
    <2>1. Streamed(s) = [of |-> jar, queue |-> <<>>]
      BY <1>4 DEF Streamed
    <2> QED
      BY <1>1, <1>4, <2>1 DEF ServerInv
  <1> QED
    BY <1>2, <1>3, <1>4

\* The store becomes s and the stream follows.
LEMMA StoreTypes ==
  ASSUME TypeInv, NEW s \in Beliefs, s.auth = "in" <=> s.who # NoOne, NEW r \in Route,
         Render(s, r), stream' = Streamed(s)
  PROVE  StoreInv' /\ PageInv' /\ store' = s
  <1>1. store' = s /\ PageInv'
    BY RenderTypes
  <1>2. /\ stream' \in Streams /\ (stream'.of # NoOne => s.auth = "in")
        /\ stream'.queue # <<>> => stream'.of # NoOne
    BY StreamedTypes DEF TypeInv
  <1> QED
    BY <1>1, <1>2 DEF StoreInv

LEMMA EndSessionTypes ==
  ASSUME TypeInv, EndSession(SignedOut)
  PROVE  /\ StoreInv' /\ PageInv' /\ store' = SignedOut /\ loaded' = TRUE /\ seen' = 0
         /\ cache' \in [Key -> Account \cup {NoOne}] /\ 0 \in 0..MaxChanges
         /\ \A k \in DroppedKey : cache'[k] = NoOne
  <1>1. StoreInv' /\ PageInv' /\ store' = SignedOut
    BY SignedOutTypes, StoreTypes DEF EndSession, TypeInv, PageInv
  <1>2. cache' \in [Key -> Account \cup {NoOne}] /\ \A k \in DroppedKey : cache'[k] = NoOne
    BY DEF EndSession, clearMyAccountSessionCaches, TypeInv, RestInv, Key
  <1> QED
    BY <1>1, <1>2, LimitAssumption DEF EndSession

LEMMA AppendTypes ==
  ASSUME NEW q \in Queues, NEW e \in Events, e \notin {q[i] : i \in DOMAIN q}
  PROVE  Append(q, e) \in Queues
  <1> DEFINE z == Append(q, e)
  <1>1. q \in Seq(Events) /\ Len(q) \in 0..2 /\ DOMAIN q = 1..Len(q) /\ q \in [1..Len(q) -> Events]
    <2>1. q \in Seq(Events) /\ Len(q) <= 2
      BY DEF Queues
    <2>2. Len(q) \in Nat /\ q \in [1..Len(q) -> Events]
      BY <2>1, LenProperties
    <2> QED
      BY <2>1, <2>2
  <1>2. /\ z \in Seq(Events) /\ Len(z) = Len(q) + 1 /\ z[Len(q) + 1] = e
        /\ \A i \in 1..Len(q) : z[i] = q[i]
    BY <1>1, AppendProperties
  <1>3. \A i \in 1..Len(q) : q[i] # e /\ q[i] \in Events
    BY <1>1
  <1>4. Len(q) # 2
    <2> SUFFICES ASSUME Len(q) = 2 PROVE FALSE
      OBVIOUS
    <2>1. 1 \in 1..Len(q) /\ 2 \in 1..Len(q)
      OBVIOUS
    <2>2. q[1] # e /\ q[2] # e /\ q[1] \in Events /\ q[2] \in Events
      BY <1>3, <2>1
    <2>3. q[1] # q[2]
      BY <2>1 DEF Queues
    <2> QED
      BY <2>2, <2>3 DEF Events
  <1> HIDE DEF z
  <1>5. ASSUME NEW i \in 1..Len(z), NEW j \in 1..Len(z), i # j PROVE z[i] # z[j]
    <2>1. CASE i \in 1..Len(q) /\ j \in 1..Len(q)
      BY <1>2, <1>5, <2>1 DEF Queues
    <2>2. CASE i = Len(q) + 1
      BY <1>1, <1>2, <1>3, <1>5, <2>2
    <2>3. CASE j = Len(q) + 1
      BY <1>1, <1>2, <1>3, <1>5, <2>3
    <2> QED
      BY <1>1, <1>2, <2>1, <2>2, <2>3
  <1>6. Len(z) <= 2
    BY <1>1, <1>2, <1>4
  <1>7. z \in Queues
    BY <1>2, <1>5, <1>6 DEF Queues
  <1> QED
    BY <1>7 DEF z

LEMMA PushTypes ==
  ASSUME StoreInv, NEW a \in Account, NEW e \in Events
  PROVE  LET m == Push(a, e) IN
         /\ m \in Streams /\ m.of = stream.of /\ (m.queue # <<>> => m.of # NoOne)
  <1>1. stream \in Streams /\ stream.queue \in Queues /\ stream.of \in Account \cup {NoOne}
    BY DEF StoreInv, Streams
  <1>2. CASE Push(a, e) = stream
    BY <1>1, <1>2 DEF StoreInv
  <1>3. CASE stream.of = a /\ e \notin {stream.queue[i] : i \in DOMAIN stream.queue}
    <2> DEFINE z == Append(stream.queue, e)
    <2>1. Push(a, e) = [stream EXCEPT !.queue = z] /\ z \in Queues
      BY <1>1, <1>3, AppendTypes DEF Push
    <2> HIDE DEF z
    <2> QED
      BY <1>1, <1>3, <2>1, AccountAssumption DEF Streams
  <1> QED
    BY <1>2, <1>3 DEF Push

LEMMA TailTypes ==
  ASSUME NEW q \in Queues, q # <<>>
  PROVE  Tail(q) \in Queues /\ Head(q) \in Events
  <1> DEFINE z == Tail(q)
             n == Len(q)
             m == Len(z)
  <1>1. q \in Seq(Events) /\ n <= 2
    BY DEF Queues
  <1>2. n \in Nat /\ n # 0
    BY <1>1, LenProperties, EmptySeq
  <1>3. /\ Head(q) \in Events /\ z \in Seq(Events) /\ m = n - 1
        /\ \A i \in 1..m : z[i] = q[i + 1]
    BY <1>1, HeadTailProperties
  <1> HIDE DEF m, n
  <1>4. m \in 0..1
    BY <1>1, <1>2, <1>3
  <1>5. \A i, j \in 1..m : i = j
    BY <1>4
  <1>6. z \in Queues
    <2> HIDE DEF z
    <2>1. m = Len(z) /\ m <= 2
      BY <1>4 DEF m
    <2> QED
      BY <1>3, <1>5, <2>1 DEF Queues
  <1> QED
    BY <1>3, <1>6

\* A change of permissions.
LEMMA GrantTypes ==
  ASSUME TypeInv, NEW a \in Account, NEW g \in Grants, ChangeGrants(a, g), jar' = jar, alive' = alive,
         store' = store
  PROVE  ServerInv' /\ StoreInv'
  <1>1. /\ count \in [logins: Nat, changes: 0..MaxChanges, faults: Nat] /\ count.changes < MaxChanges
        /\ count' = [count EXCEPT !.changes = count.changes + 1] /\ MaxChanges \in Nat
    BY LimitAssumption DEF ChangeGrants, TypeInv, ServerInv
  <1>2. /\ count' \in [logins: Nat, changes: 0..MaxChanges, faults: Nat]
        /\ count'.changes = count.changes + 1
    BY <1>1
  <1>3. granted' \in [Account -> Grants]
    BY DEF ChangeGrants, TypeInv, ServerInv
  <1>4. removed' \in [Account -> SUBSET Actions]
    <2>1. granted[a] \subseteq Actions
      BY DEF TypeInv, ServerInv, Actions
    <2> QED
      BY <2>1 DEF ChangeGrants, TypeInv, ServerInv
  <1>5. /\ epoch' = [epoch EXCEPT ![a] = epoch[a] + 1] /\ epoch \in [Account -> 0..MaxChanges]
        /\ \A b \in Account : epoch[b] <= count.changes
    BY DEF ChangeGrants, TypeInv, ServerInv
  <1>6. ASSUME NEW b \in Account PROVE epoch'[b] \in 0..MaxChanges /\ epoch'[b] <= count'.changes
    <2>1. epoch[b] \in 0..MaxChanges /\ epoch[b] <= count.changes /\ count.changes \in Nat
      BY <1>1, <1>5
    <2>2. epoch'[b] = epoch[b] \/ epoch'[b] = epoch[b] + 1
      BY <1>5
    <2> QED
      BY <1>1, <1>2, <2>1, <2>2
  <1>7. epoch' \in [Account -> 0..MaxChanges]
    BY <1>5, <1>6
  <1>8. ServerInv'
    BY <1>2, <1>3, <1>4, <1>6, <1>7 DEF TypeInv, ServerInv
  <1>9. StoreInv'
    <2>1. stream' = Push(a, "permissions_changed")
      BY DEF ChangeGrants
    <2> QED
      BY <2>1, PushTypes DEF TypeInv, StoreInv, Events
  <1> QED
    BY <1>8, <1>9

LEMMA InitTypeInv == Init => TypeInv
  <1> SUFFICES ASSUME Init PROVE TypeInv
    OBVIOUS
  <1>1. ServerInv
    <2>1. jar \in Account \cup {NoOne} /\ alive \subseteq Account
      BY AccountAssumption DEF Init
    <2>2. granted \in [Account -> Grants] /\ removed \in [Account -> SUBSET Actions]
      BY DEF Init
    <2>3. /\ epoch \in [Account -> 0..MaxChanges] /\ \A a \in Account : epoch[a] <= count.changes
          /\ count \in [logins: Nat, changes: 0..MaxChanges, faults: Nat]
      BY LimitAssumption DEF Init
    <2> QED
      BY <2>1, <2>2, <2>3 DEF ServerInv
  <1>2. StoreInv
    <2>1. Unchecked \in Beliefs /\ Unchecked.auth = "unknown" /\ Unchecked.who = NoOne
      BY <1>1, SmallTypes, BeliefTypes DEF Unchecked, NoProfile
    <2>2. [of |-> NoOne, queue |-> <<>>] \in Streams
      BY EmptyQueue DEF Streams
    <2> QED
      BY <2>1, <2>2 DEF Init, StoreInv
  <1>3. PageInv
    BY DEF Init, PageInv, Route, Protected
  <1>4. FetchInv
    <2>1. fetch = Sent(FALSE)
      BY DEF Init
    <2> QED
      BY <1>1, <2>1, SmallTypes DEF FetchInv, FetchOk
  <1>5. LoginInv
    <2>1. login = [at |-> "idle", who |-> NoOne, body |-> NoProfile]
      BY DEF Init
    <2>2. NoProfile \in Profiles
      BY <1>1, SmallTypes
    <2>3. login \in Logins /\ login.at = "idle"
      BY <2>1, <2>2 DEF Logins
    <2> QED
      BY <2>3 DEF LoginInv
  <1>6. RestInv
    <2>1. loaded \in BOOLEAN /\ mark \in BOOLEAN /\ mixed \in BOOLEAN
      BY DEF Init
    <2>2. logout = "idle" /\ own = "idle" /\ cache \in [Key -> Account \cup {NoOne}]
      BY DEF Init
    <2>3. seen \in 0..MaxChanges
      BY LimitAssumption DEF Init
    <2> QED
      BY <2>1, <2>2, <2>3 DEF RestInv
  <1> QED
    BY <1>1, <1>2, <1>3, <1>4, <1>5, <1>6 DEF TypeInv

\* The actions of the server, the timers and the user that leave store and page
\* alone.
QuietAction ==
    \/ Poll \/ ServerAnswersMe \/ MeFails \/ ServerRenews
    \/ (\E a \in Account : Login(a))
    \/ ServerLogsIn \/ ServerSendsProfile \/ Logout \/ ServerLogsOut
    \/ (\E a \in Account : \E g \in Grants : PoliciesChange(a, g))
    \/ SendOwnChange \/ ServerMakesOwnChange \/ ReceiveOwnChange \/ MarkExpires
    \/ (\E a \in Account : SessionsChange(a))
    \/ StreamDrops \/ StreamReturns

LEMMA FetchTypes ==
  ASSUME TypeInv, Poll \/ ServerAnswersMe \/ MeFails \/ ServerRenews
  PROVE  TypeInv'
  <1>1. fetch \in Fetches /\ fetch.body \in Profiles
    BY DEF TypeInv, FetchInv, Fetches
  <1>2. FetchInv' /\ StoreInv' /\ PageInv' /\ LoginInv' /\ RestInv' /\ UNCHANGED <<jar, server>>
    <2>1. CASE Poll
      <3>1. fetch' \in Fetches /\ fetch'.at = "sent"
        BY <2>1, SmallTypes DEF Poll, TypeInv
      <3>2. FetchInv'
        BY <3>1 DEF FetchInv, FetchOk
      <3> QED
        BY <2>1, <3>2 DEF Poll, TypeInv, StoreInv, PageInv, LoginInv, RestInv, page, ghosts
    <2>2. CASE ServerAnswersMe
      <3>1. ASSUME NEW p \in Profiles
            PROVE  /\ Answers(TRUE, p) \in Fetches /\ Answers(TRUE, p).body = p
                   /\ Answers(FALSE, p) \in Fetches /\ Answers(FALSE, p).status # "ok"
        <4>1. Answers(TRUE, p) = [fetch EXCEPT !.at = "answered", !.body = p, !.status = "ok"]
          BY DEF Answers
        <4>2. Answers(FALSE, p) = [fetch EXCEPT !.at = "answered", !.body = p, !.status = "unauthorized"]
          BY DEF Answers
        <4>3. Answers(TRUE, p) \in Fetches /\ Answers(TRUE, p).body = p
          BY <1>1, <3>1, <4>1 DEF Fetches
        <4> QED
          BY <1>1, <3>1, <4>2, <4>3 DEF Fetches
      <3>2. (fetch' = Answers(TRUE, Profile(jar)) /\ jar \in Account) \/ fetch' = Answers(FALSE, NoProfile)
        BY <2>2 DEF ServerAnswersMe, TypeInv, ServerInv
      <3>3. FetchInv'
        <4>1. CASE jar \in Account /\ fetch' = Answers(TRUE, Profile(jar))
          BY <3>1, <4>1, SmallTypes DEF FetchInv, TypeInv
        <4>2. CASE fetch' = Answers(FALSE, NoProfile)
          <5>1. NoProfile \in Profiles
            BY SmallTypes DEF TypeInv
          <5> QED
            BY <3>1, <4>2, <5>1 DEF FetchInv, FetchOk
        <4> QED
          BY <3>2, <4>1, <4>2
      <3> QED
        BY <2>2, <3>3 DEF ServerAnswersMe, TypeInv, StoreInv, PageInv, LoginInv, RestInv, page, ghosts
    <2>3. CASE MeFails
      <3>1. FetchInv'
        BY <1>1, <2>3, SmallTypes DEF MeFails, FetchInv, FetchOk, Fetches, TypeInv
      <3> QED
        BY <2>3, <3>1 DEF MeFails, TypeInv, StoreInv, PageInv, LoginInv, RestInv, page, ghosts
    <2>4. CASE ServerRenews
      <3>1. FetchInv'
        BY <1>1, <2>4 DEF ServerRenews, FetchInv, FetchOk, Fetches
      <3> QED
        BY <2>4, <3>1 DEF ServerRenews, TypeInv, StoreInv, PageInv, LoginInv, RestInv, page, ghosts
    <2> QED
      BY <2>1, <2>2, <2>3, <2>4
  <1>3. count' = count \/ count' = [count EXCEPT !.faults = @ + 1]
    BY DEF Poll, ServerAnswersMe, MeFails, ServerRenews
  <1>4. ServerInv'
    BY <1>2, <1>3 DEF TypeInv, ServerInv, server
  <1> QED
    BY <1>2, <1>4 DEF TypeInv

LEMMA LoginTypes ==
  ASSUME TypeInv,
         (\E a \in Account : Login(a)) \/ ServerLogsIn \/ ServerSendsProfile \/ Logout \/ ServerLogsOut
  PROVE  TypeInv'
  <1>1. login \in Logins
    BY DEF TypeInv, LoginInv
  <1>2. ASSUME NEW a \in Account, Login(a) PROVE TypeInv'
    <2>1. LoginInv'
      BY <1>1, <1>2 DEF Login, TypeInv, LoginInv, Logins
    <2>2. FetchInv'
      <3>1. fetch' = NoFetch
        BY <1>2 DEF Login
      <3> QED
        BY <3>1, SmallTypes DEF TypeInv, FetchInv, FetchOk
    <2>3. ServerInv'
      <3>1. /\ UNCHANGED <<jar, server>> /\ count \in [logins: Nat, changes: 0..MaxChanges, faults: Nat]
            /\ count' = [count EXCEPT !.logins = count.logins + 1]
        BY <1>2 DEF Login, TypeInv, ServerInv
      <3>2. /\ count' \in [logins: Nat, changes: 0..MaxChanges, faults: Nat]
            /\ count'.changes = count.changes
        BY <3>1
      <3> QED
        BY <3>1, <3>2 DEF TypeInv, ServerInv, server
    <2>4. mixed' \in BOOLEAN
      BY <1>2 DEF Login, TypeInv, RestInv
    <2> QED
      BY <1>2, <2>1, <2>2, <2>3, <2>4 DEF Login, TypeInv, StoreInv, PageInv, RestInv, page
  <1>3. CASE ServerLogsIn
    <2>1. LoginInv'
      BY <1>1, <1>3 DEF ServerLogsIn, TypeInv, LoginInv, Logins
    <2>2. login.who \in Account
      BY <1>3 DEF ServerLogsIn, TypeInv, LoginInv
    <2>3. ServerInv'
      BY <1>3, <2>2 DEF ServerLogsIn, TypeInv, ServerInv
    <2> QED
      BY <1>3, <2>1, <2>3 DEF ServerLogsIn, TypeInv, StoreInv, PageInv, RestInv, FetchInv, FetchOk, page,
         ghosts
  <1>4. CASE ServerSendsProfile
    <2>1. jar \in alive => jar \in Account
      BY DEF TypeInv, ServerInv
    <2>2. LoginInv'
      BY <1>1, <1>4, <2>1, SmallTypes DEF ServerSendsProfile, TypeInv, LoginInv, Logins
    <2> QED
      BY <1>4, <2>2 DEF ServerSendsProfile, TypeInv, ServerInv, StoreInv, PageInv, RestInv, FetchInv,
         FetchOk, page, ghosts, server
  <1>5. CASE Logout
    BY <1>5 DEF Logout, TypeInv, ServerInv, StoreInv, PageInv, RestInv, FetchInv, FetchOk, LoginInv, page,
       ghosts, server
  <1>6. CASE ServerLogsOut
    <2>1. ServerInv'
      BY <1>6 DEF ServerLogsOut, TypeInv, ServerInv
    <2> QED
      BY <1>6, <2>1 DEF ServerLogsOut, TypeInv, StoreInv, PageInv, RestInv, FetchInv, FetchOk, LoginInv,
         page, ghosts
  <1> QED
    BY <1>2, <1>3, <1>4, <1>5, <1>6

LEMMA OtherTypes ==
  ASSUME TypeInv,
         \/ (\E a \in Account : \E g \in Grants : PoliciesChange(a, g))
         \/ SendOwnChange \/ ServerMakesOwnChange \/ ReceiveOwnChange \/ MarkExpires
         \/ (\E a \in Account : SessionsChange(a))
         \/ StreamDrops \/ StreamReturns
  PROVE  TypeInv'
  <1>1. ASSUME NEW a \in Account, NEW g \in Grants, PoliciesChange(a, g) PROVE TypeInv'
    <2>1. ServerInv' /\ StoreInv'
      BY <1>1, GrantTypes DEF PoliciesChange
    <2> QED
      BY <1>1, <2>1 DEF PoliciesChange, TypeInv, PageInv, FetchInv, FetchOk, LoginInv, RestInv, page, ghosts
  <1>2. CASE ServerMakesOwnChange
    <2>1. ServerInv' /\ StoreInv'
      <3>1. ASSUME jar \in alive, NEW g \in Grants, ChangeGrants(jar, g) PROVE ServerInv' /\ StoreInv'
        <4>1. jar \in Account
          BY <3>1 DEF TypeInv, ServerInv
        <4> QED
          BY <1>2, <3>1, <4>1, GrantTypes DEF ServerMakesOwnChange
      <3>2. CASE UNCHANGED <<granted, epoch, removed, stream, count>>
        BY <1>2, <3>2 DEF ServerMakesOwnChange, TypeInv, ServerInv, StoreInv
      <3> QED
        BY <1>2, <3>1, <3>2 DEF ServerMakesOwnChange
    <2>2. RestInv'
      BY <1>2 DEF ServerMakesOwnChange, TypeInv, RestInv, ghosts
    <2> QED
      BY <1>2, <2>1, <2>2 DEF ServerMakesOwnChange, TypeInv, PageInv, FetchInv, FetchOk, LoginInv, page
  <1>3. CASE SendOwnChange \/ MarkExpires
    <2>1. RestInv'
      BY <1>3 DEF SendOwnChange, MarkExpires, TypeInv, RestInv, ghosts
    <2>2. UNCHANGED <<jar, server, store, fetch, login, stream, page, count>>
      BY <1>3 DEF SendOwnChange, MarkExpires
    <2> QED
      BY <2>1, <2>2 DEF TypeInv, ServerInv, StoreInv, PageInv, FetchInv, FetchOk, LoginInv, page, server
  <1>4. CASE ReceiveOwnChange
    <2>1. RestInv'
      BY <1>4 DEF ReceiveOwnChange, TypeInv, RestInv, ghosts
    <2>2. UNCHANGED <<jar, server, store, login, stream, page, count>>
      BY <1>4 DEF ReceiveOwnChange
    <2>3. fetch' = fetch \/ fetch' = Sent(FALSE)
      BY <1>4 DEF ReceiveOwnChange, invalidateMe
    <2>4. FetchInv'
      BY <2>3, SmallTypes DEF TypeInv, FetchInv, FetchOk
    <2> QED
      BY <2>1, <2>2, <2>4 DEF TypeInv, ServerInv, StoreInv, PageInv, LoginInv, page, server
  <1>5. ASSUME NEW a \in Account, SessionsChange(a) PROVE TypeInv'
    <2>1. StoreInv'
      <3>1. stream' = Push(a, "sessions") /\ store' = store
        BY <1>5 DEF SessionsChange
      <3> QED
        BY <3>1, PushTypes DEF TypeInv, StoreInv, Events
    <2>2. ServerInv'
      BY <1>5 DEF SessionsChange, TypeInv, ServerInv
    <2> QED
      BY <1>5, <2>1, <2>2 DEF SessionsChange, TypeInv, PageInv, FetchInv, FetchOk, LoginInv, RestInv, page,
         ghosts
  <1>6. CASE StreamDrops \/ StreamReturns
    <2>1. StoreInv'
      <3>1. \A x \in Account \cup {NoOne} : [of |-> x, queue |-> <<>>] \in Streams
        BY EmptyQueue DEF Streams
      <3>2. /\ stream' \in Streams /\ stream'.queue = <<>> /\ store' = store
            /\ stream'.of # NoOne => store.auth = "in"
        BY <1>6, <3>1 DEF StreamDrops, StreamReturns, TypeInv, ServerInv
      <3> QED
        BY <3>2 DEF TypeInv, StoreInv
    <2>2. UNCHANGED <<jar, server, fetch, loaded, login, logout, own, mark, cache, page, ghosts>>
      BY <1>6 DEF StreamDrops, StreamReturns
    <2>3. ServerInv'
      BY <1>6, <2>2 DEF StreamDrops, StreamReturns, TypeInv, ServerInv, server
    <2> QED
      BY <2>1, <2>2, <2>3 DEF TypeInv, PageInv, FetchInv, FetchOk, LoginInv, RestInv, page, ghosts
  <1> QED
    BY <1>1, <1>2, <1>3, <1>4, <1>5, <1>6

\* The actions in which the store may change and the page renders.
RenderAction ==
    \/ ReceiveMe \/ ReceiveRenewal \/ LoginDone \/ ReceiveLogout \/ ReceiveEvent
    \/ (\E l \in Offered : Navigate(l)) \/ (\E k \in Key : LoadQuery(k))

LEMMA ReceiveTypes ==
  ASSUME TypeInv, ReceiveMe \/ ReceiveRenewal
  PROVE  TypeInv'
  <1>1. fetch \in Fetches /\ fetch.body \in Profiles /\ route \in Route
    BY DEF TypeInv, FetchInv, Fetches, PageInv
  <1>2. UNCHANGED <<jar, server, login, logout, own, mark, count, mixed>>
    BY DEF ReceiveMe, ReceiveRenewal
  <1>3. ServerInv' /\ LoginInv'
    BY <1>2 DEF TypeInv, ServerInv, LoginInv, server
  <1>4. FetchInv'
    <2>1. \/ fetch' = NoFetch \/ fetch' = Sent(TRUE)
          \/ fetch' = [fetch EXCEPT !.at = "renewing"]
      BY DEF ReceiveMe, ReceiveRenewal
    <2>2. fetch' \in Fetches /\ fetch'.at # "answered"
      BY <1>1, <2>1, SmallTypes DEF TypeInv, Fetches
    <2> QED
      BY <2>2 DEF FetchInv, FetchOk
  <1>5. CASE EndSession(SignedOut)
    BY <1>2, <1>3, <1>4, <1>5, EndSessionTypes DEF TypeInv, RestInv
  <1>6. CASE ReceiveMe /\ fetch.status = "ok"
    <2>1. FetchOk /\ fetch.body.who # NoOne
      BY <1>6, AccountAssumption DEF ReceiveMe, FetchOk, TypeInv, FetchInv
    <2>2. Render(SignedIn(fetch.body), route) /\ stream' = Streamed(SignedIn(fetch.body))
      BY <1>6 DEF ReceiveMe
    <2>3. StoreInv' /\ PageInv'
      BY <1>1, <2>1, <2>2, SignedInTypes, StoreTypes
    <2>4. RestInv'
      BY <1>2, <1>6, LimitAssumption DEF ReceiveMe, TypeInv, RestInv
    <2> QED
      BY <1>3, <1>4, <2>3, <2>4 DEF TypeInv
  <1>7. CASE ReceiveMe /\ fetch.status = "error"
    <2>1. Render(SignedOut, route) /\ stream' = Streamed(SignedOut)
      BY <1>7 DEF ReceiveMe
    <2>2. StoreInv' /\ PageInv'
      BY <1>1, <2>1, SignedOutTypes, StoreTypes DEF TypeInv
    <2>3. RestInv'
      BY <1>2, <1>7, LimitAssumption DEF ReceiveMe, TypeInv, RestInv
    <2> QED
      BY <1>3, <1>4, <2>2, <2>3 DEF TypeInv
  <1>8. CASE UNCHANGED <<store, page, stream, loaded, cache, seen>>
    BY <1>2, <1>3, <1>4, <1>8 DEF TypeInv, StoreInv, PageInv, RestInv, page
  <1> QED
    BY <1>5, <1>6, <1>7, <1>8 DEF ReceiveMe, ReceiveRenewal

LEMMA DoneTypes ==
  ASSUME TypeInv, LoginDone \/ ReceiveLogout
  PROVE  TypeInv'
  <1>1. login \in Logins /\ login.body \in Profiles /\ route \in Route
    BY DEF TypeInv, LoginInv, Logins, PageInv
  <1>2. CASE LoginDone
    <2>1. UNCHANGED <<jar, server, fetch, logout, own, mark, count, mixed>>
      BY <1>2 DEF LoginDone
    <2>2. ServerInv' /\ FetchInv'
      BY <2>1 DEF TypeInv, ServerInv, FetchInv, FetchOk, server
    <2>3. LoginInv'
      <3>1. login' = [at |-> "idle", who |-> NoOne, body |-> NoProfile]
        BY <1>2 DEF LoginDone
      <3> QED
        BY <3>1, SmallTypes DEF TypeInv, LoginInv, Logins
    <2>4. CASE login.at = "loaded"
      <3>1. login.body.who # NoOne
        BY <2>4, AccountAssumption DEF TypeInv, LoginInv
      <3> DEFINE r == IF route = "login" THEN "dashboard" ELSE route
      <3>2. r \in Route /\ Render(SignedIn(login.body), r) /\ stream' = Streamed(SignedIn(login.body))
        BY <1>1, <1>2, <2>4 DEF LoginDone, Route, Protected
      <3> HIDE DEF r
      <3>3. StoreInv' /\ PageInv'
        BY <1>1, <3>1, <3>2, SignedInTypes, StoreTypes
      <3>4. RestInv'
        BY <1>2, <2>1, <2>4, LimitAssumption DEF LoginDone, TypeInv, RestInv
      <3> QED
        BY <2>2, <2>3, <3>3, <3>4 DEF TypeInv
    <2>5. CASE EndSession(SignedOut)
      BY <2>1, <2>2, <2>3, <2>5, EndSessionTypes DEF TypeInv, RestInv
    <2> QED
      BY <1>2, <2>4, <2>5 DEF LoginDone
  <1>3. CASE ReceiveLogout
    <2>1. EndSession(SignedOut) /\ logout' = "idle" /\ jar' \in {NoOne, jar}
          /\ UNCHANGED <<server, fetch, login, own, mark, count, mixed>>
      BY <1>3 DEF ReceiveLogout
    <2> QED
      BY <2>1, EndSessionTypes DEF TypeInv, ServerInv, FetchInv, FetchOk, LoginInv, RestInv, server
  <1> QED
    BY <1>2, <1>3

LEMMA EventStore ==
  ASSUME TypeInv, ReceiveEvent
  PROVE  store' \in Beliefs /\ store'.auth = store.auth /\ store'.who = store.who /\ PageInv'
  <1>1. store \in Beliefs /\ route \in Route
    BY DEF TypeInv, StoreInv, PageInv
  <1>2. CASE UNCHANGED <<store, page>>
    BY <1>1, <1>2 DEF TypeInv, PageInv, page
  <1>3. CASE Render(IF mark THEN store ELSE dropPermissions(store), route)
    <2> DEFINE s == IF mark THEN store ELSE dropPermissions(store)
    <2>1. s \in Beliefs /\ s.auth = store.auth /\ s.who = store.who
      BY <1>1, DroppedTypes
    <2>2. Render(s, route)
      BY <1>3
    <2> HIDE DEF s
    <2> QED
      BY <1>1, <2>1, <2>2, RenderTypes
  <1> QED
    BY <1>2, <1>3 DEF ReceiveEvent

LEMMA EventTypes ==
  ASSUME TypeInv, ReceiveEvent
  PROVE  TypeInv'
  <1>1. UNCHANGED <<jar, server, login, logout, own, count, mixed>>
    BY DEF ReceiveEvent
  <1>2. stream \in Streams /\ stream.queue # <<>> /\ stream.of # NoOne /\ stream.of \in Account
    BY DEF ReceiveEvent, TypeInv, StoreInv, Streams
  <1>3. stream' \in Streams /\ stream'.of = stream.of
    <2> DEFINE z == Tail(stream.queue)
    <2>1. z \in Queues /\ stream' = [stream EXCEPT !.queue = z]
      BY <1>2, TailTypes DEF ReceiveEvent, Streams
    <2> HIDE DEF z
    <2> QED
      BY <1>2, <2>1 DEF Streams
  <1>4. FetchInv'
    <2>1. fetch' = Sent(FALSE) \/ fetch' = fetch
      BY DEF ReceiveEvent, resetQueries, invalidateMe
    <2> QED
      BY <2>1, SmallTypes DEF TypeInv, FetchInv, FetchOk
  <1>5. store' \in Beliefs /\ store'.auth = store.auth /\ store'.who = store.who /\ PageInv'
    BY EventStore
  <1>6. StoreInv'
    BY <1>2, <1>3, <1>5 DEF TypeInv, StoreInv
  <1>7. RestInv'
    <2>1. seen' \in 0..MaxChanges
      BY <1>2 DEF ReceiveEvent, TypeInv, RestInv, ServerInv
    <2>2. cache' \in [Key -> Account \cup {NoOne}] /\ loaded' \in BOOLEAN /\ mark' \in BOOLEAN
      BY DEF ReceiveEvent, TypeInv, RestInv
    <2> QED
      BY <1>1, <2>1, <2>2 DEF TypeInv, RestInv
  <1> QED
    BY <1>1, <1>4, <1>5, <1>6, <1>7 DEF TypeInv, ServerInv, LoginInv, server

\* Where links lead, and that none of those which ask for nothing lead to a page
\* that asks for something.
LEMMA OfferedLinks ==
  ASSUME NEW l \in Offered
  PROVE  l.to \in Protected /\ (RoutePermission[l.to] = {} \/ can(store, l.any))
  <1>1. l \in NAV_ITEMS \cup SEARCH_ITEMS \cup ServerMatches \cup OperationsShortcuts /\ Shows(store, l)
    BY DEF Offered, Sidebar, PaletteResults
  <1>2. l.to \in Protected /\ (l.any = {} => RoutePermission[l.to] = {})
    <2> DEFINE Ok(m) == m.to \in Protected /\ (m.any = {} => RoutePermission[m.to] = {})
    <2>1. /\ \A m \in NAV_ITEMS : Ok(m)
          /\ \A m \in SEARCH_ITEMS : Ok(m)
          /\ \A m \in ServerMatches : Ok(m)
          /\ \A m \in OperationsShortcuts : Ok(m)
      <3>1. \A r \in {"dashboard", "audit-log", "account-settings"} :
                r \in Protected /\ RoutePermission[r] = {}
        BY DEF Protected, RoutePermission
      <3>2. {"users", "policies", "permissions", "rate-limits"} \subseteq Protected
        BY DEF Protected
      <3>3. \A r, any : Link(r, any).to = r /\ Link(r, any).any = any
        BY DEF Link
      <3>4. \A x : {x} # {}
        OBVIOUS
      <3>5. \A x, y : {x, y} # {}
        OBVIOUS
      <3> QED
        BY <3>1, <3>2, <3>3, <3>4, <3>5 DEF NAV_ITEMS, SEARCH_ITEMS, ServerMatches, OperationsShortcuts
    <2> QED
      BY <1>1, <2>1
  <1> QED
    BY <1>1, <1>2 DEF Shows

LEMMA PageTypes ==
  ASSUME TypeInv, (\E l \in Offered : Navigate(l)) \/ (\E k \in Key : LoadQuery(k))
  PROVE  TypeInv'
  <1>1. ASSUME NEW l \in Offered, Navigate(l) PROVE TypeInv'
    <2>1. l.to \in Route
      BY OfferedLinks DEF Route
    <2>2. store' = store /\ PageInv'
      BY <1>1, <2>1, RenderTypes DEF Navigate
    <2>3. UNCHANGED <<jar, server, fetch, loaded, login, logout, own, mark, stream, cache, count, ghosts>>
      BY <1>1 DEF Navigate
    <2> QED
      BY <2>2, <2>3 DEF TypeInv, ServerInv, StoreInv, FetchInv, FetchOk, LoginInv, RestInv, server, ghosts
  <1>2. ASSUME NEW k \in Key, LoadQuery(k) PROVE TypeInv'
    <2>1. UNCHANGED <<jar, server, fetch, login, logout, own, mark, count, mixed>>
      BY <1>2 DEF LoadQuery
    <2>2. ServerInv' /\ FetchInv' /\ LoginInv'
      BY <2>1 DEF TypeInv, ServerInv, FetchInv, FetchOk, LoginInv, server
    <2>3. CASE EndSession(SignedOut)
      BY <2>1, <2>2, <2>3, EndSessionTypes DEF TypeInv, RestInv
    <2>4. CASE cache' = [cache EXCEPT ![k] = jar] /\ UNCHANGED <<store, page, stream, loaded, seen>>
      <3>1. cache' \in [Key -> Account \cup {NoOne}]
        BY <2>4 DEF TypeInv, ServerInv, RestInv
      <3> QED
        BY <2>1, <2>2, <2>4, <3>1 DEF TypeInv, StoreInv, PageInv, RestInv, page
    <2> QED
      BY <1>2, <2>3, <2>4 DEF LoadQuery
  <1> QED
    BY <1>1, <1>2

LEMMA ActionsOfNext == Next => QuietAction \/ RenderAction
  BY DEF Next, Network, QuietAction, RenderAction

LEMMA NextTypeInv == TypeInv /\ [Next]_vars => TypeInv'
  <1> SUFFICES ASSUME TypeInv, [Next]_vars PROVE TypeInv'
    OBVIOUS
  <1>1. CASE QuietAction
    BY <1>1, FetchTypes, LoginTypes, OtherTypes DEF QuietAction
  <1>2. CASE RenderAction
    BY <1>2, ReceiveTypes, DoneTypes, EventTypes, PageTypes DEF RenderAction
  <1>3. CASE UNCHANGED vars
    BY <1>3 DEF TypeInv, ServerInv, StoreInv, PageInv, FetchInv, FetchOk, LoginInv, RestInv, vars, server,
       page, ghosts
  <1> QED
    BY <1>1, <1>2, <1>3, ActionsOfNext

\* The store, the queries, the event stream and the page stay well typed: no
\* more than one event of a kind waits, the stream is open only for a signed-in
\* store, and wasEverAllowed is only kept under a ProtectedRoute.
THEOREM TypeCorrect == Spec => []TypeOK
  <1>1. TypeInv => TypeOK
    <2> SUFFICES ASSUME TypeInv PROVE TypeOK
      OBVIOUS
    <2>1. Len(stream.queue) <= 2
      BY DEF TypeInv, StoreInv, Streams, Queues
    <2> QED
      BY <2>1 DEF TypeInv, ServerInv, StoreInv, PageInv, FetchInv, LoginInv, RestInv, TypeOK, Beliefs,
         Fetches, Logins, Streams
  <1> QED
    BY <1>1, InitTypeInv, NextTypeInv, PTL DEF Spec

-----------------------------------------------------------------------------
(* What the store was told *)

\* The store and the answer under way are not older than the last change told of.
SeenInv ==
    /\ store.auth # "in" => seen = 0
    /\ store.auth = "in" => seen <= epoch[store.who]
    /\ FetchOk /\ fetch.body.who = store.who => fetch.body.asOf >= seen
    /\ FailsClosed

\* An action that leaves store and seen alone: a new answer to GET /auth/me has the
\* tables of the moment.
LEMMA QuietSeen ==
  ASSUME TypeInv, TypeInv', SeenInv, UNCHANGED <<store, seen>>,
         \A a \in Account : epoch'[a] >= epoch[a],
         FetchOk' => \/ FetchOk /\ fetch'.body = fetch.body
                     \/ jar \in Account /\ fetch'.body = Profile(jar) /\ epoch' = epoch
  PROVE  SeenInv'
  <1>1. store.auth = "in" => store.who \in Account
    BY DEF TypeInv, StoreInv, Beliefs
  <1>2. seen \in Nat /\ \A a \in Account : epoch[a] \in Nat /\ epoch'[a] \in Nat
    BY DEF TypeInv, RestInv, ServerInv
  <1>3. FetchOk' /\ fetch'.body.who = store.who => fetch'.body.asOf >= seen
    <2> SUFFICES ASSUME FetchOk', fetch'.body.who = store.who PROVE fetch'.body.asOf >= seen
      OBVIOUS
    <2>1. CASE FetchOk /\ fetch'.body = fetch.body
      BY <2>1 DEF SeenInv
    <2>2. CASE jar \in Account /\ fetch'.body = Profile(jar)
      <3>1. fetch'.body.who = jar /\ fetch'.body.asOf = epoch[jar]
        BY <2>2 DEF Profile
      <3>2. store.auth = "in" /\ store.who = jar
        BY <2>2, <3>1, AccountAssumption DEF TypeInv, StoreInv
      <3> QED
        BY <1>2, <2>2, <3>1, <3>2 DEF SeenInv
    <2> QED
      BY <2>1, <2>2
  <1>4. store.auth = "in" => seen <= epoch'[store.who]
    BY <1>1, <1>2 DEF SeenInv
  <1> QED
    BY <1>3, <1>4 DEF SeenInv, FailsClosed

LEMMA GrantsOnlyGrow ==
  ASSUME TypeInv, NEW a \in Account, NEW g \in Grants, ChangeGrants(a, g)
  PROVE  \A b \in Account : epoch'[b] >= epoch[b]
  <1> SUFFICES ASSUME NEW b \in Account PROVE epoch'[b] >= epoch[b]
    OBVIOUS
  <1>1. epoch[b] \in Nat /\ (epoch'[b] = epoch[b] \/ epoch'[b] = epoch[b] + 1)
    BY DEF ChangeGrants, TypeInv, ServerInv
  <1> QED
    BY <1>1

\* The quiet actions in the terms of the lemma.
LEMMA QuietFacts ==
  ASSUME TypeInv, QuietAction
  PROVE  /\ UNCHANGED <<store, seen, page, cache, loaded>>
         /\ \A a \in Account : epoch'[a] >= epoch[a]
         /\ \/ ~FetchOk'
            \/ UNCHANGED fetch
            \/ jar \in Account /\ fetch'.body = Profile(jar) /\ UNCHANGED <<jar, server, login, mixed>>
  <1>1. \A a \in Account : epoch[a] >= epoch[a]
    BY DEF TypeInv, ServerInv
  <1>2. CASE Poll \/ MeFails \/ ServerRenews
    <2>1. fetch \in Fetches
      BY DEF TypeInv, FetchInv
    <2>2. ~FetchOk'
      <3>1. CASE Poll
        <4>1. fetch'.at = "sent"
          BY <3>1, SmallTypes DEF Poll, TypeInv
        <4> QED
          BY <4>1 DEF FetchOk
      <3>2. CASE MeFails \/ ServerRenews
        BY <2>1, <3>2 DEF MeFails, ServerRenews, FetchOk, Fetches
      <3> QED
        BY <1>2, <3>1, <3>2
    <2>3. UNCHANGED <<store, seen, page, cache, loaded, epoch>>
      BY <1>2 DEF Poll, MeFails, ServerRenews, ghosts, server
    <2> QED
      BY <1>1, <2>2, <2>3
  <1>3. CASE ServerAnswersMe
    <2>1. UNCHANGED <<jar, server, login, ghosts, store, page, cache, loaded>>
      BY <1>3 DEF ServerAnswersMe
    <2>2. \/ jar \in alive /\ fetch' = Answers(TRUE, Profile(jar))
          \/ fetch' = Answers(FALSE, NoProfile)
      BY <1>3 DEF ServerAnswersMe
    <2>3. fetch \in Fetches /\ (jar \in alive => jar \in Account)
      BY DEF TypeInv, FetchInv, ServerInv
    <2>4. Answers(FALSE, NoProfile).status # "ok" /\ Answers(TRUE, Profile(jar)).body = Profile(jar)
      <3>1. /\ Answers(TRUE, Profile(jar)) =
                  [fetch EXCEPT !.at = "answered", !.body = Profile(jar), !.status = "ok"]
            /\ Answers(FALSE, NoProfile) =
                  [fetch EXCEPT !.at = "answered", !.body = NoProfile, !.status = "unauthorized"]
        BY DEF Answers
      <3>2. Answers(TRUE, Profile(jar)).body = Profile(jar)
        BY <2>3, <3>1 DEF Fetches
      <3> QED
        BY <2>3, <3>1, <3>2 DEF Fetches
    <2> QED
      BY <1>1, <2>1, <2>2, <2>3, <2>4 DEF FetchOk, server, ghosts
  <1>4. ASSUME NEW a \in Account, Login(a)
        PROVE  UNCHANGED <<store, seen, page, cache, loaded, epoch>> /\ ~FetchOk'
    <2>1. fetch' = NoFetch
      BY <1>4 DEF Login
    <2> QED
      BY <1>4, <2>1, SmallTypes DEF Login, FetchOk, server, TypeInv
  <1>5. ASSUME NEW a \in Account, NEW g \in Grants, PoliciesChange(a, g)
        PROVE  UNCHANGED <<store, seen, page, cache, loaded, fetch>> /\ \A b \in Account : epoch'[b] >= epoch[b]
    BY <1>5, GrantsOnlyGrow DEF PoliciesChange, ghosts
  <1>6. CASE ServerMakesOwnChange
    <2>1. UNCHANGED <<store, seen, page, cache, loaded, fetch>>
      BY <1>6 DEF ServerMakesOwnChange, ghosts
    <2>2. ASSUME jar \in alive, NEW g \in Grants, ChangeGrants(jar, g)
          PROVE  \A b \in Account : epoch'[b] >= epoch[b]
      <3>1. jar \in Account
        BY <2>2 DEF TypeInv, ServerInv
      <3> QED
        BY <2>2, <3>1, GrantsOnlyGrow
    <2>3. \A b \in Account : epoch'[b] >= epoch[b]
      BY <1>1, <1>6, <2>2 DEF ServerMakesOwnChange
    <2> QED
      BY <2>1, <2>3
  <1>7. CASE ReceiveOwnChange
    <2>1. UNCHANGED <<store, seen, page, cache, loaded, epoch>>
      BY <1>7 DEF ReceiveOwnChange, ghosts, server
    <2>2. fetch' = fetch \/ fetch' = Sent(FALSE)
      BY <1>7 DEF ReceiveOwnChange, invalidateMe
    <2>3. Sent(FALSE).at = "sent"
      BY SmallTypes DEF TypeInv
    <2>4. fetch' = fetch \/ ~FetchOk'
      BY <2>2, <2>3 DEF FetchOk
    <2> QED
      BY <1>1, <2>1, <2>4
  <1>8. CASE \/ ServerLogsIn \/ ServerSendsProfile \/ Logout \/ ServerLogsOut
             \/ SendOwnChange \/ MarkExpires \/ StreamDrops \/ StreamReturns
             \/ (\E a \in Account : SessionsChange(a))
    <2>1. UNCHANGED <<store, seen, page, cache, loaded, fetch, epoch>>
      BY <1>8 DEF ServerLogsIn, ServerSendsProfile, Logout, ServerLogsOut, SendOwnChange, MarkExpires,
         StreamDrops, StreamReturns, SessionsChange, ghosts, server
    <2> QED
      BY <1>1, <2>1
  <1> QED
    BY <1>1, <1>2, <1>3, <1>4, <1>5, <1>6, <1>7, <1>8 DEF QuietAction

\* After an action that ends the session, nothing is held against the store.
LEMMA EndedSeen ==
  ASSUME TypeInv, TypeInv', store' = SignedOut, seen' = 0
  PROVE  SeenInv'
  <1>1. store'.auth = "out" /\ seen' = 0
    BY SignedOutTypes DEF TypeInv
  <1>2. FetchOk' => fetch'.body.asOf \in Nat
    BY DEF TypeInv, FetchInv, Fetches, Profiles
  <1> QED
    BY <1>1, <1>2 DEF SeenInv, FailsClosed

LEMMA ReceiveSeen ==
  ASSUME TypeInv, TypeInv', SeenInv, ReceiveMe \/ ReceiveRenewal
  PROVE  SeenInv'
  <1>1. fetch \in Fetches /\ fetch.body \in Profiles /\ route \in Route /\ UNCHANGED server
    BY DEF TypeInv, FetchInv, Fetches, PageInv, ReceiveMe, ReceiveRenewal
  <1>2. ~FetchOk'
    <2>1. \/ fetch' = NoFetch \/ fetch' = Sent(TRUE)
          \/ fetch' = [fetch EXCEPT !.at = "renewing"]
      BY DEF ReceiveMe, ReceiveRenewal
    <2>2. fetch'.at # "answered"
      BY <1>1, <2>1, SmallTypes DEF TypeInv, Fetches
    <2> QED
      BY <2>2 DEF FetchOk
  <1>3. CASE EndSession(SignedOut)
    BY <1>3, EndSessionTypes, EndedSeen
  <1>4. CASE ReceiveMe /\ fetch.status = "ok"
    <2>1. Render(SignedIn(fetch.body), route) /\ FetchOk
          /\ seen' = IF store.who = fetch.body.who THEN seen ELSE 0
      BY <1>4 DEF ReceiveMe, FetchOk
    <2>2. store' = SignedIn(fetch.body)
      BY <1>1, <2>1, RenderTypes
    <2>3. /\ store'.auth = "in" /\ store'.who = fetch.body.who /\ store'.asOf = fetch.body.asOf
          /\ fetch.body.who \in Account /\ fetch.body.asOf \in Nat
      BY <1>1, <2>1, <2>2, SignedInTypes DEF TypeInv, FetchInv, Profiles
    <2>4. CASE store.who = fetch.body.who
      <3>1. seen' = seen /\ store.auth = "in" /\ epoch' = epoch
        BY <1>1, <2>1, <2>3, <2>4, AccountAssumption DEF TypeInv, StoreInv, server
      <3> QED
        BY <1>2, <2>1, <2>3, <2>4, <3>1 DEF SeenInv, FailsClosed
    <2>5. CASE store.who # fetch.body.who
      <3>1. seen' = 0 /\ epoch'[store'.who] \in Nat
        BY <2>1, <2>3, <2>5 DEF TypeInv, ServerInv
      <3> QED
        BY <1>2, <2>3, <3>1 DEF SeenInv, FailsClosed
    <2> QED
      BY <2>4, <2>5
  <1>5. CASE ReceiveMe /\ fetch.status = "error"
    <2>1. Render(SignedOut, route) /\ seen' = 0
      BY <1>5 DEF ReceiveMe
    <2> QED
      BY <1>1, <2>1, RenderTypes, EndedSeen
  <1>6. CASE UNCHANGED <<store, page, stream, loaded, cache, seen>>
    BY <1>1, <1>2, <1>6, QuietSeen DEF server, TypeInv, ServerInv
  <1> QED
    BY <1>3, <1>4, <1>5, <1>6 DEF ReceiveMe, ReceiveRenewal

LEMMA DoneSeen ==
  ASSUME TypeInv, TypeInv', SeenInv, LoginDone \/ ReceiveLogout
  PROVE  SeenInv'
  <1>1. login.body \in Profiles /\ route \in Route
    BY DEF TypeInv, LoginInv, Logins, PageInv
  <1>2. CASE EndSession(SignedOut)
    BY <1>2, EndSessionTypes, EndedSeen
  <1>3. CASE LoginDone /\ login.at = "loaded"
    <2> DEFINE r == IF route = "login" THEN "dashboard" ELSE route
    <2>1. r \in Route /\ Render(SignedIn(login.body), r) /\ seen' = 0
      BY <1>1, <1>3 DEF LoginDone, Route, Protected
    <2> HIDE DEF r
    <2>2. store' = SignedIn(login.body)
      BY <2>1, RenderTypes
    <2>3. store'.auth = "in" /\ store'.who \in Account /\ store'.asOf \in Nat
      BY <1>1, <1>3, <2>2, SignedInTypes DEF TypeInv, LoginInv, Profiles
    <2>4. epoch'[store'.who] \in Nat
      BY <2>3 DEF TypeInv, ServerInv
    <2>5. FetchOk' => fetch'.body.asOf \in Nat
      BY DEF TypeInv, FetchInv, Fetches, Profiles
    <2> QED
      BY <2>1, <2>3, <2>4, <2>5 DEF SeenInv, FailsClosed
  <1> QED
    BY <1>2, <1>3 DEF LoginDone, ReceiveLogout

LEMMA EventSeen ==
  ASSUME TypeInv, TypeInv', SeenInv, ReceiveEvent
  PROVE  SeenInv'
  <1>1. /\ epoch' = epoch /\ route \in Route /\ store \in Beliefs
        /\ stream.of \in Account /\ store.auth = "in" /\ store.who \in Account
    BY DEF ReceiveEvent, server, TypeInv, PageInv, StoreInv, Streams, Beliefs
  <1>2. CASE Head(stream.queue) = "permissions_changed"
    <2>1. /\ Render(IF mark THEN store ELSE dropPermissions(store), route)
          /\ seen' = IF mark \/ store.who # stream.of THEN seen ELSE epoch[stream.of]
          /\ fetch' = Sent(FALSE)
      BY <1>2 DEF ReceiveEvent, resetQueries
    <2>2. ~FetchOk'
      <3>1. Sent(FALSE).at = "sent"
        BY SmallTypes DEF TypeInv
      <3> QED
        BY <2>1, <3>1 DEF FetchOk
    <2>3. CASE mark
      <3>1. store' = store /\ seen' = seen
        BY <1>1, <2>1, <2>3, RenderTypes
      <3> QED
        BY <1>1, <2>2, <3>1, QuietSeen DEF TypeInv, ServerInv
    <2>4. CASE ~mark
      <3>1. store' = dropPermissions(store)
        BY <1>1, <2>1, <2>4, RenderTypes
      <3>2. store'.auth = "in" /\ store'.who = store.who /\ store'.perms = {}
        BY <1>1, <3>1, DroppedTypes
      <3>3. seen' <= epoch[store.who]
        <4>1. epoch[store.who] \in Nat /\ seen <= epoch[store.who]
          BY <1>1 DEF TypeInv, ServerInv, SeenInv
        <4> QED
          BY <2>1, <2>4, <4>1
      <3> QED
        BY <1>1, <2>2, <3>2, <3>3 DEF SeenInv, FailsClosed
    <2> QED
      BY <2>3, <2>4
  <1>3. CASE fetch' = invalidateMe /\ UNCHANGED <<store, page, mark, seen, loaded, cache>>
    <2>1. Sent(FALSE).at = "sent"
      BY SmallTypes DEF TypeInv
    <2>2. fetch' = fetch \/ ~FetchOk'
      BY <1>3, <2>1 DEF invalidateMe, FetchOk
    <2>3. FetchOk' => FetchOk /\ fetch'.body = fetch.body
      BY <2>2 DEF FetchOk
    <2> QED
      BY <1>1, <1>3, <2>3, QuietSeen DEF TypeInv, ServerInv
  <1> QED
    BY <1>2, <1>3 DEF ReceiveEvent

LEMMA PageSeen ==
  ASSUME TypeInv, TypeInv', SeenInv, (\E l \in Offered : Navigate(l)) \/ (\E k \in Key : LoadQuery(k))
  PROVE  SeenInv'
  <1>1. CASE EndSession(SignedOut)
    BY <1>1, EndSessionTypes, EndedSeen
  <1>2. CASE UNCHANGED <<store, seen, fetch, epoch>>
    BY <1>2, QuietSeen DEF TypeInv, ServerInv, FetchOk
  <1>3. ASSUME NEW l \in Offered, Navigate(l) PROVE UNCHANGED <<store, seen, fetch, epoch>>
    BY <1>3, OfferedLinks, RenderTypes DEF Navigate, ghosts, server, Route
  <1>4. ASSUME NEW k \in Key, LoadQuery(k)
        PROVE  EndSession(SignedOut) \/ UNCHANGED <<store, seen, fetch, epoch>>
    BY <1>4 DEF LoadQuery, server
  <1> QED
    BY <1>1, <1>2, <1>3, <1>4

LEMMA NextSeenInv == TypeInv /\ SeenInv /\ [Next]_vars => SeenInv'
  <1> SUFFICES ASSUME TypeInv, SeenInv, [Next]_vars PROVE SeenInv'
    OBVIOUS
  <1>1. TypeInv'
    BY NextTypeInv
  <1>2. CASE QuietAction
    <2>1. FetchOk' => \/ FetchOk /\ fetch'.body = fetch.body
                      \/ jar \in Account /\ fetch'.body = Profile(jar) /\ epoch' = epoch
      BY <1>2, QuietFacts DEF FetchOk, server
    <2> QED
      BY <1>1, <1>2, <2>1, QuietFacts, QuietSeen
  <1>3. CASE RenderAction
    BY <1>1, <1>3, ReceiveSeen, DoneSeen, EventSeen, PageSeen DEF RenderAction
  <1>4. CASE UNCHANGED vars
    BY <1>4 DEF SeenInv, FailsClosed, FetchOk, vars, server, ghosts
  <1> QED
    BY <1>2, <1>3, <1>4, ActionsOfNext

\* Whatever polls, logins, events and changes overlap: once the stream has told of
\* a change, the store holds permissions read after it, or none (dropPermissions,
\* resetQueries).
THEOREM ChangesFailClosed == Spec => []FailsClosed
  <1>1. Init => SeenInv
    <2> SUFFICES ASSUME Init PROVE SeenInv
      OBVIOUS
    <2>1. store.auth = "unknown" /\ seen = 0
      BY DEF Init, Unchecked, Belief
    <2>2. fetch.at = "sent"
      BY InitTypeInv, SmallTypes DEF Init, TypeInv
    <2> QED
      BY <2>1, <2>2 DEF SeenInv, FailsClosed, FetchOk
  <1>2. SeenInv => FailsClosed
    BY DEF SeenInv
  <1> QED
    BY <1>1, <1>2, InitTypeInv, NextTypeInv, NextSeenInv, PTL DEF Spec

-----------------------------------------------------------------------------
(* Whose session it is *)

\* All that is on its way, stored or cached is c's.
OnlyOf(c) ==
    /\ jar \in {NoOne, c}
    /\ login.at # "idle" => login.who = c
    /\ login.at = "loaded" => login.body.who = c
    /\ FetchOk => fetch.body.who = c
    /\ store.auth = "in" => store.who = c
    /\ \A k \in DroppedKey : cache[k] \in {NoOne, jar}

OwnerInv == ~mixed => \E c \in Account \cup {NoOne} : OnlyOf(c)

\* The parts of OnlyOf, each from what an action says of its variable.
LEMMA StillOnlyOf ==
  ASSUME NEW c, OnlyOf(c), jar' \in {NoOne, jar},
         login'.at # "idle" => login' = login,
         FetchOk' => (FetchOk /\ fetch'.body = fetch.body) \/ fetch'.body.who = c,
         store'.auth = "in" => (store.auth = "in" /\ store'.who = store.who) \/ store'.who = c,
         \A k \in DroppedKey : cache'[k] = NoOne \/ (jar' = jar /\ cache'[k] \in {cache[k], jar})
  PROVE  OnlyOf(c)'
  BY DEF OnlyOf, FetchOk

LEMMA EndedOnlyOf ==
  ASSUME TypeInv, TypeInv', NEW c, OnlyOf(c), EndSession(SignedOut), jar' \in {NoOne, jar},
         login'.at # "idle" => login' = login, FetchOk' => FetchOk /\ fetch'.body = fetch.body
  PROVE  OnlyOf(c)'
  <1>1. store' = SignedOut /\ \A k \in DroppedKey : cache'[k] = NoOne
    BY EndSessionTypes
  <1>2. store'.auth # "in"
    BY <1>1, SignedOutTypes DEF TypeInv
  <1> QED
    BY <1>1, <1>2, StillOnlyOf

LEMMA QuietOnlyOf ==
  ASSUME TypeInv, TypeInv', NEW c \in Account \cup {NoOne}, OnlyOf(c), QuietAction, ~mixed'
  PROVE  \E d \in Account \cup {NoOne} : OnlyOf(d)'
  <1>1. UNCHANGED <<store, cache>>
    BY QuietFacts
  <1>2. ASSUME NEW a \in Account, Login(a) PROVE OnlyOf(a)'
    <2>1. fetch' = NoFetch /\ jar' = jar /\ jar \in {NoOne, a} /\ store.auth # "in"
      BY <1>2 DEF Login
    <2>2. login' = [login EXCEPT !.at = "posting", !.who = a] /\ login \in Logins
      BY <1>2 DEF Login, TypeInv, LoginInv
    <2>3. login'.at = "posting" /\ login'.who = a
      BY <2>2 DEF Logins
    <2>4. ~FetchOk'
      BY <2>1, SmallTypes DEF FetchOk, TypeInv
    <2>5. \A k \in DroppedKey : cache'[k] \in {NoOne, jar'}
      BY <1>1, <2>1 DEF OnlyOf
    <2> QED
      BY <1>1, <2>1, <2>3, <2>4, <2>5 DEF OnlyOf
  <1>3. CASE ServerLogsIn
    <2>1. login.who = c /\ login \in Logins /\ fetch' = fetch /\ login.at = "posting"
      BY <1>3 DEF ServerLogsIn, OnlyOf, TypeInv, LoginInv
    <2>2. CASE login' = [login EXCEPT !.at = "profile"] /\ jar' = login.who
      <3>1. login'.at = "profile" /\ login'.who = c /\ jar' = c
        BY <2>1, <2>2 DEF Logins
      <3>2. \A k \in DroppedKey : cache'[k] \in {NoOne, c}
        BY <1>1 DEF OnlyOf
      <3>3. OnlyOf(c)'
        BY <1>1, <2>1, <3>1, <3>2 DEF OnlyOf, FetchOk
      <3> QED
        BY <3>3
    <2>3. CASE login' = [login EXCEPT !.at = "idle", !.who = NoOne] /\ jar' = jar
      <3>1. login'.at = "idle"
        BY <2>1, <2>3 DEF Logins
      <3> QED
        BY <1>1, <2>1, <2>3, <3>1, StillOnlyOf DEF FetchOk
    <2> QED
      BY <1>3, <2>2, <2>3 DEF ServerLogsIn
  <1>4. CASE ServerSendsProfile
    <2>1. login.who = c /\ login \in Logins /\ fetch' = fetch /\ jar' = jar
      BY <1>4 DEF ServerSendsProfile, OnlyOf, TypeInv, LoginInv
    <2>2. login'.who = c /\ (login'.at = "loaded" => login'.body.who = c)
      <3>1. CASE jar \in alive /\ login' = [login EXCEPT !.at = "loaded", !.body = Profile(jar)]
        <4>1. jar \in Account /\ jar = c
          BY <3>1, AccountAssumption DEF TypeInv, ServerInv, OnlyOf
        <4>2. login'.body = Profile(jar) /\ login'.who = login.who
          BY <2>1, <3>1 DEF Logins
        <4> QED
          BY <2>1, <4>1, <4>2, SmallTypes DEF TypeInv
      <3>2. CASE login' = [login EXCEPT !.at = "refused"]
        BY <2>1, <3>2 DEF Logins
      <3> QED
        BY <1>4, <3>1, <3>2 DEF ServerSendsProfile
    <2>3. OnlyOf(c)'
      BY <1>1, <2>1, <2>2 DEF OnlyOf, FetchOk
    <2> QED
      BY <2>3
  <1>5. CASE UNCHANGED <<jar, login>>
    <2>1. FetchOk' => (FetchOk /\ fetch'.body = fetch.body) \/ fetch'.body.who = c
      <3>1. CASE jar \in Account /\ fetch'.body = Profile(jar)
        <4>1. jar = c
          BY <3>1, AccountAssumption DEF OnlyOf
        <4> QED
          BY <3>1, <4>1, SmallTypes DEF TypeInv
      <3>2. CASE ~FetchOk' \/ UNCHANGED fetch
        BY <3>2 DEF FetchOk
      <3> QED
        BY <3>1, <3>2, QuietFacts
    <2> QED
      BY <1>1, <1>5, <2>1, StillOnlyOf
  <1>6. \/ (\E a \in Account : Login(a)) \/ ServerLogsIn \/ ServerSendsProfile
        \/ UNCHANGED <<jar, login>>
    BY DEF QuietAction, Poll, ServerAnswersMe, MeFails, ServerRenews, Logout, ServerLogsOut, PoliciesChange,
       SendOwnChange, ServerMakesOwnChange, ReceiveOwnChange, MarkExpires, SessionsChange, StreamDrops,
       StreamReturns
  <1> QED
    BY <1>2, <1>3, <1>4, <1>5, <1>6

LEMMA RenderOnlyOf ==
  ASSUME TypeInv, TypeInv', NEW c, OnlyOf(c), RenderAction
  PROVE  OnlyOf(c)'
  <1>1. fetch \in Fetches /\ fetch.body \in Profiles /\ route \in Route
    BY DEF TypeInv, FetchInv, Fetches, PageInv
  <1>2. CASE ReceiveMe \/ ReceiveRenewal
    <2>1. UNCHANGED <<jar, login>>
      BY <1>2 DEF ReceiveMe, ReceiveRenewal
    <2>2. ~FetchOk'
      <3>1. \/ fetch' = NoFetch \/ fetch' = Sent(TRUE)
            \/ fetch' = [fetch EXCEPT !.at = "renewing"]
        BY <1>2 DEF ReceiveMe, ReceiveRenewal
      <3>2. fetch'.at # "answered"
        BY <1>1, <3>1, SmallTypes DEF TypeInv, Fetches
      <3> QED
        BY <3>2 DEF FetchOk
    <2>3. CASE EndSession(SignedOut)
      BY <2>1, <2>2, <2>3, EndedOnlyOf
    <2>4. CASE ReceiveMe /\ fetch.status = "ok"
      <3>1. Render(SignedIn(fetch.body), route) /\ FetchOk /\ cache' = cache
        BY <2>4 DEF ReceiveMe, FetchOk
      <3>2. store'.who = c
        <4>1. store' = SignedIn(fetch.body)
          BY <1>1, <3>1, RenderTypes
        <4> QED
          BY <1>1, <3>1, <4>1, SignedInTypes DEF OnlyOf
      <3> QED
        BY <2>1, <2>2, <3>1, <3>2, StillOnlyOf
    <2>5. CASE ReceiveMe /\ fetch.status = "error"
      <3>1. Render(SignedOut, route) /\ cache' = cache
        BY <2>5 DEF ReceiveMe
      <3>2. store'.auth # "in"
        BY <1>1, <3>1, RenderTypes, SignedOutTypes DEF TypeInv
      <3> QED
        BY <2>1, <2>2, <3>1, <3>2, StillOnlyOf
    <2>6. CASE UNCHANGED <<store, page, stream, loaded, cache, seen>>
      BY <2>1, <2>2, <2>6, StillOnlyOf
    <2> QED
      BY <1>2, <2>3, <2>4, <2>5, <2>6 DEF ReceiveMe, ReceiveRenewal
  <1>3. CASE LoginDone
    <2>1. /\ UNCHANGED <<jar, fetch>>
          /\ login' = [at |-> "idle", who |-> NoOne, body |-> NoProfile]
      BY <1>3 DEF LoginDone
    <2>2. login'.at = "idle" /\ (FetchOk' => FetchOk /\ fetch'.body = fetch.body)
      BY <2>1 DEF FetchOk
    <2>3. CASE EndSession(SignedOut)
      BY <2>1, <2>2, <2>3, EndedOnlyOf
    <2>4. CASE login.at = "loaded"
      <3> DEFINE r == IF route = "login" THEN "dashboard" ELSE route
      <3>1. r \in Route /\ Render(SignedIn(login.body), r) /\ cache' = cache
        BY <1>1, <1>3, <2>4 DEF LoginDone, Route, Protected
      <3> HIDE DEF r
      <3>2. login.body \in Profiles /\ login.body.who = c
        BY <2>4 DEF TypeInv, LoginInv, Logins, OnlyOf
      <3>3. store'.who = c
        BY <3>1, <3>2, RenderTypes, SignedInTypes
      <3> QED
        BY <2>1, <2>2, <3>1, <3>3, StillOnlyOf
    <2> QED
      BY <1>3, <2>3, <2>4 DEF LoginDone
  <1>4. CASE ReceiveLogout
    <2>1. EndSession(SignedOut) /\ jar' \in {NoOne, jar} /\ UNCHANGED <<fetch, login>>
      BY <1>4 DEF ReceiveLogout
    <2> QED
      BY <2>1, EndedOnlyOf DEF FetchOk
  <1>5. CASE ReceiveEvent
    <2>1. UNCHANGED <<jar, login>>
      BY <1>5 DEF ReceiveEvent
    <2>2. FetchOk' => FetchOk /\ fetch'.body = fetch.body
      <3>1. fetch' = Sent(FALSE) \/ fetch' = fetch
        BY <1>5 DEF ReceiveEvent, resetQueries, invalidateMe
      <3>2. Sent(FALSE).at = "sent"
        BY SmallTypes DEF TypeInv
      <3> QED
        BY <3>1, <3>2 DEF FetchOk
    <2>3. store'.auth = store.auth /\ store'.who = store.who
      BY <1>5, EventStore
    <2>4. \A k \in DroppedKey : cache'[k] = NoOne \/ cache'[k] = cache[k]
      BY <1>5 DEF ReceiveEvent, Key
    <2> QED
      BY <2>1, <2>2, <2>3, <2>4, StillOnlyOf
  <1>6. ASSUME NEW l \in Offered, Navigate(l) PROVE OnlyOf(c)'
    <2>1. UNCHANGED <<jar, login, fetch, cache, store>>
      BY <1>6, OfferedLinks, RenderTypes DEF Navigate, Route
    <2> QED
      BY <2>1 DEF OnlyOf, FetchOk
  <1>7. ASSUME NEW k \in Key, LoadQuery(k) PROVE OnlyOf(c)'
    <2>1. UNCHANGED <<jar, login, fetch>>
      BY <1>7 DEF LoadQuery
    <2>2. CASE EndSession(SignedOut)
      BY <2>1, <2>2, EndedOnlyOf DEF FetchOk
    <2>3. CASE cache' = [cache EXCEPT ![k] = jar] /\ store' = store
      <3>1. \A j \in DroppedKey : cache'[j] \in {cache[j], jar}
        BY <2>3 DEF TypeInv, RestInv, Key
      <3> QED
        BY <2>1, <2>3, <3>1, StillOnlyOf DEF FetchOk
    <2> QED
      BY <1>7, <2>2, <2>3 DEF LoadQuery
  <1> QED
    BY <1>2, <1>3, <1>4, <1>5, <1>6, <1>7 DEF RenderAction

LEMMA NextOwnerInv == TypeInv /\ OwnerInv /\ [Next]_vars => OwnerInv'
  <1> SUFFICES ASSUME TypeInv, OwnerInv, [Next]_vars, ~mixed'
               PROVE  \E c \in Account \cup {NoOne} : OnlyOf(c)'
    BY DEF OwnerInv
  <1>1. TypeInv'
    BY NextTypeInv
  <1>2. CASE UNCHANGED vars
    BY <1>2 DEF OwnerInv, OnlyOf, FetchOk, vars, ghosts
  <1>3. CASE Next
    <2>1. ~mixed
      <3>1. mixed' = mixed \/ \E a \in Account : Login(a)
        BY <1>3 DEF Next, Network, Poll, ServerAnswersMe, MeFails, ServerRenews, Logout, ServerLogsOut,
           PoliciesChange, SendOwnChange, ServerMakesOwnChange, ReceiveOwnChange, MarkExpires, SessionsChange,
           StreamDrops, StreamReturns, ServerLogsIn, ServerSendsProfile, ReceiveMe, ReceiveRenewal, LoginDone,
           ReceiveLogout, ReceiveEvent, Navigate, LoadQuery, ghosts
      <3> QED
        BY <3>1 DEF Login
    <2>2. PICK c \in Account \cup {NoOne} : OnlyOf(c)
      BY <2>1 DEF OwnerInv
    <2> QED
      BY <1>1, <1>3, <2>2, ActionsOfNext, QuietOnlyOf, RenderOnlyOf
  <1> QED
    BY <1>2, <1>3

\* Among the accounts that use a browser one after the other, whatever answers are
\* late: the queries that sign-out removes never show one account another's data, unless
\* a login was sent over that account's cookies (clearMyAccountSessionCaches).
THEOREM CachesStayTheirOwn == Spec => []CachesMatchAccount
  <1>1. Init => OwnerInv
    <2> SUFFICES ASSUME Init PROVE OnlyOf(jar) /\ jar \in Account \cup {NoOne}
      BY DEF OwnerInv
    <2>1. store.auth = "unknown" /\ login.at = "idle" /\ fetch = Sent(FALSE)
          /\ cache = [k \in Key |-> NoOne]
      BY DEF Init, Unchecked, Belief
    <2>2. fetch.at = "sent" /\ jar \in Account \cup {NoOne}
      BY <2>1, InitTypeInv, SmallTypes DEF TypeInv, ServerInv
    <2> QED
      BY <2>1, <2>2 DEF OnlyOf, FetchOk, Key
  <1>2. OwnerInv => CachesMatchAccount
    BY DEF OwnerInv, OnlyOf, CachesMatchAccount
  <1> QED
    BY <1>1, <1>2, InitTypeInv, NextTypeInv, NextOwnerInv, PTL DEF Spec

-----------------------------------------------------------------------------
(* What the account held *)

\* By tables r (removed) and g (granted) and the profiles p and q, a has held action
\* x ever since its v-th change, or has lost it since.
Held(a, x, v, r, g, p, q) ==
    \/ x \in r[a]
    \/ /\ x \in g[a]
       /\ p.who = a /\ p.asOf >= v => x \in p.perms
       /\ q.who = a /\ q.asOf >= v => x \in q.perms

HeldSince(a, x, v) == Held(a, x, v, removed, granted, fetch.body, login.body)
StillHeld(a, x, v) == Held(a, x, v, removed', granted', fetch'.body, login'.body)

\* What profile p says, its account held.
AllHeld(p) == \A x \in p.perms : p.who \in Account => HeldSince(p.who, x, p.asOf)

\* A profile as recent as the tables says what they say.
Recent(p, e, g) ==
    p.who \in Account => /\ p.asOf <= e[p.who]
                         /\ p.asOf = e[p.who] => p.perms = g[p.who]

UpToDate(p) == Recent(p, epoch, granted)

BodiesHeld ==
    /\ UpToDate(fetch.body) /\ UpToDate(login.body)
    /\ AllHeld(fetch.body) /\ AllHeld(login.body)

\* An open page was opened by an action that the caller held.
WasAllowed ==
    store.auth = "in" /\ was /\ RoutePermission[route] # {} =>
        \E x \in RoutePermission[route] : HeldSince(store.who, x, store.asOf)

StoreHeld ==
    /\ AllHeld(store)
    /\ store.pending => store.perms = {}
    /\ WasAllowed

HeldInv == BodiesHeld /\ StoreHeld

\* What an action may do to the tables: a permission that is gone was taken away,
\* and every change counts.
TablesStep ==
    \A a \in Account :
        /\ removed[a] \subseteq removed'[a] /\ granted[a] \subseteq granted'[a] \cup removed'[a]
        /\ \/ epoch'[a] = epoch[a] /\ granted'[a] = granted[a]
           \/ epoch'[a] > epoch[a]

\* What it may do to a profile under way.
NewBody(p, q) ==
    \/ q \in {p, NoProfile}
    \/ (\E a \in Account : q = Profile(a)) /\ UNCHANGED <<granted, epoch, removed>>

HeldStep == TablesStep /\ NewBody(fetch.body, fetch'.body) /\ NewBody(login.body, login'.body)

LEMMA HeldKept ==
  ASSUME HeldStep, NEW a \in Account, NEW x, NEW v, HeldSince(a, x, v)
  PROVE  StillHeld(a, x, v)
  <1>1. NoProfile.who # a
    BY AccountAssumption DEF NoProfile
  <1>2. ASSUME NEW p, NEW q, NewBody(p, q), x \in granted'[a], x \in granted[a],
               p.who = a /\ p.asOf >= v => x \in p.perms
        PROVE  q.who = a /\ q.asOf >= v => x \in q.perms
    <2>1. CASE q \in {p, NoProfile}
      BY <1>1, <1>2, <2>1
    <2>2. ASSUME NEW b \in Account, q = Profile(b)
          PROVE  q.who = a => x \in q.perms
      <3>1. q.who = b /\ q.perms = granted[b]
        BY <2>2 DEF Profile
      <3> QED
        BY <1>2, <3>1
    <2> QED
      BY <1>2, <2>1, <2>2 DEF NewBody
  <1>3. CASE x \in removed'[a]
    BY <1>3 DEF StillHeld, Held
  <1>4. CASE x \notin removed'[a]
    <2>1. x \in granted[a] /\ x \in granted'[a]
      BY <1>4 DEF HeldSince, Held, HeldStep, TablesStep
    <2>2. x \notin removed[a]
      BY <1>4 DEF HeldStep, TablesStep
    <2>3. /\ fetch.body.who = a /\ fetch.body.asOf >= v => x \in fetch.body.perms
          /\ login.body.who = a /\ login.body.asOf >= v => x \in login.body.perms
      BY <2>2 DEF HeldSince, Held
    <2>4. fetch'.body.who = a /\ fetch'.body.asOf >= v => x \in fetch'.body.perms
      BY <1>2, <2>1, <2>3 DEF HeldStep
    <2>5. login'.body.who = a /\ login'.body.asOf >= v => x \in login'.body.perms
      BY <1>2, <2>1, <2>3 DEF HeldStep
    <2> QED
      BY <2>1, <2>4, <2>5 DEF StillHeld, Held
  <1> QED
    BY <1>3, <1>4

\* What an old profile said, its account has held since.
LEMMA AllHeldKept ==
  ASSUME HeldStep, NEW p, AllHeld(p)
  PROVE  \A x \in p.perms : p.who \in Account => StillHeld(p.who, x, p.asOf)
  BY HeldKept DEF AllHeld

LEMMA BodiesKept ==
  ASSUME TypeInv, TypeInv', BodiesHeld, HeldStep
  PROVE  BodiesHeld'
  <1>1. \A a \in Account : epoch[a] \in Nat /\ epoch'[a] \in Nat
    BY DEF TypeInv, ServerInv
  <1>2. NoProfile.who \notin Account
    BY AccountAssumption DEF NoProfile
  <1>3. ASSUME NEW p \in Profiles, NEW q, UpToDate(p), NewBody(p, q)
        PROVE  Recent(q, epoch', granted')
    <2>1. CASE q = p
      <3> SUFFICES ASSUME p.who \in Account
                   PROVE  /\ p.asOf <= epoch'[p.who]
                          /\ p.asOf = epoch'[p.who] => p.perms = granted'[p.who]
        BY <2>1 DEF Recent
      <3>1. p.asOf \in Nat /\ p.asOf <= epoch[p.who]
            /\ (p.asOf = epoch[p.who] => p.perms = granted[p.who])
        BY <1>3 DEF UpToDate, Recent, Profiles
      <3>2. \/ epoch'[p.who] = epoch[p.who] /\ granted'[p.who] = granted[p.who]
            \/ epoch'[p.who] > epoch[p.who]
        BY DEF HeldStep, TablesStep
      <3> QED
        BY <1>1, <3>1, <3>2
    <2>2. CASE q = NoProfile
      BY <1>2, <2>2 DEF Recent
    <2>3. ASSUME NEW b \in Account, q = Profile(b), UNCHANGED <<granted, epoch, removed>>
          PROVE  q.asOf = epoch'[q.who] /\ q.perms = granted'[q.who]
      BY <2>3 DEF Profile
    <2>4. ASSUME NEW b \in Account, q = Profile(b), UNCHANGED <<granted, epoch, removed>>
          PROVE  Recent(q, epoch', granted')
      <3>1. q.who = b
        BY <2>4 DEF Profile
      <3> QED
        BY <1>1, <2>3, <2>4, <3>1 DEF Recent
    <2> QED
      BY <1>3, <2>1, <2>2, <2>4 DEF NewBody
  <1>4. fetch.body \in Profiles /\ login.body \in Profiles
    BY DEF TypeInv, FetchInv, LoginInv, Fetches, Logins
  <1>5. UpToDate(fetch.body)' /\ UpToDate(login.body)'
    BY <1>3, <1>4 DEF BodiesHeld, HeldStep, UpToDate, Recent
  <1>6. ASSUME NEW b \in Account, NEW x \in granted[b], UNCHANGED <<granted, epoch, removed>>
        PROVE  StillHeld(b, x, epoch[b])
    <2>1. ASSUME NEW q, q.asOf \in Nat, Recent(q, epoch', granted'),
                 q.who = b, q.asOf >= epoch'[b]
          PROVE  x \in q.perms
      <3>1. q.asOf = epoch'[b]
        BY <1>1, <2>1 DEF Recent
      <3> QED
        BY <1>6, <2>1, <3>1 DEF Recent
    <2>2. fetch'.body.asOf \in Nat /\ login'.body.asOf \in Nat
      BY DEF TypeInv, FetchInv, LoginInv, Fetches, Logins, Profiles
    <2>3. /\ fetch'.body.who = b /\ fetch'.body.asOf >= epoch'[b] => x \in fetch'.body.perms
          /\ login'.body.who = b /\ login'.body.asOf >= epoch'[b] => x \in login'.body.perms
      BY <1>5, <2>1, <2>2 DEF UpToDate, Recent
    <2> QED
      BY <1>6, <2>3 DEF StillHeld, Held
  <1>7. ASSUME NEW p, NEW q, AllHeld(p), NewBody(p, q), NEW x \in q.perms, q.who \in Account
        PROVE  StillHeld(q.who, x, q.asOf)
    <2>1. CASE q = p
      BY <1>7, <2>1, AllHeldKept
    <2>2. CASE q # p
      <3>1. PICK b \in Account : q = Profile(b) /\ UNCHANGED <<granted, epoch, removed>>
        BY <1>2, <1>7, <2>2 DEF NewBody
      <3>2. q.who = b /\ q.perms = granted[b] /\ q.asOf = epoch[b]
        BY <3>1 DEF Profile
      <3>3. StillHeld(b, x, epoch[b])
        BY <1>6, <1>7, <3>1, <3>2
      <3> QED
        BY <3>2, <3>3
    <2> QED
      BY <2>1, <2>2
  <1>8. AllHeld(fetch.body)' /\ AllHeld(login.body)'
    BY <1>7 DEF BodiesHeld, HeldStep, AllHeld, HeldSince, StillHeld
  <1> QED
    BY <1>5, <1>8 DEF BodiesHeld

-----------------------------------------------------------------------------
(* Every action takes such a step *)

LEMMA SameTables ==
  ASSUME UNCHANGED <<granted, epoch, removed>>
  PROVE  TablesStep
  BY DEF TablesStep

LEMMA GrantsStep ==
  ASSUME TypeInv, NEW a \in Account, NEW g \in Grants, ChangeGrants(a, g)
  PROVE  TablesStep
  <1> SUFFICES ASSUME NEW b \in Account
               PROVE  /\ removed[b] \subseteq removed'[b]
                      /\ granted[b] \subseteq granted'[b] \cup removed'[b]
                      /\ \/ epoch'[b] = epoch[b] /\ granted'[b] = granted[b]
                         \/ epoch'[b] > epoch[b]
    BY DEF TablesStep
  <1>1. /\ granted' = [granted EXCEPT ![a] = g] /\ granted \in [Account -> Grants]
        /\ epoch' = [epoch EXCEPT ![a] = epoch[a] + 1] /\ epoch \in [Account -> 0..MaxChanges]
        /\ removed' = [removed EXCEPT ![a] = removed[a] \cup (granted[a] \ g)]
        /\ removed \in [Account -> SUBSET Actions]
    BY DEF ChangeGrants, TypeInv, ServerInv
  <1>2. CASE b = a
    <2>1. granted'[b] = g /\ removed'[b] = removed[b] \cup (granted[b] \ g)
      BY <1>1, <1>2
    <2>2. epoch'[b] = epoch[b] + 1 /\ epoch[b] \in Nat
      BY <1>1, <1>2
    <2> QED
      BY <2>1, <2>2
  <1>3. CASE b # a
    BY <1>1, <1>3
  <1> QED
    BY <1>2, <1>3

LEMMA SameBody == \A p : NewBody(p, p)
  BY DEF NewBody

LEMMA QuietHeldStep ==
  ASSUME TypeInv, QuietAction
  PROVE  HeldStep
  <1>1. fetch \in Fetches /\ login \in Logins /\ (jar \in alive => jar \in Account)
    BY DEF TypeInv, FetchInv, LoginInv, ServerInv
  <1>2. \A r \in BOOLEAN : Sent(r).body = NoProfile
    BY <1>1 DEF Sent, NoFetch
  <1>3. CASE Poll \/ MeFails \/ ServerRenews \/ ReceiveOwnChange
    <2>1. UNCHANGED <<granted, epoch, removed, login>>
      BY <1>3 DEF Poll, MeFails, ServerRenews, ReceiveOwnChange, server
    <2>2. fetch'.body \in {fetch.body, NoProfile}
      <3>1. CASE fetch' = Sent(FALSE) \/ fetch' = fetch
        BY <1>2, <3>1
      <3>2. CASE MeFails \/ ServerRenews
        BY <1>1, <3>2 DEF MeFails, ServerRenews, Fetches
      <3> QED
        BY <1>3, <3>1, <3>2 DEF Poll, ReceiveOwnChange, invalidateMe
    <2> QED
      BY <2>1, <2>2, SameTables, SameBody DEF HeldStep, NewBody
  <1>4. CASE ServerAnswersMe
    <2>1. UNCHANGED <<granted, epoch, removed, login>>
      BY <1>4 DEF ServerAnswersMe, server
    <2>2. fetch'.body = NoProfile \/ (jar \in Account /\ fetch'.body = Profile(jar))
      <3>1. /\ Answers(TRUE, Profile(jar)) =
                  [fetch EXCEPT !.at = "answered", !.body = Profile(jar), !.status = "ok"]
            /\ Answers(FALSE, NoProfile) =
                  [fetch EXCEPT !.at = "answered", !.body = NoProfile, !.status = "unauthorized"]
        BY DEF Answers
      <3>2. Answers(TRUE, Profile(jar)).body = Profile(jar)
        BY <1>1, <3>1 DEF Fetches
      <3>3. Answers(FALSE, NoProfile).body = NoProfile
        BY <1>1, <3>1 DEF Fetches
      <3> QED
        BY <1>1, <1>4, <3>2, <3>3 DEF ServerAnswersMe
    <2> QED
      BY <2>1, <2>2, SameTables, SameBody DEF HeldStep, NewBody
  <1>5. CASE (\E a \in Account : Login(a)) \/ ServerLogsIn \/ ServerSendsProfile
    <2>1. UNCHANGED <<granted, epoch, removed>>
      BY <1>5 DEF Login, ServerLogsIn, ServerSendsProfile, server
    <2>2. fetch' \in {fetch, NoFetch} /\ NoFetch.body = NoProfile
      BY <1>5 DEF Login, ServerLogsIn, ServerSendsProfile, NoFetch
    <2>3. login'.body = login.body \/ (jar \in Account /\ login'.body = Profile(jar))
      <3>1. ASSUME NEW a \in Account, Login(a) PROVE login'.body = login.body
        BY <1>1, <3>1 DEF Login, Logins
      <3>2. CASE ServerLogsIn
        BY <1>1, <3>2 DEF ServerLogsIn, Logins
      <3>3. CASE ServerSendsProfile
        BY <1>1, <3>3 DEF ServerSendsProfile, Logins
      <3> QED
        BY <1>5, <3>1, <3>2, <3>3
    <2> QED
      BY <2>1, <2>2, <2>3, SameTables DEF HeldStep, NewBody
  <1>6. ASSUME TablesStep, UNCHANGED <<fetch, login>> PROVE HeldStep
    BY <1>6, SameBody DEF HeldStep
  <1>7. CASE \/ (\E a \in Account : \E g \in Grants : PoliciesChange(a, g))
             \/ ServerMakesOwnChange
    <2>1. UNCHANGED <<fetch, login>>
      BY <1>7 DEF PoliciesChange, ServerMakesOwnChange
    <2>2. TablesStep
      BY <1>1, <1>7, GrantsStep, SameTables DEF PoliciesChange, ServerMakesOwnChange
    <2> QED
      BY <1>6, <2>1, <2>2
  <1>8. CASE \/ Logout \/ ServerLogsOut \/ SendOwnChange \/ MarkExpires \/ StreamDrops \/ StreamReturns
             \/ (\E a \in Account : SessionsChange(a))
    <2>1. UNCHANGED <<fetch, login, granted, epoch, removed>>
      BY <1>8 DEF Logout, ServerLogsOut, SendOwnChange, MarkExpires, StreamDrops, StreamReturns,
         SessionsChange, server
    <2> QED
      BY <1>6, <2>1, SameTables
  <1> QED
    BY <1>3, <1>4, <1>5, <1>7, <1>8 DEF QuietAction

LEMMA RenderHeldStep ==
  ASSUME TypeInv, RenderAction
  PROVE  HeldStep
  <1>1. fetch \in Fetches
    BY DEF TypeInv, FetchInv
  <1>2. \A r \in BOOLEAN : Sent(r).body = NoProfile
    BY DEF Sent, NoFetch
  <1>3. UNCHANGED <<granted, epoch, removed>>
    BY DEF RenderAction, ReceiveMe, ReceiveRenewal, LoginDone, ReceiveLogout, ReceiveEvent, Navigate,
       LoadQuery, server
  <1>4. login'.body \in {login.body, NoProfile}
    <2>1. CASE LoginDone
      BY <2>1 DEF LoginDone
    <2>2. RenderAction => LoginDone \/ login' = login
      BY DEF RenderAction, ReceiveMe, ReceiveRenewal, ReceiveLogout, ReceiveEvent, Navigate, LoadQuery
    <2> QED
      BY <2>1, <2>2
  <1>5. fetch'.body \in {fetch.body, NoProfile}
    <2> DEFINE Ok == \/ fetch' = fetch \/ fetch' = NoFetch \/ (\E r \in BOOLEAN : fetch' = Sent(r))
                    \/ fetch' = [fetch EXCEPT !.at = "renewing"]
    <2>1. Ok
      <3>1. ReceiveMe \/ ReceiveRenewal => Ok
        BY DEF ReceiveMe, ReceiveRenewal
      <3>2. ReceiveEvent => Ok
        BY DEF ReceiveEvent, resetQueries, invalidateMe
      <3>3. LoginDone \/ ReceiveLogout \/ (\E l \in Offered : Navigate(l)) \/ (\E k \in Key : LoadQuery(k))
              => Ok
        BY DEF LoginDone, ReceiveLogout, Navigate, LoadQuery
      <3> QED
        BY <3>1, <3>2, <3>3 DEF RenderAction
    <2>2. NoFetch.body = NoProfile
      BY DEF NoFetch
    <2>3. [fetch EXCEPT !.at = "renewing"].body = fetch.body
      BY <1>1 DEF Fetches
    <2> QED
      BY <1>2, <2>1, <2>2, <2>3
  <1> QED
    BY <1>3, <1>4, <1>5, SameTables DEF HeldStep, NewBody

-----------------------------------------------------------------------------
(* The store and the page *)

LEMMA OpenToAll == RoutePermission["dashboard"] = {}
  BY DEF RoutePermission, Protected

\* A store that is told what it holds opens a page only by an action it holds.
LEMMA OpensHeld ==
  ASSUME NEW s \in Beliefs, ~s.pending, NEW r \in Route, Render(s, r),
         \A x \in s.perms : s.who \in Account => StillHeld(s.who, x, s.asOf),
         s.auth = "in" => s.who \in Account
  PROVE  StoreHeld'
  <1> DEFINE w == was \/ (r \in Protected /\ Allowed(s, r))
  <1>1. store' = s
    BY RenderTypes
  <1>2. AllHeld(store)'
    BY <1>1 DEF AllHeld, HeldSince, StillHeld
  <1>3. ASSUME s.auth = "in", was', RoutePermission[route'] # {}
        PROVE  Allowed(s, route')
    <2>1. route' = IF r \in Protected THEN ProtectedRoute(s, r, w)
                   ELSE IF r = "login" /\ s.auth = "in" THEN "dashboard" ELSE r
      BY DEF Render
    <2>2. route' # "dashboard" /\ route' \in Protected
      BY <1>3, OpenToAll DEF Render
    <2>3. r \in Protected /\ route' = ProtectedRoute(s, r, w)
      BY <2>1, <2>2
    <2> HIDE DEF w
    <2> QED
      BY <1>3, <2>2, <2>3 DEF ProtectedRoute, Protected
  <1>4. WasAllowed'
    <2> SUFFICES ASSUME s.auth = "in", was', RoutePermission[route'] # {}
                 PROVE  \E x \in RoutePermission[route'] : StillHeld(s.who, x, s.asOf)
      BY <1>1 DEF WasAllowed, HeldSince, StillHeld
    <2>1. PICK x \in RoutePermission[route'] : x \in s.perms
      BY <1>3 DEF Allowed, can
    <2> QED
      BY <2>1
  <1> QED
    BY <1>1, <1>2, <1>4 DEF StoreHeld

\* dropPermissions keeps an open page open, and with it the reason.
LEMMA StaysHeld ==
  ASSUME TypeInv, StoreHeld, HeldStep, NEW s \in Beliefs, store.auth = "in", s.auth = "in",
         s.pending, s.perms = {}, s.who = store.who, s.asOf = store.asOf, Render(s, route)
  PROVE  StoreHeld' /\ (was => route' = route)
  <1> DEFINE w == was \/ (route \in Protected /\ Allowed(s, route))
  <1>1. store' = s /\ route \in Route /\ (was => route \in Protected) /\ store.who \in Account
    BY RenderTypes DEF TypeInv, PageInv, StoreInv, Beliefs
  <1>2. route' = IF route \in Protected THEN ProtectedRoute(s, route, w)
                 ELSE IF route = "login" /\ s.auth = "in" THEN "dashboard" ELSE route
    BY DEF Render
  <1>3. was => route' = route
    BY <1>1, <1>2 DEF ProtectedRoute
  <1>4. \A r : Allowed(s, r) => RoutePermission[r] = {}
    BY DEF Allowed, can
  <1>5. ASSUME was', RoutePermission[route'] # {} PROVE was
    <2> SUFFICES ASSUME ~was PROVE FALSE
      OBVIOUS
    <2>1. route' # "dashboard" /\ route' \in Protected /\ (w \/ Allowed(s, route'))
      BY <1>5, OpenToAll DEF Render
    <2>2. ~Allowed(s, route')
      BY <1>4, <1>5
    <2>3. Allowed(s, route)
      BY <2>1, <2>2
    <2>4. route' = route
      BY <1>1, <1>2, <2>1, <2>2, <2>3 DEF ProtectedRoute
    <2> QED
      BY <2>2, <2>3, <2>4
  <1>6. WasAllowed'
    <2> SUFFICES ASSUME was', RoutePermission[route'] # {}
                 PROVE  \E x \in RoutePermission[route'] : StillHeld(s.who, x, s.asOf)
      BY <1>1 DEF WasAllowed, HeldSince, StillHeld
    <2>1. was /\ route' = route
      BY <1>3, <1>5
    <2>2. PICK x \in RoutePermission[route] : HeldSince(store.who, x, store.asOf)
      BY <2>1 DEF StoreHeld, WasAllowed
    <2>3. StillHeld(store.who, x, store.asOf)
      BY <1>1, <2>2, HeldKept
    <2> QED
      BY <2>1, <2>3
  <1>7. AllHeld(store)'
    BY <1>1 DEF AllHeld
  <1> QED
    BY <1>1, <1>3, <1>6, <1>7 DEF StoreHeld

LEMMA QuietHeld ==
  ASSUME TypeInv, StoreHeld, HeldStep, UNCHANGED <<store, page>>
  PROVE  StoreHeld'
  <1>1. store.auth = "in" => store.who \in Account
    BY DEF TypeInv, StoreInv, Beliefs
  <1>2. AllHeld(store)'
    <2>1. \A x \in store.perms : store.who \in Account => StillHeld(store.who, x, store.asOf)
      BY AllHeldKept DEF StoreHeld
    <2> QED
      BY <2>1 DEF AllHeld, HeldSince, StillHeld
  <1>3. WasAllowed'
    <2> SUFFICES ASSUME store.auth = "in", was, RoutePermission[route] # {}
                 PROVE  \E x \in RoutePermission[route] : StillHeld(store.who, x, store.asOf)
      BY DEF WasAllowed, page, HeldSince, StillHeld
    <2>1. PICK x \in RoutePermission[route] : HeldSince(store.who, x, store.asOf)
      BY DEF StoreHeld, WasAllowed
    <2> QED
      BY <1>1, <2>1, HeldKept
  <1> QED
    BY <1>2, <1>3 DEF StoreHeld

\* Signed out, there is nothing to hold.
LEMMA OutHeld ==
  ASSUME TypeInv, NEW r \in Route, Render(SignedOut, r)
  PROVE  StoreHeld'
  BY SignedOutTypes, OpensHeld DEF TypeInv

\* A profile becomes the store.
LEMMA ProfileHeld ==
  ASSUME HeldStep, NEW p \in Profiles, AllHeld(p), p.who \in Account, NEW r \in Route,
         Render(SignedIn(p), r)
  PROVE  StoreHeld'
  <1>1. \A x \in p.perms : p.who \in Account => StillHeld(p.who, x, p.asOf)
    BY AllHeldKept
  <1>2. /\ SignedIn(p) \in Beliefs /\ SignedIn(p).auth = "in" /\ SignedIn(p).who = p.who
        /\ SignedIn(p).perms = p.perms /\ SignedIn(p).asOf = p.asOf /\ ~SignedIn(p).pending
    BY SignedInTypes
  <1> QED
    BY <1>1, <1>2, OpensHeld

\* The store stays and another page opens, or the same one again.
LEMMA SameStoreHeld ==
  ASSUME TypeInv, HeldInv, HeldStep, ~store.pending, NEW r \in Route, Render(store, r)
  PROVE  StoreHeld'
  <1>1. store \in Beliefs /\ (store.auth = "in" => store.who \in Account)
    BY DEF TypeInv, StoreInv, Beliefs
  <1>2. \A x \in store.perms : store.who \in Account => StillHeld(store.who, x, store.asOf)
    BY AllHeldKept DEF HeldInv, StoreHeld
  <1> QED
    BY <1>1, <1>2, OpensHeld

LEMMA ReceiveHeld ==
  ASSUME TypeInv, HeldInv, HeldStep, ReceiveMe \/ ReceiveRenewal
  PROVE  StoreHeld'
  <1>1. fetch.body \in Profiles /\ route \in Route /\ StoreHeld /\ AllHeld(fetch.body)
    BY DEF TypeInv, FetchInv, Fetches, PageInv, HeldInv, BodiesHeld
  <1>2. CASE EndSession(SignedOut)
    BY <1>1, <1>2, OutHeld DEF EndSession
  <1>3. CASE ReceiveMe /\ fetch.status = "ok"
    <2>1. fetch.body.who \in Account
      BY <1>3 DEF ReceiveMe, TypeInv, FetchInv, FetchOk
    <2>2. Render(SignedIn(fetch.body), route)
      BY <1>3 DEF ReceiveMe
    <2> QED
      BY <1>1, <2>1, <2>2, ProfileHeld
  <1>4. CASE ReceiveMe /\ fetch.status = "error"
    <2>1. Render(SignedOut, route)
      BY <1>4 DEF ReceiveMe
    <2> QED
      BY <1>1, <2>1, OutHeld
  <1>5. CASE UNCHANGED <<store, page, stream, loaded, cache, seen>>
    BY <1>1, <1>5, QuietHeld
  <1> QED
    BY <1>2, <1>3, <1>4, <1>5 DEF ReceiveMe, ReceiveRenewal

LEMMA DoneHeld ==
  ASSUME TypeInv, HeldInv, HeldStep, LoginDone \/ ReceiveLogout
  PROVE  StoreHeld'
  <1>1. login.body \in Profiles /\ route \in Route /\ AllHeld(login.body)
    BY DEF TypeInv, LoginInv, Logins, PageInv, HeldInv, BodiesHeld
  <1>2. CASE EndSession(SignedOut)
    BY <1>1, <1>2, OutHeld DEF EndSession
  <1>3. CASE LoginDone /\ login.at = "loaded"
    <2> DEFINE r == IF route = "login" THEN "dashboard" ELSE route
    <2>1. Render(SignedIn(login.body), r) /\ login.body.who \in Account
      BY <1>3 DEF LoginDone, TypeInv, LoginInv
    <2>2. r \in Route
      BY <1>1 DEF Route, Protected
    <2> HIDE DEF r
    <2> QED
      BY <1>1, <2>1, <2>2, ProfileHeld
  <1> QED
    BY <1>2, <1>3 DEF LoginDone, ReceiveLogout

\* An event finds the store signed in: the stream is open.
LEMMA EventHeld ==
  ASSUME TypeInv, HeldInv, HeldStep, ReceiveEvent
  PROVE  StoreHeld' /\ (store' = store \/ (was => route' = route))
  <1>1. /\ StoreHeld /\ store \in Beliefs /\ route \in Route /\ store.auth = "in"
        /\ was => route \in Protected
    BY DEF HeldInv, TypeInv, StoreInv, PageInv, ReceiveEvent
  <1>2. CASE UNCHANGED <<store, page>>
    BY <1>1, <1>2, QuietHeld DEF page
  <1>3. CASE Render(dropPermissions(store), route)
    <2> DEFINE d == dropPermissions(store)
    <2>1. /\ d \in Beliefs /\ d.auth = "in" /\ d.who = store.who /\ d.perms = {}
          /\ d.asOf = store.asOf /\ d.pending /\ Render(d, route)
      BY <1>1, <1>3, DroppedTypes
    <2> HIDE DEF d
    <2> QED
      BY <1>1, <2>1, StaysHeld
  <1>4. CASE Render(store, route) /\ store.pending
    BY <1>1, <1>4, StaysHeld DEF StoreHeld
  <1>5. CASE Render(store, route) /\ ~store.pending
    <2>1. StoreHeld'
      BY <1>1, <1>5, SameStoreHeld
    <2> QED
      BY <1>1, <1>5, <2>1, RenderTypes
  <1> QED
    BY <1>2, <1>3, <1>4, <1>5 DEF ReceiveEvent

\* A caller whose permissions are being read again is only offered what is open to all.
LEMMA PageHeld ==
  ASSUME TypeInv, HeldInv, HeldStep,
         (\E l \in Offered : Navigate(l)) \/ (\E k \in Key : LoadQuery(k))
  PROVE  StoreHeld'
  <1>1. StoreHeld /\ store \in Beliefs /\ route \in Route
    BY DEF HeldInv, TypeInv, StoreInv, PageInv
  <1>2. ASSUME NEW l \in Offered, Navigate(l) PROVE StoreHeld'
    <2>1. /\ l.to \in Protected /\ (RoutePermission[l.to] = {} \/ can(store, l.any))
          /\ store.auth = "in" /\ Render(store, l.to)
      BY <1>2, OfferedLinks DEF Navigate
    <2>2. l.to \in Route
      BY <2>1 DEF Route
    <2>3. CASE ~store.pending
      BY <2>1, <2>2, <2>3, SameStoreHeld
    <2>4. CASE store.pending
      <3>1. store.perms = {}
        BY <1>1, <2>4 DEF StoreHeld
      <3>2. RoutePermission[l.to] = {}
        BY <2>1, <3>1 DEF can
      <3>3. Allowed(store, l.to)
        BY <2>1, <3>2 DEF Allowed
      <3>4. store' = store /\ route' = l.to
        BY <2>1, <3>3 DEF Render, ProtectedRoute
      <3>5. WasAllowed'
        BY <3>2, <3>4 DEF WasAllowed
      <3> QED
        BY <3>1, <3>4, <3>5 DEF StoreHeld, AllHeld
    <2> QED
      BY <2>3, <2>4
  <1>3. ASSUME NEW k \in Key, LoadQuery(k) PROVE StoreHeld'
    <2>1. CASE EndSession(SignedOut)
      BY <1>1, <2>1, OutHeld DEF EndSession
    <2>2. CASE UNCHANGED <<store, page, stream, loaded, seen>>
      BY <1>1, <2>2, QuietHeld
    <2> QED
      BY <1>3, <2>1, <2>2 DEF LoadQuery
  <1> QED
    BY <1>2, <1>3

LEMMA QuietPages == ASSUME QuietAction PROVE UNCHANGED <<store, page>>
  BY DEF QuietAction, Poll, ServerAnswersMe, MeFails, ServerRenews, Login, ServerLogsIn,
     ServerSendsProfile, Logout, ServerLogsOut, PoliciesChange, SendOwnChange, ServerMakesOwnChange,
     ReceiveOwnChange, MarkExpires, SessionsChange, StreamDrops, StreamReturns, page

LEMMA NextHeldInv == TypeInv /\ HeldInv /\ [Next]_vars => HeldInv'
  <1> SUFFICES ASSUME TypeInv, HeldInv, [Next]_vars PROVE HeldInv'
    OBVIOUS
  <1>1. TypeInv'
    BY NextTypeInv
  <1>2. CASE QuietAction
    <2>1. HeldStep
      BY <1>2, QuietHeldStep
    <2> QED
      BY <1>1, <1>2, <2>1, BodiesKept, QuietPages, QuietHeld DEF HeldInv
  <1>3. CASE RenderAction
    <2>1. HeldStep
      BY <1>3, RenderHeldStep
    <2> QED
      BY <1>1, <1>3, <2>1, BodiesKept, ReceiveHeld, DoneHeld, EventHeld, PageHeld DEF HeldInv, RenderAction
  <1>4. CASE UNCHANGED vars
    <2>1. HeldStep
      BY <1>4, SameTables, SameBody DEF HeldStep, vars, server
    <2>2. UNCHANGED <<store, page>>
      BY <1>4 DEF vars
    <2> QED
      BY <1>1, <2>1, <2>2, BodiesKept, QuietHeld DEF HeldInv
  <1> QED
    BY <1>2, <1>3, <1>4, ActionsOfNext

LEMMA InitHeldInv == Init => HeldInv
  <1> SUFFICES ASSUME Init PROVE HeldInv
    OBVIOUS
  <1>1. fetch.body = NoProfile /\ login.body = NoProfile
    BY DEF Init, Sent, NoFetch
  <1>2. NoProfile.who \notin Account /\ NoProfile.perms = {}
    BY AccountAssumption DEF NoProfile
  <1>3. BodiesHeld
    BY <1>1, <1>2 DEF BodiesHeld, UpToDate, Recent, AllHeld
  <1>4. store.auth = "unknown" /\ ~store.pending /\ store.perms = {}
    BY <1>2 DEF Init, Unchecked, Belief
  <1> QED
    BY <1>3, <1>4 DEF HeldInv, StoreHeld, AllHeld, WasAllowed

-----------------------------------------------------------------------------
(* No false bounce *)

\* The page is left although the caller stays signed in.
Bounced ==
    /\ store.auth = "in" /\ store'.auth = "in" /\ store # store'
    /\ store.who = store'.who /\ store.asOf <= store'.asOf
    /\ route \in Protected /\ was /\ route' # route

\* A profile that bounces the caller was read after the action was taken away.
LEMMA ProfileBounce ==
  ASSUME TypeInv, HeldInv, NEW p, p \in {fetch.body, login.body}, p \in Profiles, NEW r \in Route,
         route \in Protected => r = route, Render(SignedIn(p), r), Bounced
  PROVE  RoutePermission[route] \cap removed[store.who] # {}
  <1> DEFINE s == SignedIn(p)
  <1>1. s.auth = "in" /\ s.who = p.who /\ s.perms = p.perms /\ s.asOf = p.asOf
    BY SignedInTypes
  <1>2. store' = s /\ r = route /\ p.who = store.who /\ store.asOf <= p.asOf
    BY <1>1, RenderTypes DEF Bounced
  <1>3. ~Allowed(s, route)
    <2> HIDE DEF s
    <2> QED
      BY <1>1, <1>2 DEF Bounced, Render, ProtectedRoute
  <1>4. PICK x \in RoutePermission[route] : HeldSince(store.who, x, store.asOf)
    BY <1>1, <1>3 DEF Allowed, Bounced, HeldInv, StoreHeld, WasAllowed
  <1>5. x \notin p.perms
    BY <1>1, <1>3, <1>4 DEF Allowed, can
  <1>6. p.asOf >= store.asOf
    BY <1>2 DEF Profiles, TypeInv, StoreInv, Beliefs
  <1>7. x \in removed[store.who]
    BY <1>2, <1>4, <1>5, <1>6 DEF HeldSince, Held
  <1> QED
    BY <1>4, <1>7

LEMMA EndedStore == ASSUME TypeInv, EndSession(SignedOut) PROVE store'.auth = "out"
  BY EndSessionTypes, SignedOutTypes DEF TypeInv

LEMMA NextBounce ==
  ASSUME TypeInv, HeldInv, [Next]_vars, Bounced
  PROVE  RoutePermission[route] \cap removed[store.who] # {}
  <1>1. /\ store # store' /\ store'.auth = "in" /\ route \in Protected /\ was /\ route' # route
        /\ route \in Route /\ fetch.body \in Profiles /\ login.body \in Profiles
    BY DEF Bounced, TypeInv, PageInv, FetchInv, LoginInv, Fetches, Logins
  <1>2. ~UNCHANGED vars /\ ~QuietAction
    BY <1>1, QuietPages DEF vars
  <1>3. RenderAction
    BY <1>2, ActionsOfNext
  <1>4. ~EndSession(SignedOut)
    BY <1>1, EndedStore
  <1>5. ~(\E l \in Offered : Navigate(l)) /\ ~(\E k \in Key : LoadQuery(k))
    <2>1. ASSUME NEW l \in Offered, Navigate(l) PROVE store' = store
      BY <2>1 DEF Navigate, Render
    <2>2. ASSUME NEW k \in Key, LoadQuery(k) PROVE store' = store
      BY <1>4, <2>2 DEF LoadQuery
    <2> QED
      BY <1>1, <2>1, <2>2
  <1>6. ~ReceiveEvent /\ ~ReceiveLogout /\ ~ReceiveRenewal
    <2>1. ReceiveEvent => store' = store \/ route' = route
      <3> SUFFICES ASSUME ReceiveEvent PROVE store' = store \/ route' = route
        OBVIOUS
      <3>1. HeldStep
        BY <1>3, RenderHeldStep
      <3> QED
        BY <1>1, <3>1, EventHeld
    <2>2. ReceiveRenewal => store' = store
      BY <1>4 DEF ReceiveRenewal
    <2> QED
      BY <1>1, <1>4, <2>1, <2>2 DEF ReceiveLogout
  <1>7. CASE ReceiveMe
    <2>1. Render(SignedOut, route) => store'.auth = "out"
      BY SignedOutTypes DEF Render, TypeInv
    <2>2. Render(SignedIn(fetch.body), route)
      BY <1>1, <1>4, <1>7, <2>1 DEF ReceiveMe
    <2> QED
      BY <1>1, <2>2, ProfileBounce
  <1>8. CASE LoginDone
    <2> DEFINE r == IF route = "login" THEN "dashboard" ELSE route
    <2>1. Render(SignedIn(login.body), r)
      BY <1>4, <1>8 DEF LoginDone
    <2>2. r = route
      BY <1>1 DEF Protected
    <2> HIDE DEF r
    <2> QED
      BY <1>1, <2>1, <2>2, ProfileBounce
  <1> QED
    BY <1>3, <1>5, <1>6, <1>7, <1>8 DEF RenderAction

\* Whatever polls, logins, events and changes overlap, a caller is sent away from
\* an open page only for an action that was really taken away (ProtectedRoute,
\* wasEverAllowed, dropPermissions).
THEOREM OpenPagesStayOpen == Spec => NoFalseBounce
  <1>1. TypeInv /\ HeldInv /\ [Next]_vars =>
          [ (/\ store.auth = "in" /\ store'.auth = "in" /\ store # store'
             /\ store.who = store'.who /\ store.asOf <= store'.asOf
             /\ route \in Protected /\ was /\ route' # route)
            => RoutePermission[route] \cap removed[store.who] # {} ]_vars
    BY NextBounce DEF Bounced
  <1> QED
    BY <1>1, InitTypeInv, NextTypeInv, InitHeldInv, NextHeldInv, PTL DEF Spec, NoFalseBounce
=============================================================================
