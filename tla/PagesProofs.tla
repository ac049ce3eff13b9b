---------------------------- MODULE PagesProofs -----------------------------
(***************************************************************************)
(* Each page keeps its promise, for all constants: whatever is clicked,    *)
(* typed, answered, refused and changed by others while it is shown.  One  *)
(* inductive invariant per page; that the router shows one page lifts it   *)
(* to the pages together.                                                  *)
(***************************************************************************)
EXTENDS Pages, FiniteSetTheorems, SequenceTheorems, TLAPS

-----------------------------------------------------------------------------
(* The pages *)

\* Every step of the pages is one of the page that is shown, or changes nothing.
LEMMA MailedSteps ==
  ASSUME [PagesNext]_pagesVars, mounted' = "links"
  PROVE  mounted = "links" /\ [Mailed!Next]_(Mailed!linkVars)
  <1>1. CASE UNCHANGED pagesVars
    BY <1>1 DEF pagesVars, linksOnly, sharedVars, Mailed!linkVars
  <1>2. CASE PagesNext
    BY <1>2 DEF PagesNext
  <1> QED
    BY <1>1, <1>2

LEMMA SettingsSteps ==
  ASSUME [PagesNext]_pagesVars, mounted' = "settings"
  PROVE  mounted = "settings" /\ [Settings!Next]_(Settings!settingsVars)
  <1>1. CASE UNCHANGED pagesVars
    BY <1>1 DEF pagesVars, settingsOnly, sharedVars, Settings!settingsVars
  <1>2. CASE PagesNext
    BY <1>2 DEF PagesNext
  <1> QED
    BY <1>1, <1>2

LEMMA LimitsSteps ==
  ASSUME [PagesNext]_pagesVars, mounted' = "limits"
  PROVE  mounted = "limits" /\ [Limits!Next]_(Limits!limitVars)
  <1>1. CASE UNCHANGED pagesVars
    BY <1>1 DEF pagesVars, limitsOnly, sharedVars, Limits!limitVars
  <1>2. CASE PagesNext
    BY <1>2 DEF PagesNext
  <1> QED
    BY <1>1, <1>2

LEMMA TablesSteps ==
  ASSUME [PagesNext]_pagesVars, mounted' = "self"
  PROVE  mounted = "self" /\ [Tables!Next]_(Tables!selfVars)
  <1>1. CASE UNCHANGED pagesVars
    BY <1>1 DEF pagesVars, selfOnly, sharedVars, Tables!selfVars
  <1>2. CASE PagesNext
    BY <1>2 DEF PagesNext
  <1> QED
    BY <1>1, <1>2

LEMMA AccessSteps ==
  ASSUME [PagesNext]_pagesVars, mounted' = "access"
  PROVE  mounted = "access" /\ [Access!Next]_(Access!accessVars)
  <1>1. CASE UNCHANGED pagesVars
    BY <1>1 DEF pagesVars, accessOnly, sharedVars, Access!accessVars
  <1>2. CASE PagesNext
    BY <1>2 DEF PagesNext
  <1> QED
    BY <1>1, <1>2

LEMMA UsersSteps ==
  ASSUME [PagesNext]_pagesVars, mounted' = "users"
  PROVE  mounted = "users" /\ [Users!Next]_(Users!vars)
  <1>1. CASE UNCHANGED pagesVars
    BY <1>1 DEF pagesVars, usersOnly, sharedVars, Users!vars, Users!picking
  <1>2. CASE PagesNext
    BY <1>2 DEF PagesNext
  <1> QED
    BY <1>1, <1>2

LEMMA AuditSteps ==
  ASSUME [PagesNext]_pagesVars, mounted' = "audit"
  PROVE  mounted = "audit" /\ [Audit!Next]_(Audit!auditVars)
  <1>1. CASE UNCHANGED pagesVars
    BY <1>1 DEF pagesVars, auditOnly, sharedVars, Audit!auditVars, Audit!drawer
  <1>2. CASE PagesNext
    BY <1>2 DEF PagesNext
  <1> QED
    BY <1>1, <1>2

LEMMA PoliciesSteps ==
  ASSUME [PagesNext]_pagesVars, mounted' = "policies"
  PROVE  mounted = "policies" /\ [Policies!Next]_(Policies!policyVars)
  <1>1. CASE UNCHANGED pagesVars
    BY <1>1 DEF pagesVars, policiesOnly, sharedVars, Policies!policyVars
  <1>2. CASE PagesNext
    BY <1>2 DEF PagesNext
  <1> QED
    BY <1>1, <1>2

-----------------------------------------------------------------------------
(* The pages that an e-mailed link opens *)

LinkStatus == {"none", "live", "used", "expired"}
Calls == [phase : Mailed!Phases, answer : SUBSET Mailed!Answers, shown : SUBSET Mailed!Answers,
          email : Emails \cup {""}, token : LinkTokens \cup {""}, blamed : {"", "link", "store"}]

\* No page has the token of a link that was never sent.
TokensWereSent ==
    /\ \A t \in url : status[t] # "none"
    /\ token # "" => status[token] # "none"
    /\ manualToken # "" => status[manualToken] # "none"
    /\ call.token # "" => status[call.token] # "none"

\* The server calls a link dead that is not live, or after its store failed.
DeadIsSaid ==
    linkPage \in {"reset", "delete"} /\ "dead" \in call.answer \cup call.shown =>
        call.token = "" \/ status[call.token] # "live" \/ call.blamed = "store"

\* What the last call was answered is forgotten when the next one is sent.
AnswersAreForgotten == call.phase = "pending" => call.shown = {}

LinkInv ==
    /\ linkPage \in Mailed!Pages \cup {"left"}
    /\ url \subseteq LinkTokens
    /\ token \in LinkTokens \cup {""} /\ manualToken \in LinkTokens \cup {""}
    /\ email \in Emails \cup {""} /\ call \in Calls
    /\ status \in [LinkTokens -> LinkStatus]
    /\ TokensWereSent /\ DeadIsSaid /\ AnswersAreForgotten

LEMMA LinkInit == Mailed!Init => LinkInv
  <1> SUFFICES ASSUME Mailed!Init PROVE LinkInv
    OBVIOUS
  <1>1. url = {} /\ manualToken = "" /\ email = "" /\ call = Mailed!Idle /\ linkPage \in Mailed!Pages
    BY DEF Mailed!Init
  <1>2. call \in Calls /\ call.token = "" /\ call.answer = {} /\ call.shown = {}
    BY <1>1 DEF Mailed!Idle, Calls, Mailed!Phases
  <1>3. /\ token \in LinkTokens \cup {""} /\ status \in [LinkTokens -> LinkStatus]
        /\ token # "" => status[token] # "none"
    BY DEF Mailed!Init, LinkStatus
  <1> QED
    BY <1>1, <1>2, <1>3 DEF LinkInv, TokensWereSent, DeadIsSaid, AnswersAreForgotten

\* A link that was sent stays sent, and one that is not live is not revived.
LinksAge == \A t \in LinkTokens :
    status[t] # "none" => /\ status'[t] # "none"
                          /\ status[t] # "live" => status'[t] # "live"

\* While the page and its call stay, it is enough that links age.
LEMMA LinksAgeInv ==
  ASSUME LinkInv, LinksAge, UNCHANGED <<linkPage, call>>, status' \in [LinkTokens -> LinkStatus],
         url' \subseteq LinkTokens, \A t \in url' : t \in url \/ status[t] # "none",
         manualToken' \in LinkTokens \cup {""},
         manualToken' # "" => manualToken' = manualToken \/ status[manualToken'] # "none",
         token' = token, email' \in Emails \cup {""}
  PROVE  LinkInv'
  <1>1. TokensWereSent /\ DeadIsSaid /\ token \in LinkTokens \cup {""} /\ call.token \in LinkTokens \cup {""}
    BY DEF LinkInv, Calls
  <1>2. call.token # "" => /\ status'[call.token] # "none"
                           /\ status[call.token] # "live" => status'[call.token] # "live"
    BY <1>1 DEF LinksAge, TokensWereSent
  <1>3. token # "" => status'[token] # "none"
    BY <1>1 DEF LinksAge, TokensWereSent
  <1>4. manualToken' # "" => status'[manualToken'] # "none"
    BY <1>1 DEF LinksAge, TokensWereSent
  <1>5. \A t \in url' : status'[t] # "none"
    BY <1>1 DEF LinksAge, TokensWereSent
  <1>6. TokensWereSent'
    BY <1>2, <1>3, <1>4, <1>5 DEF TokensWereSent
  <1>7. DeadIsSaid'
    BY <1>1, <1>2 DEF DeadIsSaid
  <1>8. AnswersAreForgotten'
    BY DEF LinkInv, AnswersAreForgotten
  <1> QED
    BY <1>6, <1>7, <1>8 DEF LinkInv

LEMMA LinkNext == LinkInv /\ [Mailed!Next]_(Mailed!linkVars) => LinkInv'
  <1> SUFFICES ASSUME LinkInv, [Mailed!Next]_(Mailed!linkVars) PROVE LinkInv'
    OBVIOUS
  <1> USE DEF LinkStatus
  <1>1. /\ linkPage \in Mailed!Pages \cup {"left"} /\ url \subseteq LinkTokens
        /\ token \in LinkTokens \cup {""} /\ manualToken \in LinkTokens \cup {""}
        /\ email \in Emails \cup {""} /\ call \in Calls /\ status \in [LinkTokens -> LinkStatus]
        /\ TokensWereSent /\ DeadIsSaid /\ AnswersAreForgotten
    BY DEF LinkInv
  <1>2. UNCHANGED status => LinksAge
    BY DEF LinksAge
  <1>3. ASSUME UNCHANGED <<linkPage, url, token, manualToken, call, status>>, email' \in Emails \cup {""}
        PROVE  LinkInv'
    BY <1>1, <1>2, <1>3, LinksAgeInv
  <1>4. ASSUME NEW t \in LinkTokens, Mailed!typeToken(t) \/ Mailed!FollowLink(t)
        PROVE  LinkInv'
    <2>1. CASE Mailed!typeToken(t)
      BY <1>1, <1>2, <2>1, LinksAgeInv DEF Mailed!typeToken
    <2>2. CASE Mailed!FollowLink(t)
      BY <1>1, <1>2, <2>2, LinksAgeInv DEF Mailed!FollowLink
    <2> QED
      BY <1>4, <2>1, <2>2
  <1>5. ASSUME NEW t \in LinkTokens, Mailed!NewLink(t)
        PROVE  LinkInv'
    <2>1. LinksAge /\ status' \in [LinkTokens -> LinkStatus]
      BY <1>1, <1>5 DEF Mailed!NewLink, LinksAge
    <2> QED
      BY <1>1, <1>5, <2>1, LinksAgeInv DEF Mailed!NewLink
  <1>6. ASSUME NEW t \in LinkTokens, NEW s \in {"used", "expired"}, Mailed!LinkChanges(t, s)
        PROVE  LinkInv'
    <2>1. LinksAge /\ status' \in [LinkTokens -> LinkStatus]
      BY <1>1, <1>6 DEF Mailed!LinkChanges, LinksAge
    <2> QED
      BY <1>1, <1>6, <2>1, LinksAgeInv DEF Mailed!LinkChanges
  <1>7. ASSUME NEW t \in LinkTokens \cup {""}, t # "" => status[t] # "none", call' = Mailed!Sent(email, t),
               UNCHANGED <<linkPage, url, token, manualToken, email, status>>
        PROVE  LinkInv'
    <2>1. call' = [phase |-> "pending", answer |-> {}, shown |-> {}, email |-> email, token |-> t,
                   blamed |-> ""]
      BY <1>7 DEF Mailed!Sent, Mailed!Idle
    <2>2. call' \in Calls
      BY <1>1, <2>1 DEF Calls, Mailed!Phases
    <2>3. call'.token = t /\ call'.answer = {} /\ call'.shown = {}
      BY <2>1
    <2>4. TokensWereSent'
      BY <1>1, <1>7, <2>3 DEF TokensWereSent
    <2>5. DeadIsSaid'
      BY <2>3 DEF DeadIsSaid
    <2> QED
      BY <1>1, <1>7, <2>2, <2>3, <2>4, <2>5 DEF LinkInv, AnswersAreForgotten
  <1>8. CASE \/ Mailed!submitSignup \/ Mailed!submitReset \/ Mailed!submitRequest \/ Mailed!submitLogin
             \/ Mailed!handleVerify \/ Mailed!handleConfirm
    <2>1. "" \in LinkTokens \cup {""} /\ Mailed!ResetToken \in LinkTokens \cup {""}
          /\ (Mailed!ResetToken # "" => status[Mailed!ResetToken] # "none")
          /\ (token # "" => status[token] # "none")
      BY <1>1 DEF Mailed!ResetToken, TokensWereSent
    <2>2. CASE Mailed!submitSignup \/ Mailed!submitRequest \/ Mailed!submitLogin
      BY <1>7, <2>1, <2>2 DEF Mailed!submitSignup, Mailed!submitRequest, Mailed!submitLogin, Mailed!Submit
    <2>3. CASE Mailed!submitReset
      BY <1>7, <2>1, <2>3 DEF Mailed!submitReset, Mailed!Submit
    <2>4. CASE Mailed!handleVerify \/ Mailed!handleConfirm
      BY <1>1, <1>7, <2>1, <2>4 DEF Mailed!handleVerify, Mailed!handleConfirm
    <2> QED
      BY <1>8, <2>2, <2>3, <2>4
  <1>9. CASE Mailed!Reload
    <2>1. /\ url' = {} /\ manualToken' = "" /\ email' = "" /\ call' = Mailed!Idle
          /\ UNCHANGED <<linkPage, status>>
          /\ token' = "" \/ token' \in url
      BY <1>9 DEF Mailed!Reload, Mailed!Opened
    <2>2. call' \in Calls /\ call'.token = "" /\ call'.answer = {} /\ call'.shown = {}
      BY <2>1 DEF Mailed!Idle, Calls, Mailed!Phases
    <2>3. token' \in LinkTokens \cup {""} /\ (token' # "" => status[token'] # "none")
      BY <1>1, <2>1 DEF TokensWereSent
    <2> QED
      BY <1>1, <2>1, <2>2, <2>3 DEF LinkInv, TokensWereSent, DeadIsSaid, AnswersAreForgotten
  <1>10. CASE Mailed!Serve
    <2>1. PICK o \in Mailed!Outcomes(call) :
             /\ call' = [call EXCEPT !.answer = {o[1]}, !.blamed = o[3]]
             /\ status' = IF call.token = "" THEN status ELSE [status EXCEPT ![call.token] = o[2]]
      BY <1>10 DEF Mailed!Serve
    <2>2. UNCHANGED <<linkPage, url, token, manualToken, email>>
      BY <1>10 DEF Mailed!Serve
    <2> DEFINE s == IF call.token = "" THEN "none" ELSE status[call.token]
    <2>3. s \in LinkStatus /\ (call.token # "" => s # "none")
      BY <1>1 DEF Calls, TokensWereSent
    <2>4. /\ o[1] \in Mailed!Answers /\ o[2] \in LinkStatus /\ o[3] \in {"", "link", "store"}
          /\ s # "none" => o[2] # "none"
          /\ s # "live" => o[2] = s
          /\ linkPage \in {"reset", "delete"} /\ o[1] = "dead" => s # "live" \/ o[3] = "store"
          /\ o[1] = "dead" => o[2] = s
      <3> HIDE DEF s
      <3>1. o \in (LET kept  == {<<"throttled", s, "">>}
                       taken == IF s = "live" THEN {<<"success", "used", "">>} ELSE {}
                   IN  CASE linkPage = "reset" ->
                              kept \cup taken \cup
                              (IF s \in {"expired", "none"} THEN {<<"dead", s, "link">>}
                                                            ELSE {<<"refused", s, "">>})
                         [] linkPage = "delete" ->
                              kept \cup taken \cup
                              (IF s = "live" THEN {<<"dead", s, "store">>} ELSE {<<"dead", s, "link">>})
                         [] linkPage = "verify" ->
                              kept \cup taken \cup (IF s = "live" THEN {} ELSE {<<"refused", s, "">>})
                         [] linkPage = "signup" -> kept \cup {<<"success", s, "">>, <<"refused", s, "">>}
                         [] OTHER -> kept \cup {<<"success", s, "">>, <<"refused", s, "">>})
        BY <2>1 DEF Mailed!Outcomes, s
      <3>2. \/ o = <<"throttled", s, "">> \/ o = <<"refused", s, "">> \/ o = <<"success", s, "">>
            \/ s = "live" /\ o = <<"success", "used", "">>
            \/ s # "live" /\ o = <<"dead", s, "link">>
            \/ o = <<"dead", s, "store">>
        <4>1. CASE linkPage = "reset"
          BY <3>1, <4>1
        <4>2. CASE linkPage = "delete"
          BY <3>1, <4>2
        <4>3. CASE linkPage = "verify"
          BY <3>1, <4>3
        <4>4. CASE linkPage \notin {"reset", "delete", "verify"}
          BY <3>1, <4>4
        <4> QED
          BY <4>1, <4>2, <4>3, <4>4
      <3>3. \/ o[1] \in {"throttled", "refused", "success"} /\ o[2] = s /\ o[3] = ""
            \/ s = "live" /\ o[1] = "success" /\ o[2] = "used" /\ o[3] = ""
            \/ s # "live" /\ o[1] = "dead" /\ o[2] = s /\ o[3] = "link"
            \/ o[1] = "dead" /\ o[2] = s /\ o[3] = "store"
        <4>1. ASSUME NEW a \in {"throttled", "refused", "success"}, o = <<a, s, "">>
              PROVE  o[1] \in {"throttled", "refused", "success"} /\ o[2] = s /\ o[3] = ""
          BY <4>1
        <4>2. CASE s = "live" /\ o = <<"success", "used", "">>
          BY <4>2
        <4>3. CASE s # "live" /\ o = <<"dead", s, "link">>
          BY <4>3
        <4>4. CASE o = <<"dead", s, "store">>
          BY <4>4
        <4> QED
          BY <3>2, <4>1, <4>2, <4>3, <4>4
      <3> QED
        BY <2>3, <3>3 DEF Mailed!Answers
    <2>5. /\ call' \in Calls /\ call'.token = call.token /\ call'.shown = {} /\ call.shown = {}
          /\ call'.answer = {o[1]} /\ call'.blamed = o[3]
      <3>1. call' = [phase |-> call.phase, answer |-> {o[1]}, shown |-> call.shown, email |-> call.email,
                     token |-> call.token, blamed |-> o[3]]
        BY <1>1, <2>1 DEF Calls
      <3>2. call.shown = {}
        BY <1>1, <1>10 DEF AnswersAreForgotten, Mailed!Serve
      <3> QED
        BY <1>1, <2>4, <3>1, <3>2 DEF Calls
    <2>6. /\ status' \in [LinkTokens -> LinkStatus]
          /\ call.token = "" => status' = status
          /\ call.token # "" => /\ status'[call.token] = o[2]
                                /\ \A t \in LinkTokens \ {call.token} : status'[t] = status[t]
      BY <1>1, <2>1, <2>4 DEF Calls
    <2>7. LinksAge
      BY <1>1, <2>3, <2>4, <2>6 DEF LinksAge
    <2>8. TokensWereSent'
      BY <1>1, <2>2, <2>5, <2>7 DEF TokensWereSent, LinksAge, Calls
    <2>9. DeadIsSaid'
      <3>1. SUFFICES ASSUME linkPage \in {"reset", "delete"}, o[1] = "dead", call.token # ""
                     PROVE  status'[call.token] # "live" \/ o[3] = "store"
        BY <2>2, <2>5 DEF DeadIsSaid
      <3> QED
        BY <2>3, <2>4, <2>6, <3>1
    <2> QED
      BY <1>1, <2>2, <2>5, <2>6, <2>8, <2>9 DEF LinkInv, AnswersAreForgotten
  <1>11. CASE Mailed!Receive
    <2>1. PICK a \in call.answer \cup {"net"} :
             call' = [call EXCEPT !.phase = IF a = "success" THEN "success" ELSE "error",
                                  !.shown = {a}, !.answer = {}]
      BY <1>11 DEF Mailed!Receive
    <2>2. /\ UNCHANGED <<url, token, manualToken, email, status>>
          /\ linkPage' = linkPage \/ linkPage' = "left"
      BY <1>11 DEF Mailed!Receive, Mailed!Settled
    <2>3. call' = [phase |-> IF a = "success" THEN "success" ELSE "error", answer |-> {}, shown |-> {a},
                   email |-> call.email, token |-> call.token, blamed |-> call.blamed]
      BY <1>1, <2>1 DEF Calls
    <2>4. /\ call' \in Calls /\ call'.token = call.token /\ call'.answer = {} /\ call'.shown = {a}
          /\ call'.blamed = call.blamed /\ call'.phase # "pending"
      <3>1. a \in Mailed!Answers
        BY <1>1 DEF Calls, Mailed!Answers
      <3> QED
        BY <1>1, <2>3, <3>1 DEF Calls, Mailed!Phases
    <2>5. TokensWereSent' /\ AnswersAreForgotten'
      BY <1>1, <2>2, <2>4 DEF TokensWereSent, AnswersAreForgotten
    <2>6. DeadIsSaid'
      BY <1>1, <2>2, <2>4 DEF DeadIsSaid
    <2> QED
      BY <1>1, <2>2, <2>4, <2>5, <2>6 DEF LinkInv
  <1>12. CASE \/ \E e \in Emails : Mailed!typeEmail(e)
              \/ \E s \in {"weak", "mismatch", "good"} : Mailed!typePassword(s)
              \/ Mailed!resendEmail \/ Mailed!CooldownEnds \/ Mailed!ReceiveResend \/ UNCHANGED Mailed!linkVars
    BY <1>1, <1>3, <1>12 DEF Mailed!typeEmail, Mailed!typePassword, Mailed!resendEmail, Mailed!CooldownEnds,
       Mailed!ReceiveResend, Mailed!linkVars
  <1> QED
    BY <1>4, <1>5, <1>6, <1>8, <1>9, <1>10, <1>11, <1>12 DEF Mailed!Next

\* Whatever links, devices and lost answers there are, a page gives up a link only
\* when that link can no longer be redeemed, or when the server called it dead
\* after its own store had failed (ConfirmDeleteAccountButton, isDeadLinkError).
THEOREM LinksStayUsable == PagesSpec => []LiveLinksStayUsable
  <1>1. LinkInv => Mailed!LiveLinksStayUsable
    BY DEF LinkInv, DeadIsSaid, Mailed!LiveLinksStayUsable, Mailed!DeadPanel, Mailed!isDeadLinkError
  <1>2. PagesInit => (mounted = "links" => LinkInv)
    BY LinkInit DEF PagesInit
  <1>3. (mounted = "links" => LinkInv) /\ [PagesNext]_pagesVars => (mounted = "links" => LinkInv)'
    BY MailedSteps, LinkNext
  <1>4. (mounted = "links" => LinkInv) => LiveLinksStayUsable
    BY <1>1 DEF LiveLinksStayUsable
  <1> QED
    BY <1>2, <1>3, <1>4, PTL DEF PagesSpec

-----------------------------------------------------------------------------
(* The account settings *)

\* The page knows of every edit, and a card that was never mounted has none.
EditsAreKnown ==
    /\ dirty.name <=> "profile" \in visitedTabs /\ name # profile.name
    /\ dirty.password <=> "password" \in visitedTabs /\ password.new # ""
    /\ "password" \notin visitedTabs => password.new = ""

LEMMA EditsInit == Settings!Init => EditsAreKnown
  <1> SUFFICES ASSUME Settings!Init PROVE EditsAreKnown
    OBVIOUS
  <1>1. /\ dirty = [name |-> FALSE, password |-> FALSE] /\ name = profile.name
        /\ password = [new |-> "", current |-> ""]
    BY DEF Settings!Init, Settings!NoPassword
  <1> QED
    BY <1>1 DEF EditsAreKnown

\* A report tells what the cards hold.
LEMMA ReportTells ==
  ASSUME UNCHANGED visitedTabs, Settings!Report(name', password', profile'),
         "password" \notin visitedTabs => password'.new = ""
  PROVE  EditsAreKnown'
  <1>1. dirty'.name <=> "profile" \in visitedTabs /\ name' # profile'.name
    BY DEF Settings!Report, Settings!NameDirty
  <1>2. dirty'.password <=> "password" \in visitedTabs /\ password'.new # ""
    BY DEF Settings!Report, Settings!PasswordDirty
  <1> QED
    BY <1>1, <1>2 DEF EditsAreKnown

LEMMA EditsNext == EditsAreKnown /\ [Settings!Next]_(Settings!settingsVars) => EditsAreKnown'
  <1> SUFFICES ASSUME EditsAreKnown, [Settings!Next]_(Settings!settingsVars) PROVE EditsAreKnown'
    OBVIOUS
  <1> USE DEF Settings!tabs, Settings!me, Settings!cards
  <1>1. ASSUME UNCHANGED <<visitedTabs, name, profile, password, dirty>>
        PROVE  EditsAreKnown'
    BY <1>1 DEF EditsAreKnown
  <1>2. ASSUME NEW t \in SettingsTabs, Settings!handleTabChange(t)
        PROVE  EditsAreKnown'
    BY <1>2 DEF Settings!handleTabChange, EditsAreKnown
  <1>3. ASSUME NEW t \in SUBSET SettingsTabs, Settings!FollowLink(t)
        PROVE  EditsAreKnown'
    <2>1. UNCHANGED <<visitedTabs, profile>>
      BY <1>3 DEF Settings!FollowLink
    <2>2. CASE t = link
      BY <1>1, <1>3, <2>1, <2>2 DEF Settings!FollowLink
    <2>3. CASE t # link
      <3>1. Settings!Report(name', password', profile') /\ password' = [new |-> "", current |-> ""]
        BY <1>3, <2>1, <2>3 DEF Settings!FollowLink, Settings!NoPassword
      <3> QED
        BY <2>1, <3>1, ReportTells
    <2> QED
      BY <2>2, <2>3
  <1>4. ASSUME NEW x, Settings!setEditedName(x)
        PROVE  EditsAreKnown'
    <2>1. UNCHANGED <<visitedTabs, password, profile>> /\ Settings!Report(name', password', profile')
      BY <1>4 DEF Settings!setEditedName
    <2> QED
      BY <2>1, ReportTells DEF EditsAreKnown
  <1>5. ASSUME NEW new, NEW current, Settings!setPasswords(new, current)
        PROVE  EditsAreKnown'
    <2>1. /\ UNCHANGED <<visitedTabs, name, profile>> /\ Settings!Report(name', password', profile')
          /\ "password" \in visitedTabs
      BY <1>5 DEF Settings!setPasswords, Settings!Panel
    <2> QED
      BY <2>1, ReportTells
  <1>6. ASSUME NEW c \in calls, Settings!NameSaved(c)
        PROVE  EditsAreKnown'
    <2>1. UNCHANGED <<visitedTabs, password, profile>> /\ Settings!Report(name', password', profile')
      BY <1>6 DEF Settings!NameSaved
    <2> QED
      BY <2>1, ReportTells DEF EditsAreKnown
  <1>7. ASSUME NEW c \in calls, Settings!PasswordSaved(c)
        PROVE  EditsAreKnown'
    <2>1. UNCHANGED <<visitedTabs, name, profile>>
      BY <1>7 DEF Settings!PasswordSaved
    <2>2. CASE settingsServer.hasPassword /\ c.to = ""
      BY <1>1, <1>7, <2>1, <2>2 DEF Settings!PasswordSaved
    <2>3. CASE ~(settingsServer.hasPassword /\ c.to = "")
      <3>1. /\ Settings!Report(name', password', profile')
            /\ password' = [new |-> "", current |-> ""] \/ password' = password
        BY <1>7, <2>1, <2>3 DEF Settings!PasswordSaved, Settings!NoPassword
      <3>2. password'.new = "" \/ password'.new = password.new
        <4>1. CASE password' = [new |-> "", current |-> ""]
          BY <4>1
        <4>2. CASE password' = password
          BY <4>2
        <4> QED
          BY <3>1, <4>1, <4>2
      <3> QED
        BY <2>1, <3>1, <3>2, ReportTells DEF EditsAreKnown
    <2> QED
      BY <2>2, <2>3
  <1>8. CASE Settings!ReceiveMe
    <2>1. UNCHANGED <<visitedTabs, name, password>> /\ Settings!Report(name', password', profile')
      BY <1>8 DEF Settings!ReceiveMe
    <2> QED
      BY <2>1, ReportTells DEF EditsAreKnown
  <1>9. CASE \/ \E c \in calls : Settings!CallFails(c) \/ Settings!DeleteAnswered(c)
             \/ Settings!ElsewhereRenamed \/ UNCHANGED Settings!settingsVars
    BY <1>1, <1>9 DEF Settings!CallFails, Settings!DeleteAnswered, Settings!ElsewhereRenamed,
       Settings!settingsVars
  <1>10. CASE \/ Settings!handleNameSubmit \/ Settings!handlePasswordSubmit \/ Settings!handleRequestDelete
              \/ Settings!cancelDelete \/ Settings!handleConfirmDelete
    BY <1>1, <1>10 DEF Settings!handleNameSubmit, Settings!handlePasswordSubmit,
       Settings!handleRequestDelete, Settings!cancelDelete, Settings!handleConfirmDelete
  <1> QED
    BY <1>2, <1>3, <1>4, <1>5, <1>6, <1>7, <1>8, <1>9, <1>10 DEF Settings!Next

\* Whatever is typed, saved, refetched, renamed elsewhere or mounted anew, and in
\* whatever order the answers come, the page warns exactly while one of its cards
\* holds an edit (useUnsavedChangesWarning, onDirtyChange).
THEOREM PageWarnsOfEdits == PagesSpec => []WarnsOfUnsaved
  <1>1. EditsAreKnown => Settings!WarnsOfUnsaved
    BY DEF EditsAreKnown, Settings!WarnsOfUnsaved, Settings!Warns
  <1>2. PagesInit => (mounted = "settings" => EditsAreKnown)
    BY EditsInit DEF PagesInit
  <1>3. (mounted = "settings" => EditsAreKnown) /\ [PagesNext]_pagesVars => (mounted = "settings" => EditsAreKnown)'
    BY SettingsSteps, EditsNext
  <1>4. (mounted = "settings" => EditsAreKnown) => WarnsOfUnsaved
    BY <1>1 DEF WarnsOfUnsaved
  <1> QED
    BY <1>2, <1>3, <1>4, PTL DEF PagesSpec

-----------------------------------------------------------------------------
(* The rate limits *)

AtMostOne(S) == S = {} \/ \E x : S = {x}

\* While a reset is out the guard is up or the render that disables the button has
\* been seen, so a second one cannot start.
ResetInv ==
    /\ AtMostOne(resetting) /\ AtMostOne(rendered.entry) /\ AtMostOne(resets)
    /\ resets # {} => submitGuard \/ rendered.pending

LEMMA ResetInit == Limits!Init => ResetInv
  <1> SUFFICES ASSUME Limits!Init PROVE ResetInv
    OBVIOUS
  <1>1. resets = {} /\ resetting = {} /\ rendered = [pending |-> FALSE, entry |-> {}]
    BY DEF Limits!Init
  <1> QED
    BY <1>1 DEF ResetInv, AtMostOne

LEMMA ResetNext == ResetInv /\ [Limits!Next]_(Limits!limitVars) => ResetInv'
  <1> SUFFICES ASSUME ResetInv, [Limits!Next]_(Limits!limitVars) PROVE ResetInv'
    OBVIOUS
  <1>1. ASSUME UNCHANGED <<resetting, rendered, resets, submitGuard>>
        PROVE  ResetInv'
    BY <1>1 DEF ResetInv, AtMostOne
  <1>2. ASSUME NEW next, Limits!Update(next)
        PROVE  ResetInv'
    BY <1>1, <1>2 DEF Limits!Update
  <1>3. CASE \/ Limits!RateLimitsFilterBar \/ Limits!toggleSort \/ Limits!RateLimitsStatsCard
    BY <1>2, <1>3 DEF Limits!RateLimitsFilterBar, Limits!toggleSort, Limits!RateLimitsStatsCard
  <1>4. CASE \/ Limits!useDebouncedValue \/ Limits!Pagination \/ (\E r \in resets : Limits!ResetServed(r))
             \/ Limits!Receive \/ Limits!Fail \/ Limits!Expire \/ UNCHANGED Limits!limitVars
    BY <1>1, <1>4 DEF Limits!useDebouncedValue, Limits!Pagination, Limits!ResetServed, Limits!Receive,
       Limits!Fail, Limits!Expire, Limits!limitVars
  <1>5. CASE Limits!Render
    <2>1. /\ rendered' = [pending |-> resets # {}, entry |-> resetting] /\ UNCHANGED <<resetting, resets>>
      BY <1>5 DEF Limits!Render, Limits!isPending
    <2>2. (rendered'.pending <=> resets # {}) /\ rendered'.entry = resetting
      BY <2>1
    <2> QED
      BY <2>1, <2>2 DEF ResetInv, AtMostOne
  <1>6. ASSUME NEW k, Limits!requestReset(k)
        PROVE  ResetInv'
    BY <1>6 DEF Limits!requestReset, ResetInv, AtMostOne
  <1>7. CASE Limits!onCancel
    BY <1>7 DEF Limits!onCancel, ResetInv, AtMostOne
  <1>8. CASE Limits!handleConfirmReset
    <2>1. resets = {} /\ submitGuard' /\ UNCHANGED <<resetting, rendered>>
      BY <1>8 DEF Limits!handleConfirmReset, Limits!MaySubmit, ResetInv
    <2>2. resets' = {[key |-> k, heard |-> TRUE] : k \in rendered.entry}
      BY <1>8, <2>1 DEF Limits!handleConfirmReset
    <2>3. AtMostOne(resets)'
      <3>1. CASE rendered.entry = {}
        BY <2>2, <3>1 DEF AtMostOne
      <3>2. ASSUME NEW x, rendered.entry = {x}
            PROVE  AtMostOne(resets)'
        <4>1. resets' = {[key |-> x, heard |-> TRUE]}
          BY <2>2, <3>2
        <4> QED
          BY <4>1 DEF AtMostOne
      <3> QED
        BY <3>1, <3>2 DEF ResetInv, AtMostOne
    <2> QED
      BY <2>1, <2>3 DEF ResetInv, AtMostOne
  <1>9. ASSUME NEW r \in resets, NEW ok \in BOOLEAN, Limits!ResetAnswered(r, ok)
        PROVE  ResetInv'
    <2>1. /\ resets' = resets \ {r} /\ UNCHANGED <<rendered, submitGuard>>
          /\ resetting' = {} \/ resetting' = resetting
      BY <1>9 DEF Limits!ResetAnswered
    <2>2. resets' = {}
      BY <1>9, <2>1 DEF ResetInv, AtMostOne
    <2> QED
      BY <2>1, <2>2 DEF ResetInv, AtMostOne
  <1> QED
    BY <1>3, <1>4, <1>5, <1>6, <1>7, <1>8, <1>9 DEF Limits!Next

\* However fast the clicks and however late the renders, one confirmation sends one
\* DELETE, and no second one starts before it is answered (RateLimitsPage).
THEOREM ResetsGoOneByOne == PagesSpec => []OneResetAtATime
  <1>1. ResetInv => Limits!OneResetAtATime
    <2>1. Limits!Cardinality(resets) = Cardinality(resets)
      BY Zenon DEF Limits!Cardinality, Cardinality
    <2>2. ResetInv => Cardinality(resets) = 0 \/ Cardinality(resets) = 1
      BY FS_EmptySet, FS_Singleton DEF ResetInv, AtMostOne
    <2> QED
      BY <2>1, <2>2 DEF Limits!OneResetAtATime
  <1>2. PagesInit => (mounted = "limits" => ResetInv)
    BY ResetInit DEF PagesInit
  <1>3. (mounted = "limits" => ResetInv) /\ [PagesNext]_pagesVars => (mounted = "limits" => ResetInv)'
    BY LimitsSteps, ResetNext
  <1>4. (mounted = "limits" => ResetInv) => OneResetAtATime
    BY <1>1 DEF OneResetAtATime
  <1> QED
    BY <1>2, <1>3, <1>4, PTL DEF PagesSpec

-----------------------------------------------------------------------------
(* Passkeys and active sessions *)

IsChange(c)  == c = Tables!Change(c.hook, c.ids, c.to)
IsRequest(r) == r = [hook |-> r.hook, ids |-> r.ids, to |-> r.to, last |-> r.last, result |-> r.result]
IsCheck(k)   == k = [f \in {"attached", "action", "ok", "at"} |-> k[f]]

\* A request that is out for the change c.
UnderWay(c) == \E r \in requests : r.hook = c.hook /\ r.ids = c.ids /\ r.to = c.to

\* Unless one was displaced, a change that the user waits for is under way or parked.
OwedInv ==
    /\ AtMostOne(parked)
    /\ \A k \in checks : IsCheck(k) /\ AtMostOne(k.action)
    /\ \A r \in requests : IsRequest(r)
    /\ \A c \in ask \cup owed : IsChange(c)
    /\ ~lost => \A c \in owed : UnderWay(c) \/ c \in parked

LEMMA OwedInit == Tables!Init => OwedInv
  BY DEF Tables!Init, OwedInv, AtMostOne

\* A new call leaves those under way under way.
LEMMA MutateKeeps ==
  ASSUME NEW d, Tables!Mutate(d), \A r \in requests : IsRequest(r)
  PROVE  /\ \A r \in requests' : IsRequest(r)
         /\ \A c : UnderWay(c) => UnderWay(c)'
         /\ UnderWay(d)'
  <1> DEFINE Older(r) == [r EXCEPT !.last = @ /\ r.hook # d.hook]
             newest == [hook |-> d.hook, ids |-> d.ids, to |-> d.to, last |-> TRUE, result |-> "none"]
  <1>1. requests' = {Older(r) : r \in requests} \cup {newest}
    BY DEF Tables!Mutate
  <1>2. ASSUME NEW r \in requests
        PROVE  /\ Older(r).hook = r.hook /\ Older(r).ids = r.ids /\ Older(r).to = r.to
               /\ IsRequest(Older(r))
    <2>1. r = [hook |-> r.hook, ids |-> r.ids, to |-> r.to, last |-> r.last, result |-> r.result]
      BY DEF IsRequest
    <2>2. Older(r) = [hook |-> r.hook, ids |-> r.ids, to |-> r.to, last |-> r.last /\ r.hook # d.hook,
                      result |-> r.result]
      BY <2>1
    <2> QED
      BY <2>2 DEF IsRequest
  <1>3. newest.hook = d.hook /\ newest.ids = d.ids /\ newest.to = d.to /\ IsRequest(newest)
    BY DEF IsRequest
  <1> HIDE DEF Older, newest
  <1>4. \A r \in requests' : IsRequest(r)
    BY <1>1, <1>2, <1>3
  <1>5. \A c : UnderWay(c) => UnderWay(c)'
    BY <1>1, <1>2 DEF UnderWay
  <1>6. UnderWay(d)'
    BY <1>1, <1>3 DEF UnderWay
  <1> QED
    BY <1>4, <1>5, <1>6

LEMMA CheckChanges ==
  ASSUME NEW k, IsCheck(k), NEW x
  PROVE  /\ [k EXCEPT !.at = "answered", !.ok = TRUE].action = k.action
         /\ [k EXCEPT !.at = "answered"].action = k.action
         /\ [k EXCEPT !.attached = FALSE, !.action = IF k.attached THEN x ELSE @].action
               = IF k.attached THEN x ELSE k.action
         /\ IsCheck([k EXCEPT !.at = "answered", !.ok = TRUE])
         /\ IsCheck([k EXCEPT !.at = "answered"])
         /\ IsCheck([k EXCEPT !.attached = FALSE, !.action = IF k.attached THEN x ELSE @])
  <1>1. DOMAIN k = {"attached", "action", "ok", "at"}
    BY DEF IsCheck
  <1> QED
    BY <1>1 DEF IsCheck

LEMMA OwedNext == OwedInv /\ [Tables!Next]_(Tables!selfVars) => OwedInv'
  <1> SUFFICES ASSUME OwedInv, [Tables!Next]_(Tables!selfVars) PROVE OwedInv'
    OBVIOUS
  <1> USE DEF Tables!stepUp, Tables!names, Tables!server, Tables!offList
  <1>1. ASSUME UNCHANGED <<parked, checks, requests, owed>>, lost => lost', ask' \subseteq ask
        PROVE  OwedInv'
    BY <1>1 DEF OwedInv, AtMostOne, UnderWay
  <1>2. ASSUME NEW c, IsChange(c), Tables!Request(c), UNCHANGED <<parked, checks, lost>>, ask' \subseteq ask
        PROVE  OwedInv'
    <2>1. Tables!Mutate(c) /\ owed' = owed \cup {c}
      BY <1>2 DEF Tables!Request
    <2>2. /\ UnderWay(c)' /\ \A d \in owed : UnderWay(d) => UnderWay(d)'
          /\ \A r \in requests' : IsRequest(r)
      BY <2>1, MutateKeeps DEF OwedInv
    <2> QED
      BY <1>2, <2>1, <2>2 DEF OwedInv, AtMostOne
  <1>3. ASSUME NEW r \in requests, NEW s, requests' = (requests \ {r}) \cup {s},
               s.hook = r.hook, s.ids = r.ids, s.to = r.to, IsRequest(s),
               UNCHANGED <<parked, checks, owed, lost>>, ask' = ask
        PROVE  OwedInv'
    <2>1. \A c : UnderWay(c) => UnderWay(c)'
      BY <1>3 DEF UnderWay
    <2> QED
      BY <1>3, <2>1 DEF OwedInv, AtMostOne
  <1>4. ASSUME NEW hook, NEW ids, NEW to, Tables!Open(Tables!Change(hook, ids, to))
        PROVE  OwedInv'
    <2>1. IsChange(Tables!Change(hook, ids, to))
      BY DEF IsChange, Tables!Change
    <2>2. ask' = {Tables!Change(hook, ids, to)} /\ UNCHANGED <<parked, checks, requests, owed, lost>>
      BY <1>4 DEF Tables!Open
    <2> QED
      BY <2>1, <2>2 DEF OwedInv, AtMostOne, UnderWay
  <1>5. CASE (\E i \in Tables!Ids : Tables!askRow(i)) \/ Tables!askSelected \/ Tables!askAll
    BY <1>4, <1>5 DEF Tables!askRow, Tables!askSelected, Tables!askAll
  <1>6. CASE \/ \E i \in Tables!Ids : Tables!toggleRow(i) \/ Tables!ElsewhereChanges(i)
             \/ \E i \in Tables!Ids, l \in Labels \cup {""} : Tables!typeName(i, l)
             \/ Tables!clearSelection \/ Tables!cancelAsk \/ Tables!UnlockEnds
    BY <1>1, <1>6 DEF Tables!toggleRow, Tables!ElsewhereChanges, Tables!typeName, Tables!clearSelection,
       Tables!cancelAsk, Tables!UnlockEnds
  <1>7. CASE Tables!ServerLists \/ Tables!ReceiveList \/ Tables!ListFails \/ Tables!Revalidate
    BY <1>1, <1>7 DEF Tables!ServerLists, Tables!ReceiveList, Tables!ListFails, Tables!Revalidate
  <1>8. CASE UNCHANGED Tables!selfVars
    BY <1>1, <1>8 DEF Tables!selfVars
  <1>9. CASE Tables!confirm
    <2>1. PICK c \in ask :
             /\ Tables!Request(IF c.hook = "bulk" /\ c.to = "selected" THEN [c EXCEPT !.ids = selected] ELSE c)
             /\ ask' = IF c.hook \in {"logout", "everywhere"} THEN {} ELSE ask
      BY <1>9 DEF Tables!confirm
    <2>2. UNCHANGED <<parked, checks, lost>> /\ ask' \subseteq ask
      BY <1>9, <2>1 DEF Tables!confirm
    <2>3. IsChange(c)
      BY DEF OwedInv
    <2>4. IsChange([c EXCEPT !.ids = selected])
      <3>1. c = [hook |-> c.hook, ids |-> c.ids, to |-> c.to]
        BY <2>3 DEF IsChange, Tables!Change
      <3>2. [c EXCEPT !.ids = selected] = [hook |-> c.hook, ids |-> selected, to |-> c.to]
        BY <3>1
      <3> QED
        BY <3>2 DEF IsChange, Tables!Change
    <2> QED
      BY <1>2, <2>1, <2>2, <2>3, <2>4
  <1>10. CASE Tables!add \/ \E i \in Tables!Ids : Tables!leaveName(i)
    <2>1. ASSUME NEW hook, NEW ids, NEW to, Tables!Request(Tables!Change(hook, ids, to)),
                 UNCHANGED <<parked, checks, lost, ask>>
          PROVE  OwedInv'
      <3>1. IsChange(Tables!Change(hook, ids, to))
        BY DEF IsChange, Tables!Change
      <3> QED
        BY <1>2, <2>1, <3>1
    <2>2. CASE Tables!add
      BY <2>1, <2>2 DEF Tables!add
    <2>3. ASSUME NEW i \in Tables!Ids, Tables!leaveName(i)
          PROVE  OwedInv'
      <3>1. UNCHANGED <<parked, checks, lost, ask>>
        BY <2>3 DEF Tables!leaveName
      <3>2. \/ UNCHANGED <<requests, owed>>
            \/ \E l \in cells[i] : Tables!Request(Tables!Change("rename", {i}, l))
        BY <2>3 DEF Tables!leaveName
      <3> QED
        BY <1>1, <2>1, <3>1, <3>2
    <2> QED
      BY <1>10, <2>2, <2>3
  <1>11. ASSUME NEW r \in requests, Tables!ServerApplies(r) \/ Tables!RequestFails(r)
         PROVE  OwedInv'
    <2>1. PICK a : requests' = (requests \ {r}) \cup {[r EXCEPT !.result = a]}
      BY <1>11 DEF Tables!ServerApplies, Tables!RequestFails
    <2>2. UNCHANGED <<parked, checks, owed, lost, ask>>
      BY <1>11 DEF Tables!ServerApplies, Tables!RequestFails
    <2> DEFINE s == [r EXCEPT !.result = a]
    <2>3. s.hook = r.hook /\ s.ids = r.ids /\ s.to = r.to /\ IsRequest(s)
      <3>1. r = [hook |-> r.hook, ids |-> r.ids, to |-> r.to, last |-> r.last, result |-> r.result]
        BY DEF OwedInv, IsRequest
      <3>2. s = [hook |-> r.hook, ids |-> r.ids, to |-> r.to, last |-> r.last, result |-> a]
        BY <3>1
      <3> QED
        BY <3>2 DEF IsRequest
    <2> HIDE DEF s
    <2> QED
      BY <1>3, <2>1, <2>2, <2>3 DEF s
  <1>12. ASSUME NEW r \in requests, Tables!succeed(r) \/ Tables!fail(r)
         PROVE  OwedInv'
    <2>1. /\ requests' = requests \ {r} /\ owed' = owed \ {Tables!Change(r.hook, r.ids, r.to)}
          /\ UNCHANGED <<parked, checks, lost>> /\ ask' \subseteq ask
      BY <1>12 DEF Tables!succeed, Tables!fail, Tables!Told, Tables!Closed
    <2>2. ASSUME NEW c \in owed', UnderWay(c)
          PROVE  UnderWay(c)'
      <3>1. IsChange(c) /\ c # Tables!Change(r.hook, r.ids, r.to)
        BY <2>1, <2>2 DEF OwedInv
      <3>2. PICK s \in requests : s.hook = c.hook /\ s.ids = c.ids /\ s.to = c.to
        BY <2>2 DEF UnderWay
      <3>3. s # r
        BY <3>1, <3>2 DEF IsChange
      <3> QED
        BY <2>1, <3>2, <3>3 DEF UnderWay
    <2> QED
      BY <2>1, <2>2 DEF OwedInv, AtMostOne
  <1>13. ASSUME NEW r \in requests, Tables!park(r)
         PROVE  OwedInv'
    <2>1. /\ requests' = requests \ {r} /\ parked' = {Tables!Change(r.hook, r.ids, r.to)}
          /\ lost' = (lost \/ parked # {}) /\ ask' \subseteq ask /\ UNCHANGED <<checks, owed>>
      BY <1>13 DEF Tables!park, Tables!Closed
    <2>2. ASSUME NEW c \in owed, UnderWay(c)
          PROVE  UnderWay(c)' \/ c \in parked'
      <3>1. PICK s \in requests : s.hook = c.hook /\ s.ids = c.ids /\ s.to = c.to
        BY <2>2 DEF UnderWay
      <3>2. CASE s = r
        BY <2>1, <2>2, <3>1, <3>2 DEF OwedInv, IsChange
      <3>3. CASE s # r
        BY <2>1, <3>1, <3>3 DEF UnderWay
      <3> QED
        BY <3>2, <3>3
    <2> QED
      BY <2>1, <2>2 DEF OwedInv, AtMostOne
  <1>14. ASSUME NEW r \in requests, Tables!signOut(r)
         PROVE  OwedInv'
    BY <1>14 DEF Tables!signOut, OwedInv, AtMostOne
  <1>15. ASSUME NEW by, Tables!startCheck(by)
         PROVE  OwedInv'
    <2>1. /\ checks' = checks \cup {[attached |-> TRUE, action |-> {}, ok |-> FALSE, at |-> "sent"]}
          /\ UNCHANGED <<parked, requests, owed, lost, ask>>
      BY <1>15 DEF Tables!startCheck
    <2>2. \A k \in checks' : IsCheck(k) /\ AtMostOne(k.action)
      <3>1. PICK c : c = [attached |-> TRUE, action |-> {}, ok |-> FALSE, at |-> "sent"]
        OBVIOUS
      <3>2. IsCheck(c) /\ AtMostOne(c.action)
        BY <3>1 DEF AtMostOne, IsCheck
      <3>3. \A k \in checks : IsCheck(k) /\ AtMostOne(k.action)
        BY DEF OwedInv
      <3>4. checks' = checks \cup {c}
        BY <2>1, <3>1
      <3> QED
        BY <3>2, <3>3, <3>4
    <2> QED
      BY <2>1, <2>2 DEF OwedInv, AtMostOne, UnderWay
  <1>16. ASSUME NEW c \in checks, Tables!ServerChecks(c) \/ Tables!checkFailed(c)
         PROVE  OwedInv'
    <2>1. UNCHANGED <<parked, requests, owed, lost, ask>>
      BY <1>16 DEF Tables!ServerChecks, Tables!checkFailed
    <2>2. \/ checks' = (checks \ {c}) \cup {[c EXCEPT !.at = "answered", !.ok = TRUE]}
          \/ checks' = (checks \ {c}) \cup {[c EXCEPT !.at = "answered"]}
          \/ checks' = checks \ {c}
      BY <1>16 DEF Tables!ServerChecks, Tables!checkFailed
    <2>3. /\ [c EXCEPT !.at = "answered", !.ok = TRUE].action = c.action
          /\ [c EXCEPT !.at = "answered"].action = c.action
          /\ IsCheck([c EXCEPT !.at = "answered", !.ok = TRUE]) /\ IsCheck([c EXCEPT !.at = "answered"])
      BY CheckChanges DEF OwedInv
    <2>4. \A k \in checks' : IsCheck(k) /\ \E j \in checks : k.action = j.action
      BY <2>2, <2>3 DEF OwedInv
    <2>5. \A k \in checks' : IsCheck(k) /\ AtMostOne(k.action)
      BY <2>4 DEF OwedInv
    <2> QED
      BY <2>1, <2>5 DEF OwedInv, AtMostOne, UnderWay
  <1>17. ASSUME NEW k \in checks, Tables!checkDone(k)
         PROVE  OwedInv'
    <2> DEFINE actions == IF k.attached THEN parked ELSE k.action
    <2>1. /\ Tables!Resume(actions) /\ lost' = (lost \/ ~(parked \subseteq actions))
          /\ checks' = checks \ {k} /\ UNCHANGED <<ask, owed>>
      BY <1>17 DEF Tables!checkDone
    <2>2. AtMostOne(actions)
      BY DEF OwedInv
    <2> HIDE DEF actions
    <2>3. parked' = {} /\ IF actions = {} THEN UNCHANGED requests ELSE \E d \in actions : Tables!Mutate(d)
      BY <2>1 DEF Tables!Resume
    <2>4. /\ \A c : UnderWay(c) => UnderWay(c)'
          /\ \A c \in actions : UnderWay(c)'
          /\ \A r \in requests' : IsRequest(r)
      <3>1. CASE actions = {}
        BY <2>3, <3>1 DEF UnderWay, OwedInv
      <3>2. CASE actions # {}
        <4>1. PICK d \in actions : Tables!Mutate(d)
          BY <2>3, <3>2
        <4>2. actions = {d}
          BY <2>2, <4>1 DEF AtMostOne
        <4> QED
          BY <4>1, <4>2, MutateKeeps DEF OwedInv
      <3> QED
        BY <3>1, <3>2
    <2>5. ~lost' => \A c \in owed' : UnderWay(c)'
      BY <2>1, <2>4 DEF OwedInv
    <2> QED
      BY <2>1, <2>3, <2>4, <2>5 DEF OwedInv, AtMostOne
  <1>18. CASE Tables!cancelStepUp
    <2> DEFINE Detached(c) == [c EXCEPT !.attached = FALSE, !.action = IF c.attached THEN parked ELSE @]
    <2>1. /\ checks' = {Detached(c) : c \in checks}
          /\ parked' = {} /\ owed' = owed \ parked /\ UNCHANGED <<ask, requests, lost>>
      BY <1>18 DEF Tables!cancelStepUp
    <2>2. ASSUME NEW c \in checks
          PROVE  IsCheck(Detached(c)) /\ AtMostOne(Detached(c).action)
      <3>1. IsCheck(c) /\ AtMostOne(c.action) /\ AtMostOne(parked)
        BY DEF OwedInv
      <3>2. IsCheck(Detached(c)) /\ Detached(c).action = IF c.attached THEN parked ELSE c.action
        BY <3>1, CheckChanges
      <3> HIDE DEF Detached
      <3> QED
        BY <3>1, <3>2
    <2> HIDE DEF Detached
    <2>3. \A k \in checks' : IsCheck(k) /\ AtMostOne(k.action)
      BY <2>1, <2>2
    <2> QED
      BY <2>1, <2>3 DEF OwedInv, AtMostOne, UnderWay
  <1>19. CASE Tables!withGoogle
    BY <1>19 DEF Tables!withGoogle, OwedInv, AtMostOne
  <1> QED
    BY <1>5, <1>6, <1>7, <1>8, <1>9, <1>10, <1>11, <1>12, <1>13, <1>14, <1>15, <1>16, <1>17, <1>18, <1>19
       DEF Tables!Next

\* Whatever is asked for, refused for want of an identity check, confirmed twice or
\* cancelled, and in whatever order the answers come: once nothing is under way or
\* parked, the user has heard of every change (stepUpRetry, resumeAfterStepUp).
THEOREM ChangesAreHeardOf == PagesSpec => []ConfirmedChangesAreDone
  <1>1. OwedInv => Tables!ConfirmedChangesAreDone
    BY DEF OwedInv, UnderWay, Tables!ConfirmedChangesAreDone, Tables!Settled
  <1>2. PagesInit => (mounted = "self" => OwedInv)
    BY OwedInit DEF PagesInit
  <1>3. (mounted = "self" => OwedInv) /\ [PagesNext]_pagesVars => (mounted = "self" => OwedInv)'
    BY TablesSteps, OwedNext
  <1>4. (mounted = "self" => OwedInv) => ConfirmedChangesAreDone
    BY <1>1 DEF ConfirmedChangesAreDone
  <1> QED
    BY <1>2, <1>3, <1>4, PTL DEF PagesSpec

-----------------------------------------------------------------------------
(* The access dialog *)

\* What kind of value a query, a call and an offered Undo are.
IsQuery(e) ==
    /\ e = [f \in {"data", "fetch", "answer", "stale", "failed", "missed"} |-> e[f]]
    /\ e.fetch \in {"idle", "sent", "answered"} /\ e.stale \in BOOLEAN /\ e.missed \in BOOLEAN
IsUndo(c) == c.kind \in Access!Hooks /\ c.user \in Person
IsCall(r) ==
    /\ r = [f \in {"id", "kind", "user", "item", "undo", "toast", "at", "ok"} |-> r[f]]
    /\ r.kind \in Access!Hooks /\ r.user \in Person /\ r.undo \subseteq Access!Hooks /\ r.ok \in BOOLEAN

AccessTypes ==
    /\ spent \in [changes : Nat, others : Nat, faults : Nat]
    /\ accessHeld = [u \in Person |-> [policies |-> accessHeld[u].policies, permissions |-> accessHeld[u].permissions]]
    /\ DOMAIN lists = Access!Key /\ \A k \in Access!Key : IsQuery(lists[k])
    /\ \A r \in mutations : IsCall(r)
    /\ \A t \in toasts : \A c \in t.undo : IsUndo(c)

\* The server has made a change of which list k has not been told.
Untold(k) == \E r \in mutations : r.at = "answered" /\ r.ok /\ k \in Access!Invalidates(r)

Holding(k) == accessHeld[k[1]][k[2]]

\* A list that counts as fresh, and an answer that will, is of now unless a change
\* is untold; and the dialog observes no list that is idle without fresh data.
ListTrue(k) ==
    LET e == lists[k] IN
    /\ ~Access!Loading(e) /\ ~e.missed /\ ~e.stale /\ e.data # {} => e.data = {Holding(k)} \/ Untold(k)
    /\ e.fetch = "answered" => e.answer # {} /\ (e.missed \/ e.answer = {Holding(k)} \/ Untold(k))
    /\ k \in Access!ObservedFor(access) /\ ~Access!Loading(e) => ~e.stale /\ e.data # {}

OthersQuiet == spent.others = 0 /\ spent.faults = 0

AccessInv == AccessTypes /\ (OthersQuiet => \A k \in Access!Key : ListTrue(k))

LEMMA AccessRefetch ==
  ASSUME NEW e, IsQuery(e)
  PROVE  /\ IsQuery(Access!Refetch(e)) /\ Access!Refetch(e).fetch = "sent"
  <1>1. DOMAIN e = {"data", "fetch", "answer", "stale", "failed", "missed"}
    BY DEF IsQuery
  <1> QED
    BY <1>1 DEF IsQuery, Access!Refetch

\* What an invalidation leaves: an answer that goes on is marked, and idle data is.
LEMMA AccessInvalidated ==
  ASSUME NEW e, IsQuery(e), NEW active \in BOOLEAN
  PROVE  LET i == Access!Invalidated(e, active) IN
         /\ IsQuery(i)
         /\ i.fetch = "answered" => i.missed /\ i.answer = e.answer /\ e.fetch = "answered"
         /\ i.fetch = "idle" => (i = e /\ e.data = {}) \/ (i.stale /\ ~active)
  <1>1. DOMAIN e = {"data", "fetch", "answer", "stale", "failed", "missed"}
    BY DEF IsQuery
  <1>2. CASE e = Access!Unused
    BY <1>2 DEF Access!Invalidated, Access!Unused, IsQuery
  <1>3. CASE e # Access!Unused /\ active /\ (e.data # {} \/ ~Access!Loading(e))
    <2>1. /\ IsQuery([e EXCEPT !.stale = TRUE])
          /\ Access!Invalidated(e, active) = Access!Refetch([e EXCEPT !.stale = TRUE])
      BY <1>1, <1>3 DEF Access!Invalidated, IsQuery
    <2> QED
      BY <2>1, AccessRefetch
  <1>4. CASE e # Access!Unused /\ ~(active /\ (e.data # {} \/ ~Access!Loading(e)))
    <2>1. Access!Invalidated(e, active) = [e EXCEPT !.stale = TRUE, !.missed = Access!Loading(e) \/ @]
      BY <1>4 DEF Access!Invalidated
    <2>2. /\ IsQuery(Access!Invalidated(e, active))
          /\ Access!Invalidated(e, active).fetch = e.fetch /\ Access!Invalidated(e, active).answer = e.answer
          /\ Access!Invalidated(e, active).stale
          /\ Access!Invalidated(e, active).missed <=> Access!Loading(e) \/ e.missed
      BY <1>1, <2>1 DEF IsQuery, Access!Loading
    <2> QED
      BY <1>4, <2>2 DEF Access!Loading
  <1> QED
    BY <1>2, <1>3, <1>4

LEMMA AccessAnswered ==
  ASSUME NEW e, IsQuery(e), NEW v
  PROVE  /\ IsQuery(Access!Answered(e, v)) /\ Access!Answered(e, v).fetch = "answered"
         /\ Access!Answered(e, v).answer = {v}
  <1>1. DOMAIN e = {"data", "fetch", "answer", "stale", "failed", "missed"}
    BY DEF IsQuery
  <1> QED
    BY <1>1 DEF IsQuery, Access!Answered

LEMMA AccessReceived ==
  ASSUME NEW e, IsQuery(e)
  PROVE  /\ IsQuery(Access!Received(e)) /\ Access!Received(e).fetch = "idle"
         /\ Access!Received(e).data = e.answer /\ (Access!Received(e).missed <=> e.missed)
         /\ ~Access!Received(e).stale
  BY DEF IsQuery, Access!Received, Access!Unused

LEMMA AccessFailed ==
  ASSUME NEW e, IsQuery(e)
  PROVE  IsQuery(Access!Failed(e))
  <1>1. DOMAIN e = {"data", "fetch", "answer", "stale", "failed", "missed"}
    BY DEF IsQuery
  <1> QED
    BY <1>1 DEF IsQuery, Access!Failed

LEMMA AccessInit == Access!Init => AccessInv
  <1> SUFFICES ASSUME Access!Init PROVE AccessInv
    OBVIOUS
  <1>1. PICK start \in [Person -> Holdings] :
           accessHeld = [u \in Person |-> [policies |-> start[u], permissions |-> {}]]
    BY DEF Access!Init
  <1>2. accessHeld = [u \in Person |-> [policies |-> accessHeld[u].policies, permissions |-> accessHeld[u].permissions]]
    BY <1>1
  <1>3. IsQuery(Access!Unused) /\ Access!Unused.fetch = "idle" /\ Access!Unused.data = {}
    BY DEF IsQuery, Access!Unused
  <1>4. \A k \in Access!Key : lists[k] = Access!Unused /\ k \notin Access!ObservedFor(access)
    BY DEF Access!Init, Access!ObservedFor
  <1>5. AccessTypes
    BY <1>2, <1>3, <1>4 DEF Access!Init, AccessTypes
  <1> QED
    BY <1>3, <1>4, <1>5 DEF AccessInv, ListTrue, Access!Loading

\* A call that was only sent changes no list.
LEMMA CallsGrow ==
  ASSUME AccessInv, UNCHANGED <<accessHeld, lists, access>>, mutations \subseteq mutations',
         \A r \in mutations' : IsCall(r),
         spent' \in [changes : Nat, others : Nat, faults : Nat], OthersQuiet' => OthersQuiet,
         \A t \in toasts' : \A c \in t.undo : IsUndo(c)
  PROVE  AccessInv'
  <1>1. AccessTypes'
    BY DEF AccessInv, AccessTypes
  <1>2. \A k : (Untold(k) => Untold(k)') /\ Holding(k)' = Holding(k)
    BY DEF Untold, Holding, Access!Invalidates
  <1> QED
    BY <1>1, <1>2 DEF AccessInv, ListTrue

LEMMA MutateCalls ==
  ASSUME AccessTypes, NEW kind \in Access!Hooks, NEW u \in Person, NEW item,
         NEW undo \in SUBSET Access!Hooks, NEW toast, Access!mutate(kind, u, item, undo, toast)
  PROVE  /\ mutations \subseteq mutations' /\ \A r \in mutations' : IsCall(r)
         /\ spent' \in [changes : Nat, others : Nat, faults : Nat]
         /\ OthersQuiet' => OthersQuiet
  <1> DEFINE n == spent.changes + 1
             r == Access!Request(n, kind, u, item, undo, IF toast THEN n ELSE 0)
  <1>1. mutations' = mutations \cup {r} /\ spent' = [spent EXCEPT !["changes"] = @ + 1]
    BY DEF Access!mutate, Access!Use
  <1>2. IsCall(r)
    BY DEF IsCall, Access!Request
  <1> HIDE DEF r
  <1>3. /\ spent' \in [changes : Nat, others : Nat, faults : Nat]
        /\ spent'.others = spent.others /\ spent'.faults = spent.faults
    BY <1>1 DEF AccessTypes
  <1> QED
    BY <1>1, <1>2, <1>3 DEF AccessTypes, OthersQuiet

\* The toasts after an answer offer what they offered, or the Undo of this call.
LEMMA ReportedUndo ==
  ASSUME NEW r, IsCall(r), \A t \in toasts : \A c \in t.undo : IsUndo(c)
  PROVE  \A t \in Access!Reported(r) : \A c \in t.undo : IsUndo(c)
  <1>1. ASSUME NEW k \in r.undo
        PROVE  IsUndo([kind |-> k, user |-> r.user, item |-> r.item])
    BY DEF IsCall, IsUndo
  <1>2. \A t \in Access!AfterCreate(toasts) : t \in toasts
    BY DEF Access!AfterCreate
  <1>3. CASE latest[r.kind] # r.id
    BY <1>3 DEF Access!Reported
  <1>4. CASE latest[r.kind] = r.id /\ r.toast # 0 /\ r.ok
    <2> DEFINE undos == {[kind |-> k, user |-> r.user, item |-> r.item] : k \in r.undo}
    <2>1. \A c \in undos : IsUndo(c)
      BY <1>1
    <2>2. Access!Reported(r) = Access!Updated(toasts, r.toast, undos)
      BY <1>4 DEF Access!Reported
    <2> HIDE DEF undos
    <2>3. ASSUME NEW t \in Access!Updated(toasts, r.toast, undos)
          PROVE  t \in toasts \/ t.undo = undos
      BY DEF Access!Updated, Access!Toast
    <2> QED
      BY <2>1, <2>2, <2>3
  <1>5. CASE latest[r.kind] = r.id /\ r.toast # 0 /\ ~r.ok
    BY <1>5 DEF Access!Reported, Access!AfterCreate, Access!Dismissed
  <1>6. CASE latest[r.kind] = r.id /\ r.toast = 0
    <2> DEFINE offer == IF r.ok THEN r.undo ELSE {}
               offered == {Access!Toast(r.id, "undo", {[kind |-> k, user |-> r.user, item |-> r.item]}) : k \in offer}
    <2>1. Access!Reported(r) = Access!AfterCreate(toasts) \cup offered
      BY <1>6 DEF Access!Reported
    <2>2. offer \subseteq r.undo
      OBVIOUS
    <2> HIDE DEF offer
    <2>3. ASSUME NEW t \in offered, NEW c \in t.undo
          PROVE  IsUndo(c)
      BY <1>1, <2>2, <2>3 DEF Access!Toast
    <2> HIDE DEF offered
    <2> QED
      BY <1>2, <2>1, <2>3
  <1> QED
    BY <1>3, <1>4, <1>5, <1>6

\* Only the lists of the change see it, and they are untold of it.
LEMMA DoesAccess ==
  ASSUME AccessInv, NEW r \in mutations, Access!ServerDoes(r)
  PROVE  AccessInv'
  <1> DEFINE s == [r EXCEPT !.at = "answered", !.ok = Access!Holds(r)]
             h == accessHeld[r.user]
  <1>1. /\ r.at = "sent" /\ mutations' = (mutations \ {r}) \cup {s}
        /\ accessHeld' = IF Access!Holds(r) THEN [accessHeld EXCEPT ![r.user] = Access!After(@, r)] ELSE accessHeld
        /\ UNCHANGED <<lists, access, latest, toasts, spent>>
    BY DEF Access!ServerDoes
  <1>2. AccessTypes /\ IsCall(r)
    BY DEF AccessInv, AccessTypes
  <1>3. Access!Holds(r) \in BOOLEAN
    <2>1. r.kind \in {"assign", "revoke", "revokeAction", "grant", "ungrant"}
      BY <1>2 DEF IsCall, Access!Hooks
    <2>2. CASE r.kind = "revoke"
      <3>1. Access!Holds(r) = (r.item \in accessHeld[r.user].policies)
        BY <2>2 DEF Access!Holds
      <3> QED
        BY <3>1
    <2>3. CASE r.kind = "revokeAction"
      <3>1. Access!Holds(r) = (r.item[1] \in accessHeld[r.user].policies)
        BY <2>3 DEF Access!Holds
      <3> QED
        BY <3>1
    <2>4. CASE r.kind = "ungrant"
      <3>1. Access!Holds(r) = (r.item \in accessHeld[r.user].permissions)
        BY <2>4 DEF Access!Holds
      <3> QED
        BY <3>1
    <2>5. CASE r.kind \in {"assign", "grant"}
      <3>1. Access!Holds(r) = TRUE
        BY <2>5 DEF Access!Holds
      <3> QED
        BY <3>1
    <2> QED
      BY <2>1, <2>2, <2>3, <2>4, <2>5
  <1>4. /\ IsCall(s) /\ s.at = "answered" /\ (s.ok <=> Access!Holds(r))
        /\ s.kind = r.kind /\ s.user = r.user
    <2>1. DOMAIN r = {"id", "kind", "user", "item", "undo", "toast", "at", "ok"}
      BY <1>2 DEF IsCall
    <2> HIDE DEF h
    <2> QED
      BY <1>2, <1>3, <2>1 DEF IsCall
  <1>5. h = [policies |-> h.policies, permissions |-> h.permissions]
    BY <1>2 DEF AccessTypes, IsCall
  <1> HIDE DEF s
  <1>6. \E p, q : /\ Access!After(h, r) = [policies |-> p, permissions |-> q]
                  /\ "policies" \notin Access!Lists(r.kind) => p = h.policies
                  /\ "permissions" \notin Access!Lists(r.kind) => q = h.permissions
    <2> HIDE DEF h
    <2>1. r.kind \in {"assign", "revoke", "revokeAction", "grant", "ungrant"}
      BY <1>2 DEF IsCall, Access!Hooks
    <2>2. CASE r.kind = "assign"
      <3>1. Access!After(h, r) = [policies |-> h.policies \cup {r.item}, permissions |-> h.permissions]
        BY <1>5, <2>2 DEF Access!After
      <3> QED
        BY <2>2, <3>1 DEF Access!Lists
    <2>3. CASE r.kind = "revoke"
      <3>1. Access!After(h, r) = [policies |-> h.policies \ {r.item}, permissions |-> h.permissions]
        BY <1>5, <2>3 DEF Access!After
      <3> QED
        BY <2>3, <3>1 DEF Access!Lists
    <2>4. CASE r.kind = "revokeAction"
      <3>1. Access!After(h, r) = [policies |-> h.policies \ {r.item[1]},
                 permissions |-> h.permissions \cup (Contents[r.item[1]] \ {r.item[2]})]
        BY <1>5, <2>4 DEF Access!After
      <3> QED
        BY <2>4, <3>1 DEF Access!Lists
    <2>5. CASE r.kind = "grant"
      <3>1. Access!After(h, r) = [policies |-> h.policies, permissions |-> h.permissions \cup {r.item}]
        BY <1>5, <2>5 DEF Access!After
      <3> QED
        BY <2>5, <3>1 DEF Access!Lists
    <2>6. CASE r.kind = "ungrant"
      <3>1. Access!After(h, r) = [policies |-> h.policies, permissions |-> h.permissions \ {r.item}]
        BY <1>5, <2>6 DEF Access!After
      <3> QED
        BY <2>6, <3>1 DEF Access!Lists
    <2> QED
      BY <2>1, <2>2, <2>3, <2>4, <2>5, <2>6
  <1>7. /\ accessHeld' = [u \in Person |-> [policies |-> accessHeld'[u].policies, permissions |-> accessHeld'[u].permissions]]
        /\ \A k \in Access!Key : Holding(k)' = Holding(k) \/ (Access!Holds(r) /\ k \in Access!Invalidates(r))
    <2>1. CASE ~Access!Holds(r)
      BY <1>1, <1>2, <2>1 DEF AccessTypes, Holding
    <2>2. CASE Access!Holds(r)
      <3>1. PICK p, q : /\ Access!After(h, r) = [policies |-> p, permissions |-> q]
                        /\ "policies" \notin Access!Lists(r.kind) => p = h.policies
                        /\ "permissions" \notin Access!Lists(r.kind) => q = h.permissions
        BY <1>6
      <3>2. DOMAIN accessHeld = Person /\ r.user \in Person
        BY <1>2 DEF AccessTypes, IsCall
      <3>3. /\ accessHeld'[r.user] = [policies |-> p, permissions |-> q]
            /\ DOMAIN accessHeld' = Person
            /\ accessHeld' = [u \in Person |-> accessHeld'[u]]
            /\ \A u \in Person \ {r.user} : accessHeld'[u] = accessHeld[u]
        BY <1>1, <2>2, <3>1, <3>2
      <3>4. \A u \in Person : accessHeld[u] = [policies |-> accessHeld[u].policies, permissions |-> accessHeld[u].permissions]
        BY <1>2 DEF AccessTypes
      <3>5. \A u \in Person : accessHeld'[u] = [policies |-> accessHeld'[u].policies, permissions |-> accessHeld'[u].permissions]
        BY <3>3, <3>4
      <3>6. accessHeld' = [u \in Person |-> [policies |-> accessHeld'[u].policies, permissions |-> accessHeld'[u].permissions]]
        BY <3>3, <3>5
      <3>7. ASSUME NEW k \in Access!Key, k \notin Access!Invalidates(r)
            PROVE  Holding(k)' = Holding(k)
        <4>1. k[1] \in Person /\ k[2] \in {"policies", "permissions"} /\ k = <<k[1], k[2]>>
          BY DEF Access!Key, Access!List
        <4>2. CASE k[1] # r.user
          BY <3>3, <4>1, <4>2 DEF Holding
        <4>3. CASE k[1] = r.user
          <5>1. k[2] \notin Access!Lists(r.kind)
            BY <3>7, <4>1, <4>3 DEF Access!Invalidates
          <5>2. accessHeld'[k[1]][k[2]] = accessHeld[k[1]][k[2]]
            BY <3>1, <3>3, <4>1, <4>3, <5>1
          <5> QED
            BY <5>2 DEF Holding
        <4> QED
          BY <4>2, <4>3
      <3> QED
        BY <2>2, <3>6, <3>7
    <2> QED
      BY <2>1, <2>2
  <1>8. AccessTypes'
    BY <1>1, <1>2, <1>4, <1>7 DEF AccessTypes
  <1>9. \A k : Untold(k) => Untold(k)'
    BY <1>1 DEF Untold, Access!Invalidates
  <1>10. ASSUME NEW k \in Access!Invalidates(r), Access!Holds(r)
         PROVE  Untold(k)'
    BY <1>1, <1>4, <1>10 DEF Untold, Access!Invalidates
  <1>11. OthersQuiet' => OthersQuiet
    BY <1>1 DEF OthersQuiet
  <1> HIDE DEF h
  <1> QED
    BY <1>1, <1>7, <1>8, <1>9, <1>10, <1>11 DEF AccessInv, ListTrue

\* A success tells the lists of its change.
LEMMA SucceedsAccess ==
  ASSUME AccessInv, NEW r \in mutations, Access!Succeeds(r)
  PROVE  AccessInv'
  <1>1. /\ mutations' = mutations \ {r}
        /\ toasts' = Access!Reported(r) /\ UNCHANGED <<accessHeld, access, latest, spent>>
        /\ DOMAIN lists' = Access!Key
        /\ \A k \in Access!Key \ Access!Invalidates(r) : lists'[k] = lists[k]
        /\ \A k \in Access!Key \cap Access!Invalidates(r) :
              lists'[k] = Access!Invalidated(lists[k], k \in Access!ObservedFor(access))
    BY DEF Access!Succeeds
  <1>2. AccessTypes /\ IsCall(r)
    BY DEF AccessInv, AccessTypes
  <1>3. \A k \in Access!Key : IsQuery(lists[k])
    BY <1>2 DEF AccessTypes
  <1>4. ASSUME NEW k \in Access!Key, k \in Access!Invalidates(r)
        PROVE  /\ IsQuery(lists'[k])
               /\ lists'[k].fetch = "answered" => /\ lists'[k].missed /\ lists'[k].answer = lists[k].answer
                                                  /\ lists[k].fetch = "answered"
               /\ lists'[k].fetch = "idle" =>
                     (lists'[k] = lists[k] /\ lists[k].data = {})
                     \/ (lists'[k].stale /\ k \notin Access!ObservedFor(access))
    <2> DEFINE a == k \in Access!ObservedFor(access)
               e == lists[k]
               f == lists'[k]
    <2>1. a \in BOOLEAN /\ IsQuery(e) /\ f = Access!Invalidated(e, a)
      BY <1>1, <1>3, <1>4
    <2>2. a => k \in Access!ObservedFor(access)
      OBVIOUS
    <2>3. k \in Access!ObservedFor(access) => a
      OBVIOUS
    <2> HIDE DEF a, e, f
    <2>4. /\ IsQuery(f)
          /\ f.fetch = "answered" => f.missed /\ f.answer = e.answer /\ e.fetch = "answered"
          /\ f.fetch = "idle" => (f = e /\ e.data = {}) \/ (f.stale /\ ~a)
      BY <2>1, AccessInvalidated
    <2> QED
      BY <2>3, <2>4 DEF e, f
  <1>5. AccessTypes'
    BY <1>1, <1>2, <1>3, <1>4, ReportedUndo DEF AccessTypes
  <1>6. ASSUME OthersQuiet', NEW k \in Access!Key
        PROVE  ListTrue(k)'
    <2>1. ListTrue(k) /\ Holding(k)' = Holding(k) /\ access' = access
      BY <1>1, <1>6 DEF AccessInv, OthersQuiet, Holding
    <2>2. CASE k \in Access!Invalidates(r)
      BY <1>4, <2>1, <2>2 DEF ListTrue, Access!Loading
    <2>3. CASE k \notin Access!Invalidates(r)
      <3>1. Untold(k) => Untold(k)'
        BY <1>1, <2>3 DEF Untold, Access!Invalidates
      <3> QED
        BY <1>1, <2>1, <2>3, <3>1 DEF ListTrue
    <2> QED
      BY <2>2, <2>3
  <1> QED
    BY <1>5, <1>6 DEF AccessInv

LEMMA AccessNext == AccessInv /\ [Access!Next]_(Access!accessVars) => AccessInv'
  <1> SUFFICES ASSUME AccessInv, [Access!Next]_(Access!accessVars) PROVE AccessInv'
    OBVIOUS
  <1>1. /\ AccessTypes /\ DOMAIN lists = Access!Key /\ \A k \in Access!Key : IsQuery(lists[k])
        /\ \A r \in mutations : IsCall(r)
    BY DEF AccessInv, AccessTypes
  <1>2. ASSUME NEW what \in {"others", "faults"}, Access!Use(what)
        PROVE  ~OthersQuiet' /\ spent' \in [changes : Nat, others : Nat, faults : Nat]
    <2>1. /\ spent' = [spent EXCEPT ![what] = @ + 1] /\ spent \in [changes : Nat, others : Nat, faults : Nat]
      BY <1>1, <1>2 DEF Access!Use, AccessTypes
    <2>2. CASE what = "others"
      BY <2>1, <2>2 DEF OthersQuiet
    <2>3. CASE what = "faults"
      BY <2>1, <2>3 DEF OthersQuiet
    <2> QED
      BY <2>2, <2>3
  <1>3. ASSUME UNCHANGED <<accessHeld, lists, mutations, spent>>, access' = {},
               \A t \in toasts' : \A c \in t.undo : IsUndo(c)
        PROVE  AccessInv'
    BY <1>3 DEF AccessInv, AccessTypes, ListTrue, Untold, Holding, Access!Invalidates, Access!ObservedFor,
       OthersQuiet
  <1>4. ASSUME UNCHANGED <<accessHeld, lists, access, mutations, spent>>, toasts' \subseteq toasts
        PROVE  AccessInv'
    BY <1>4 DEF AccessInv, AccessTypes, ListTrue, Untold, Holding, Access!Invalidates, OthersQuiet
  <1>5. ASSUME NEW u \in Person, Access!OpenAccess(u)
        PROVE  AccessInv'
    <2>1. UNCHANGED <<accessHeld, mutations, toasts, spent>>
      BY <1>5 DEF Access!OpenAccess
    <2>2. PICK again \in SUBSET Access!ObservedFor(access') :
             /\ lists' = [k \in Access!Key |-> IF k \in again THEN Access!Refetch(lists[k]) ELSE lists[k]]
             /\ \A k \in Access!ObservedFor(access') : lists'[k] \in Access!Observed(lists[k])
      BY <1>5 DEF Access!OpenAccess
    <2>3. ASSUME NEW k \in Access!Key
          PROVE  /\ IsQuery(lists'[k])
                 /\ lists'[k] = lists[k] \/ lists'[k].fetch = "sent"
      BY <1>1, <2>2, AccessRefetch
    <2>4. ASSUME NEW k \in Access!Key, k \in Access!ObservedFor(access'), ~Access!Loading(lists'[k])
          PROVE  ~lists'[k].stale /\ lists'[k].data # {} /\ lists'[k] = lists[k]
      <3>1. lists'[k] = lists[k]
        BY <2>3, <2>4 DEF Access!Loading
      <3>2. lists[k] \in Access!Observed(lists[k]) /\ ~Access!Loading(lists[k])
        BY <2>2, <2>4, <3>1
      <3>3. Access!Refetch(lists[k]) # lists[k]
        BY <1>1, <3>2, AccessRefetch DEF Access!Loading
      <3> QED
        BY <3>1, <3>2, <3>3 DEF Access!Observed
    <2>5. AccessTypes'
      BY <1>1, <2>1, <2>2, <2>3 DEF AccessTypes
    <2>6. ASSUME OthersQuiet', NEW k \in Access!Key
          PROVE  ListTrue(k)'
      <3>1. ListTrue(k) /\ Holding(k)' = Holding(k) /\ (Untold(k)' <=> Untold(k))
        BY <2>1, <2>6 DEF AccessInv, OthersQuiet, Holding, Untold, Access!Invalidates
      <3> QED
        BY <2>3, <2>4, <3>1 DEF ListTrue, Access!Loading, Access!ObservedFor
    <2> QED
      BY <2>5, <2>6 DEF AccessInv
  <1>6. ASSUME NEW kind \in Access!Hooks, NEW u \in Person, NEW item, NEW undo \in SUBSET Access!Hooks, NEW toast,
               Access!mutate(kind, u, item, undo, toast), UNCHANGED <<accessHeld, lists, access>>,
               \A t \in toasts' : \A c \in t.undo : IsUndo(c)
        PROVE  AccessInv'
    BY <1>1, <1>6, MutateCalls, CallsGrow
  <1>7. ASSUME NEW u \in Person, NEW p, Access!togglePolicy(u, p)
        PROVE  AccessInv'
    <2> DEFINE kind == IF p \in Access!assignedPolicies(u) THEN "revoke" ELSE "assign"
    <2>1. /\ Access!mutate(kind, u, p, {Access!Opposite(kind)}, FALSE)
          /\ UNCHANGED <<accessHeld, lists, access, toasts>>
      BY <1>7 DEF Access!togglePolicy
    <2>2. kind \in Access!Hooks /\ {Access!Opposite(kind)} \in SUBSET Access!Hooks
      BY DEF Access!Hooks, Access!Opposite
    <2> HIDE DEF kind
    <2> QED
      BY <1>1, <1>6, <2>1, <2>2 DEF AccessTypes
  <1>8. ASSUME NEW u \in Person, NEW g, Access!toggleDirectPermission(u, g)
        PROVE  AccessInv'
    <2> DEFINE kind == IF g \in Access!directGrants(u) THEN "ungrant" ELSE "grant"
    <2>1. /\ Access!mutate(kind, u, g, {Access!Opposite(kind)}, TRUE)
          /\ toasts' = Access!AfterCreate(toasts) \cup {Access!Toast(spent.changes + 1, "loading", {})}
          /\ UNCHANGED <<accessHeld, lists, access>>
      BY <1>8 DEF Access!toggleDirectPermission
    <2>2. kind \in Access!Hooks /\ {Access!Opposite(kind)} \in SUBSET Access!Hooks
      BY DEF Access!Hooks, Access!Opposite
    <2>3. \A t \in toasts' : \A c \in t.undo : IsUndo(c)
      BY <1>1, <2>1 DEF AccessTypes, Access!AfterCreate, Access!Toast
    <2> HIDE DEF kind
    <2> QED
      BY <1>6, <2>1, <2>2, <2>3
  <1>9. ASSUME NEW t \in toasts, Access!Undo(t)
        PROVE  AccessInv'
    <2>1. PICK c \in t.undo :
             /\ Access!mutate(c.kind, c.user, c.item, {}, FALSE)
             /\ toasts' = Access!beginAction(toasts, t.id)
             /\ UNCHANGED <<accessHeld, lists, access>>
      BY <1>9 DEF Access!Undo
    <2>2. c.kind \in Access!Hooks /\ c.user \in Person
      BY <1>1 DEF AccessTypes, IsUndo
    <2>3. \A s \in toasts' : \A d \in s.undo : IsUndo(d)
      BY <1>1, <2>1 DEF AccessTypes, Access!beginAction, Access!Toast
    <2> QED
      BY <1>6, <2>1, <2>2, <2>3
  <1>10. ASSUME NEW u \in Person, NEW p, NEW g, NEW switch \in BOOLEAN,
                Access!requestRevokePolicyAction(u, p, g, switch)
         PROVE  AccessInv'
    <2> DEFINE n == spent.changes + 1
               R(i) == Access!Request(i, "revokeAction", u, <<p, g>>, {}, 0)
    <2>1. /\ mutations' = mutations \cup {R(i) : i \in n .. (IF switch THEN n + 1 ELSE n)}
          /\ spent' = [spent EXCEPT !.changes = IF switch THEN n + 1 ELSE n]
          /\ UNCHANGED <<accessHeld, lists, access, toasts>>
      BY <1>10 DEF Access!requestRevokePolicyAction
    <2>2. \A i : IsCall(R(i))
      BY DEF IsCall, Access!Request, Access!Hooks
    <2>3. spent \in [changes : Nat, others : Nat, faults : Nat] /\ n \in Nat /\ n + 1 \in Nat
      BY <1>1 DEF AccessTypes
    <2> HIDE DEF R, n
    <2>4. /\ spent' \in [changes : Nat, others : Nat, faults : Nat]
          /\ spent'.others = spent.others /\ spent'.faults = spent.faults
      BY <2>1, <2>3
    <2>5. mutations \subseteq mutations' /\ \A r \in mutations' : IsCall(r)
      BY <1>1, <2>1, <2>2
    <2>6. \A t \in toasts' : \A c \in t.undo : IsUndo(c)
      BY <1>1, <2>1 DEF AccessTypes
    <2> QED
      BY <2>1, <2>4, <2>5, <2>6, CallsGrow DEF OthersQuiet
  <1>11. ASSUME NEW r \in mutations, Access!Refused(r)
         PROVE  AccessInv'
    <2>1. /\ mutations' = mutations \ {r} /\ ~r.ok /\ toasts' = Access!Reported(r)
          /\ UNCHANGED <<accessHeld, lists, access, spent>>
      BY <1>11 DEF Access!Refused
    <2>2. AccessTypes'
      BY <1>1, <2>1, ReportedUndo DEF AccessTypes
    <2>3. \A k : (Untold(k) => Untold(k)') /\ Holding(k)' = Holding(k)
      BY <2>1 DEF Untold, Holding, Access!Invalidates
    <2> QED
      BY <2>1, <2>2, <2>3 DEF AccessInv, ListTrue, OthersQuiet
  <1>12. ASSUME NEW r \in mutations, Access!AnswerLost(r)
         PROVE  AccessInv'
    <2>1. /\ Access!Use("faults") /\ mutations' = mutations \ {r}
          /\ toasts' = Access!Reported([r EXCEPT !.ok = FALSE]) /\ UNCHANGED <<accessHeld, lists, access>>
      BY <1>12 DEF Access!AnswerLost
    <2>2. IsCall([r EXCEPT !.ok = FALSE])
      <3>1. IsCall(r)
        BY <1>1
      <3>2. DOMAIN r = {"id", "kind", "user", "item", "undo", "toast", "at", "ok"}
        BY <3>1 DEF IsCall
      <3> QED
        BY <3>1, <3>2 DEF IsCall
    <2>3. \A t \in toasts' : \A c \in t.undo : IsUndo(c)
      BY <1>1, <2>1, <2>2, ReportedUndo DEF AccessTypes
    <2> QED
      BY <1>1, <1>2, <2>1, <2>3 DEF AccessInv, AccessTypes
  <1>13. ASSUME NEW u \in Person, NEW p, Access!OthersAssign(u, p)
         PROVE  AccessInv'
    <2>1. /\ Access!Use("others")
          /\ accessHeld' = [accessHeld EXCEPT ![u].policies = IF p \in @ THEN @ \ {p} ELSE @ \cup {p}]
          /\ UNCHANGED <<lists, access, mutations, toasts>>
      BY <1>13 DEF Access!OthersAssign
    <2>2. accessHeld' = [v \in Person |-> [policies |-> accessHeld'[v].policies, permissions |-> accessHeld'[v].permissions]]
      <3> DEFINE new == IF p \in accessHeld[u].policies THEN accessHeld[u].policies \ {p} ELSE accessHeld[u].policies \cup {p}
      <3>1. /\ accessHeld = [v \in Person |-> [policies |-> accessHeld[v].policies, permissions |-> accessHeld[v].permissions]]
            /\ DOMAIN accessHeld = Person
        BY <1>1 DEF AccessTypes
      <3>2. accessHeld' = [accessHeld EXCEPT ![u] = [accessHeld[u] EXCEPT !.policies = new]]
        BY <2>1, <3>1
      <3> HIDE DEF new
      <3>3. accessHeld[u] = [policies |-> accessHeld[u].policies, permissions |-> accessHeld[u].permissions]
        BY <3>1
      <3>4. /\ accessHeld' = [v \in Person |-> accessHeld'[v]]
            /\ accessHeld'[u] = [policies |-> new, permissions |-> accessHeld[u].permissions]
            /\ \A v \in Person \ {u} : accessHeld'[v] = accessHeld[v]
        BY <3>1, <3>2, <3>3
      <3>5. \A v \in Person : accessHeld[v] = [policies |-> accessHeld[v].policies, permissions |-> accessHeld[v].permissions]
        BY <3>1
      <3>6. \A v \in Person : accessHeld'[v] = [policies |-> accessHeld'[v].policies, permissions |-> accessHeld'[v].permissions]
        BY <3>4, <3>5
      <3> QED
        BY <3>4, <3>6
    <2> QED
      BY <1>1, <1>2, <2>1, <2>2 DEF AccessInv, AccessTypes
  <1>14. ASSUME NEW k \in Access!Key, NEW e, IsQuery(e), lists' = [lists EXCEPT ![k] = e],
                UNCHANGED <<accessHeld, access, mutations, toasts>>,
                \/ UNCHANGED spent /\ (OthersQuiet => ListTrue(k)')
                \/ Access!Use("faults")
         PROVE  AccessInv'
    <2>1. lists'[k] = e /\ DOMAIN lists' = Access!Key /\ \A j \in Access!Key \ {k} : lists'[j] = lists[j]
      BY <1>1, <1>14
    <2>2. spent' \in [changes : Nat, others : Nat, faults : Nat] /\ (OthersQuiet' => OthersQuiet /\ ListTrue(k)')
      BY <1>1, <1>2, <1>14 DEF AccessTypes, OthersQuiet
    <2>3. AccessTypes'
      BY <1>1, <1>14, <2>1, <2>2 DEF AccessTypes
    <2>4. ASSUME NEW j \in Access!Key, j # k, OthersQuiet
          PROVE  ListTrue(j)'
      BY <1>14, <2>1, <2>4 DEF AccessInv, ListTrue, Untold, Holding, Access!Invalidates
    <2> QED
      BY <2>2, <2>3, <2>4 DEF AccessInv
  <1>15. ASSUME NEW k \in Access!Key, Access!ServerReads(k)
         PROVE  AccessInv'
    <2> DEFINE e == Access!Answered(lists[k], accessHeld[k[1]][k[2]])
    <2>1. /\ lists' = [lists EXCEPT ![k] = e] /\ UNCHANGED <<accessHeld, access, mutations, toasts, spent>>
      BY <1>15 DEF Access!ServerReads
    <2>2. IsQuery(e) /\ e.fetch = "answered" /\ e.answer = {Holding(k)}
      BY <1>1, AccessAnswered DEF Holding
    <2> HIDE DEF e
    <2>3. lists'[k] = e /\ Holding(k)' = Holding(k)
      BY <1>1, <2>1 DEF Holding
    <2>4. ListTrue(k)'
      BY <2>2, <2>3 DEF ListTrue, Access!Loading
    <2> QED
      BY <1>14, <2>1, <2>2, <2>4
  <1>16. ASSUME NEW k \in Access!Key, Access!ReceiveRows(k)
         PROVE  AccessInv'
    <2> DEFINE e == Access!Received(lists[k])
    <2>1. /\ lists' = [lists EXCEPT ![k] = e] /\ UNCHANGED <<accessHeld, access, mutations, toasts, spent>>
          /\ lists[k].fetch = "answered"
      BY <1>16 DEF Access!ReceiveRows
    <2>2. /\ IsQuery(e) /\ e.fetch = "idle" /\ e.data = lists[k].answer /\ (e.missed <=> lists[k].missed)
          /\ ~e.stale
      BY <1>1, AccessReceived
    <2> HIDE DEF e
    <2>3. lists'[k] = e /\ Holding(k)' = Holding(k) /\ (Untold(k)' <=> Untold(k))
      BY <1>1, <2>1 DEF Holding, Untold, Access!Invalidates
    <2>4. OthersQuiet => ListTrue(k)'
      BY <2>1, <2>2, <2>3 DEF AccessInv, ListTrue, Access!Loading
    <2> QED
      BY <1>14, <2>1, <2>2, <2>4
  <1>17. ASSUME NEW k \in Access!Key, Access!RowsFail(k)
         PROVE  AccessInv'
    <2>1. /\ Access!Use("faults") /\ lists' = [lists EXCEPT ![k] = Access!Failed(lists[k])]
          /\ UNCHANGED <<accessHeld, access, mutations, toasts>>
      BY <1>17 DEF Access!RowsFail
    <2>2. IsQuery(Access!Failed(lists[k]))
      BY <1>1, AccessFailed
    <2> QED
      BY <1>14, <2>1, <2>2
  <1>18. CASE Access!CloseAccess
    BY <1>1, <1>3, <1>18 DEF Access!CloseAccess, AccessTypes
  <1>19. CASE \/ \E t \in toasts : Access!ToastGone(t)
              \/ UNCHANGED Access!accessVars
    BY <1>4, <1>19 DEF Access!ToastGone, Access!accessVars
  <1>20. CASE \E r \in mutations : Access!ServerDoes(r) \/ Access!Succeeds(r) \/ Access!Refused(r) \/ Access!AnswerLost(r)
    BY <1>11, <1>12, <1>20, DoesAccess, SucceedsAccess
  <1> QED
    BY <1>5, <1>7, <1>8, <1>9, <1>10, <1>13, <1>15, <1>16, <1>17, <1>18, <1>19, <1>20 DEF Access!Next

\* Whatever the caller changes and undoes, one after the other or at once, and in
\* whatever order lists and answers arrive: once nothing is under way the dialog
\* shows what the account holds, but for a list whose request was out when a
\* change was confirmed (useSplitPolicyAction, invalidateQueries).
THEOREM DialogSettles == PagesSpec => []AccessSettles
  <1>1. AccessInv => Access!AccessSettles
    <2> SUFFICES ASSUME AccessInv, NEW k \in Access!Key, Access!Settled(k), ~lists[k].missed
                 PROVE  Access!Data(k[1], k[2]) = accessHeld[k[1]][k[2]]
      BY DEF Access!AccessSettles
    <2>1. /\ ListTrue(k) /\ ~Untold(k) /\ k \in Access!ObservedFor(access) /\ ~Access!Loading(lists[k])
      BY DEF AccessInv, OthersQuiet, Access!Settled, Untold
    <2>2. lists[k].data = {Holding(k)}
      BY <2>1 DEF ListTrue
    <2>3. k = <<k[1], k[2]>>
      BY DEF Access!Key
    <2> QED
      BY <2>2, <2>3 DEF Access!Data, Access!Value, Holding
  <1>2. PagesInit => (mounted = "access" => AccessInv)
    BY AccessInit DEF PagesInit
  <1>3. (mounted = "access" => AccessInv) /\ [PagesNext]_pagesVars => (mounted = "access" => AccessInv)'
    BY AccessSteps, AccessNext
  <1>4. (mounted = "access" => AccessInv) => AccessSettles
    BY <1>1 DEF AccessSettles
  <1> QED
    BY <1>2, <1>3, <1>4, PTL DEF PagesSpec

-----------------------------------------------------------------------------
(* The user management page *)

\* A checked row was checked under the view on screen, in either mode of the selection.
CheckedHere == \A u \in checked : u \in Users!User => chosen[u] = {Users!View}

LEMMA CheckedInit == Users!Init => CheckedHere
  BY DEF Users!Init, CheckedHere

\* A render with another list drops what was checked.
LEMMA RerenderChecked ==
  ASSUME CheckedHere, NEW f, Users!Rerender(f)
  PROVE  CheckedHere'
  <1>1. CASE Users!FilterKey(f) # Users!Key
    BY <1>1 DEF Users!Rerender, Users!ResetSelection, CheckedHere
  <1>2. CASE Users!FilterKey(f) = Users!Key
    <2>1. checked' = checked /\ chosen' = chosen /\ listPage' = listPage /\ filters' = f
      BY <1>2 DEF Users!Rerender, Users!ResetSelection
    <2>2. Users!View' = Users!View
      BY <1>2, <2>1 DEF Users!View, Users!Key
    <2> QED
      BY <2>1, <2>2 DEF CheckedHere
  <1> QED
    BY <1>1, <1>2

\* A row that is newly checked is marked with the view, the others keep their mark.
LEMMA SelectionChecked ==
  ASSUME CheckedHere, NEW sel, Users!handleSelectionChange(sel)
  PROVE  CheckedHere'
  <1>1. /\ checked' = sel /\ UNCHANGED <<filters, listPage>>
        /\ chosen' = [u \in Users!User |-> IF u \in sel \ checked THEN {Users!View} ELSE chosen[u]]
    BY DEF Users!handleSelectionChange
  <1>2. Users!View' = Users!View
    BY <1>1 DEF Users!View, Users!Key
  <1>3. Users!User' = Users!User
    OBVIOUS
  <1> QED
    BY <1>1, <1>2 DEF CheckedHere

LEMMA CheckedNext == CheckedHere /\ [Users!Next]_(Users!vars) => CheckedHere'
  <1> SUFFICES ASSUME CheckedHere, [Users!Next]_(Users!vars) PROVE CheckedHere'
    OBVIOUS
  <1>1. ASSUME UNCHANGED <<filters, listPage, checked, chosen>>
        PROVE  CheckedHere'
    BY <1>1 DEF CheckedHere, Users!View, Users!Key
  <1>2. CASE \/ \E q \in {"", "term"} : Users!Type(q)
             \/ Users!useDebouncedValue
             \/ \E s \in {"all", "active"} : Users!setStatus(s)
             \/ \E p \in {"all", "held"} : Users!setPolicy(p)
             \/ Users!toggleSort \/ Users!clearFilters
             \/ \E s \in {"all", "deleted"} : Users!FilterTile(s)
    BY <1>2, RerenderChecked
       DEF Users!Type, Users!useDebouncedValue, Users!setStatus, Users!setPolicy, Users!toggleSort,
           Users!clearFilters, Users!FilterTile
  <1>3. CASE \E p \in 1 .. Len(Order) : Users!setPage(p)
    BY <1>3 DEF Users!setPage, Users!ResetSelection, CheckedHere
  <1>4. CASE \/ \E v \in DOMAIN listCache : Users!ServerLists(v) \/ Users!ReceiveList(v) \/ Users!ListFails(v)
             \/ \E u \in Users!User, s \in {"active", "deleted", "gone"} : Users!OthersChange(u, s)
             \/ Users!Refocus
    BY <1>1, <1>4 DEF Users!ServerLists, Users!ReceiveList, Users!ListFails, Users!OthersChange, Users!Refocus,
                      Users!offPage, Users!picking
  <1>5. CASE (\E u \in Users!User : Users!toggleRow(u)) \/ Users!toggleAll
    BY <1>5, SelectionChecked DEF Users!toggleRow, Users!toggleAll
  <1>6. CASE Users!clearSelection
    BY <1>6 DEF Users!clearSelection, CheckedHere
  <1>7. CASE \/ Users!handleSelectAllMatching \/ Users!fetchAllMatchingUserEmails \/ Users!SelectAllAnswered
             \/ UNCHANGED Users!vars
    BY <1>1, <1>7 DEF Users!handleSelectAllMatching, Users!fetchAllMatchingUserEmails, Users!SelectAllAnswered,
                      Users!vars, Users!picking
  <1>8. CASE \/ \E r \in Users!Rows, kind \in {"deactivate", "purge", "role"} : Users!Ask(kind, r)
             \/ Users!Cancel \/ Users!Confirm
             \/ \E r \in Users!Rows : Users!handleReactivate(r)
    BY <1>1, <1>8 DEF Users!Ask, Users!Cancel, Users!Confirm, Users!handleReactivate, Users!picking
  <1>9. CASE \/ \E tab \in DOMAIN Users!TabPermission : Users!OpenBulk(tab) \/ Users!activateTab(tab)
             \/ Users!CloseBulk
             \/ \E remove \in BOOLEAN : Users!runPolicy(remove) \/ Users!runPermission(remove)
             \/ Users!runRole
    BY <1>1, <1>9 DEF Users!OpenBulk, Users!activateTab, Users!CloseBulk, Users!runPolicy, Users!runPermission,
                      Users!runRole, Users!RunBulk, Users!picking
  <1>10. CASE \E j \in jobs : \/ Users!ServerChanges(j) \/ Users!NextChunk(j) \/ Users!ChangeSucceeds(j)
                              \/ Users!ChangeRefused(j) \/ Users!ChangeLost(j)
    BY <1>1, <1>10 DEF Users!ServerChanges, Users!NextChunk, Users!ChangeSucceeds, Users!ChangeRefused,
                       Users!ChangeLost, Users!picking
  <1> QED
    BY <1>2, <1>3, <1>4, <1>5, <1>6, <1>7, <1>8, <1>9, <1>10 DEF Users!Next

\* The operations on a query are the ones of the access dialog.
LEMMA SameQueries ==
  ASSUME NEW e
  PROVE  /\ Users!Refetch(e) = Access!Refetch(e) /\ Users!Received(e) = Access!Received(e)
         /\ Users!Failed(e) = Access!Failed(e) /\ Users!Loading(e) = Access!Loading(e)
         /\ \A v : Users!Answered(e, v) = Access!Answered(e, v)
         /\ \A a : Users!Invalidated(e, a) = Access!Invalidated(e, a)
  BY Zenon DEF Users!Refetch, Access!Refetch, Users!Received, Access!Received, Users!Failed, Access!Failed,
     Users!Loading, Access!Loading, Users!Answered, Access!Answered, Users!Invalidated, Access!Invalidated,
     Users!Unused, Access!Unused

\* A query of a list: what it has, and what it was answered, are lists of accounts.
IsListing(x)   == \A r \in x.rows : r.user \in Users!User
IsListQuery(e) == /\ IsQuery(e) /\ (e.fetch = "answered" => e.answer # {})
                  /\ \A x \in e.data \cup e.answer : IsListing(x)

LEMMA ListRefetch ==
  ASSUME NEW e, IsListQuery(e)
  PROVE  IsListQuery(Users!Refetch(e)) /\ Users!Refetch(e).fetch = "sent"
  <1>1. DOMAIN e = {"data", "fetch", "answer", "stale", "failed", "missed"}
    BY DEF IsListQuery, IsQuery
  <1>2. Users!Refetch(e) = [e EXCEPT !.fetch = "sent", !.answer = {}, !.missed = FALSE]
    BY DEF Users!Refetch
  <1>3. Users!Refetch(e).data = e.data /\ Users!Refetch(e).answer = {} /\ Users!Refetch(e).fetch = "sent"
    BY <1>1, <1>2
  <1>4. IsQuery(Users!Refetch(e))
    BY SameQueries, AccessRefetch DEF IsListQuery
  <1> QED
    BY <1>3, <1>4 DEF IsListQuery

LEMMA ListInvalidated ==
  ASSUME NEW e, IsListQuery(e), NEW active \in BOOLEAN
  PROVE  LET i == Users!Invalidated(e, active) IN
         /\ IsListQuery(i)
         /\ i.fetch = "answered" => i.missed
         /\ i.fetch = "idle" => i.data = e.data /\ e.fetch = "idle"
                                /\ (e.data = {} \/ (i.stale /\ ~active))
  <1> DEFINE i == Users!Invalidated(e, active)
  <1>1. DOMAIN e = {"data", "fetch", "answer", "stale", "failed", "missed"}
    BY DEF IsListQuery, IsQuery
  <1>2. /\ IsQuery(i) /\ (i.fetch = "answered" => i.missed /\ i.answer = e.answer /\ e.fetch = "answered")
        /\ i.fetch = "idle" => (i = e /\ e.data = {}) \/ (i.stale /\ ~active)
    <2>1. i = Access!Invalidated(e, active)
      BY SameQueries
    <2> HIDE DEF i
    <2> QED
      BY <2>1, AccessInvalidated DEF IsListQuery
  <1>3. i.data = e.data /\ (i.answer = e.answer \/ i.answer = {}) /\ (i.fetch = e.fetch \/ i.fetch = "sent")
    <2>1. CASE e = Users!Unused
      BY <2>1 DEF Users!Invalidated
    <2>2. CASE e # Users!Unused /\ active /\ (e.data # {} \/ ~Users!Loading(e))
      <3>1. i = Users!Refetch([e EXCEPT !.stale = TRUE])
        BY <2>2 DEF Users!Invalidated
      <3> QED
        BY <1>1, <3>1 DEF Users!Refetch
    <2>3. CASE e # Users!Unused /\ ~(active /\ (e.data # {} \/ ~Users!Loading(e)))
      <3>1. i = [e EXCEPT !.stale = TRUE, !.missed = Users!Loading(e) \/ @]
        BY <2>3 DEF Users!Invalidated
      <3> QED
        BY <1>1, <3>1
    <2> QED
      BY <2>1, <2>2, <2>3
  <1> HIDE DEF i
  <1>4. IsListQuery(i)
    BY <1>2, <1>3 DEF IsListQuery
  <1>5. i.fetch = "idle" => i.data = e.data /\ e.fetch = "idle" /\ (e.data = {} \/ (i.stale /\ ~active))
    BY <1>2, <1>3
  <1> QED
    BY <1>2, <1>4, <1>5 DEF i

\* A change of one account is a request for it, answered or not; a bulk change is
\* never refused as a whole.
IsJob(j) ==
    /\ j = [f \in {"id", "kind", "rest", "at", "asked", "results", "ok", "watched"} |-> j[f]]
    /\ j.ok \in BOOLEAN
    /\ j.kind \in Users!Bulk => j.ok
    /\ j.kind \notin Users!Bulk => \/ j.at = "sent" /\ j.ok /\ \E u : j.rest = <<<<u>>>>
                                   \/ j.at = "answered" /\ j.rest = <<>>

UsersTypes ==
    /\ userCount \in [edits : Nat, changes : Nat, others : Nat, faults : Nat]
    /\ account = [u \in Users!User |->
                    [status |-> account[u].status, role |-> account[u].role, holds |-> account[u].holds]]
    /\ Users!View \in DOMAIN listCache
    /\ \A v \in DOMAIN listCache : "policy" \in DOMAIN v.key /\ IsListQuery(listCache[v])
    /\ \A j \in jobs : IsJob(j)

\* The server has made a change, or a part of it, of which the lists have not been told.
Unheard == \E j \in jobs : /\ j.kind \in Users!ChangesList /\ j.ok
                           /\ j.kind \in Users!Bulk \/ j.at = "answered"

\* What the server has for view v is what the page has for it, or will have.
ViewTrue(v) ==
    LET e == listCache[v] IN
    /\ e.fetch = "idle" => e.data # {}
    /\ e.fetch = "idle" /\ v = Users!View => ~e.stale
    /\ v.key.policy = "all" /\ ~e.missed /\ ~Unheard =>
          /\ e.fetch = "answered" => e.answer = {Users!listUsers(v)}
          /\ e.fetch = "idle" /\ ~e.stale => e.data = {Users!listUsers(v)}

UsersQuiet == userCount.others = 0 /\ userCount.faults = 0

UsersInv == UsersTypes /\ (UsersQuiet => \A v \in DOMAIN listCache : ViewTrue(v))

\* Only the status and the role of the accounts show in a list that is not filtered by policy.
LEMMA SameList ==
  ASSUME NEW v, "policy" \in DOMAIN v.key, v.key.policy = "all",
         \A u \in Users!User : account'[u].status = account[u].status /\ account'[u].role = account[u].role
  PROVE  Users!listUsers(v)' = Users!listUsers(v)
  <1> DEFINE a == Users!Active(v.key)
             hits == Users!Matching(v.key)
  <1>1. a.policy = "all"
    BY DEF Users!Active
  <1>2. \A k : k.policy = "all" => \A u \in Users!User : Users!Match(k, u)' <=> Users!Match(k, u)
    <2> SUFFICES ASSUME NEW k, k.policy = "all", NEW u \in Users!User
                 PROVE  Users!Match(k, u)' <=> Users!Match(k, u)
      OBVIOUS
    <2>1. /\ account'[u].status = account[u].status
          /\ k.policy # "all" => FALSE
      OBVIOUS
    <2>2. Users!Match(k, u) <=> /\ account[u].status # "gone" /\ (k.search # "" => u \in Found)
                                /\ (k.status # "all" => account[u].status = k.status)
      BY <2>1 DEF Users!Match
    <2>3. Users!Match(k, u)' <=> /\ account'[u].status # "gone" /\ (k.search # "" => u \in Found)
                                 /\ (k.status # "all" => account'[u].status = k.status)
      BY <2>1 DEF Users!Match
    <2> QED
      BY <2>1, <2>2, <2>3
  <1>3. hits' = hits
    BY <1>1, <1>2 DEF Users!Matching
  <1>4. hits \subseteq Users!User /\ \A u \in Users!User : Users!Shot(u)' = Users!Shot(u)
    BY DEF Users!Matching, Users!Shot
  <1> QED
    BY <1>3, <1>4 DEF Users!listUsers

LEMMA NewQuery == IsListQuery(Users!Opened) /\ Users!Opened.fetch = "sent"
  BY DEF Users!Opened, Users!Refetch, Users!Unused, IsListQuery, IsQuery, IsListing

LEMMA UsersInit == Users!Init => UsersInv
  <1> SUFFICES ASSUME Users!Init PROVE UsersInv
    OBVIOUS
  <1>1. listCache = [v \in {Users!View} |-> Users!Opened] /\ jobs = {}
    BY DEF Users!Init
  <1>2. account = [u \in Users!User |->
                    [status |-> account[u].status, role |-> account[u].role, holds |-> account[u].holds]]
    BY DEF Users!Init
  <1>3. "policy" \in DOMAIN Users!View.key
    BY DEF Users!View, Users!Key, Users!FilterKey
  <1>4. userCount \in [edits : Nat, changes : Nat, others : Nat, faults : Nat]
    BY DEF Users!Init
  <1>5. Users!View \in DOMAIN listCache /\ \A v \in DOMAIN listCache : v = Users!View /\ listCache[v] = Users!Opened
    BY <1>1
  <1>6. UsersTypes
    BY <1>1, <1>2, <1>3, <1>4, <1>5, NewQuery DEF UsersTypes
  <1> QED
    BY <1>5, <1>6, NewQuery DEF UsersInv, ViewTrue

\* The page comes to show a view: nothing but the query of that view is touched.
LEMMA ShowsView ==
  ASSUME UsersInv, NEW v, "policy" \in DOMAIN v.key, Users!useUsersQuery(v), Users!View' = v,
         UNCHANGED <<account, jobs>>,
         userCount' \in [edits : Nat, changes : Nat, others : Nat, faults : Nat], UsersQuiet' => UsersQuiet
  PROVE  UsersInv'
  <1>1. UsersTypes
    BY DEF UsersInv
  <1>2. /\ DOMAIN listCache' = DOMAIN listCache \cup {v}
        /\ \A w \in DOMAIN listCache \ {v} : listCache'[w] = listCache[w]
        /\ \/ listCache'[v] = Users!Opened
           \/ v \in DOMAIN listCache /\ listCache'[v] \in Users!Observed(listCache[v])
    <2>1. CASE v \notin DOMAIN listCache
      BY <2>1 DEF Users!useUsersQuery
    <2>2. CASE v \in DOMAIN listCache
      <3>1. PICK e \in Users!Observed(listCache[v]) : listCache' = [listCache EXCEPT ![v] = e]
        BY <2>2 DEF Users!useUsersQuery
      <3> QED
        BY <2>2, <3>1
    <2> QED
      BY <2>1, <2>2
  <1>3. /\ IsListQuery(listCache'[v])
        /\ \/ listCache'[v].fetch = "sent"
           \/ /\ v \in DOMAIN listCache /\ listCache'[v] = listCache[v]
              /\ listCache[v].fetch = "idle" => ~listCache[v].stale /\ listCache[v].data # {}
    <2>1. CASE listCache'[v] = Users!Opened
      BY <2>1, NewQuery
    <2>2. CASE v \in DOMAIN listCache /\ listCache'[v] \in Users!Observed(listCache[v])
      <3> DEFINE e == listCache[v]
                 f == listCache'[v]
      <3>1. IsListQuery(e) /\ f \in Users!Observed(e)
        BY <1>1, <2>2 DEF UsersTypes
      <3> HIDE DEF e, f
      <3>2. f = Users!Refetch(e) \/ (f = e /\ (e.fetch = "idle" => ~e.stale /\ e.data # {}))
        BY <3>1 DEF Users!Observed, Users!Loading
      <3>3. IsListQuery(f) /\ (f.fetch = "sent" \/ (f = e /\ (e.fetch = "idle" => ~e.stale /\ e.data # {})))
        BY <3>1, <3>2, ListRefetch
      <3> QED
        BY <2>2, <3>3 DEF e, f
    <2> QED
      BY <1>2, <2>1, <2>2
  <1>4. UsersTypes'
    BY <1>1, <1>2, <1>3 DEF UsersTypes
  <1>5. /\ Unheard' <=> Unheard
        /\ \A w \in DOMAIN listCache : w.key.policy = "all" => Users!listUsers(w)' = Users!listUsers(w)
    BY <1>1, SameList DEF Unheard, UsersTypes
  <1>6. ASSUME UsersQuiet', NEW w \in DOMAIN listCache'
        PROVE  ViewTrue(w)'
    <2>1. CASE w # v
      BY <1>2, <1>5, <1>6, <2>1 DEF UsersInv, ViewTrue
    <2>2. CASE w = v /\ listCache'[v].fetch = "sent"
      BY <2>2 DEF ViewTrue
    <2>3. CASE /\ w = v /\ v \in DOMAIN listCache /\ listCache'[v] = listCache[v]
               /\ listCache[v].fetch = "idle" => ~listCache[v].stale /\ listCache[v].data # {}
      BY <1>5, <1>6, <2>3 DEF UsersInv, ViewTrue
    <2> QED
      BY <1>3, <2>1, <2>2, <2>3
  <1> QED
    BY <1>4, <1>6 DEF UsersInv

\* One query changes, and what the page shows does not.
LEMMA QueryMoves ==
  ASSUME UsersInv, NEW v \in DOMAIN listCache, NEW e, IsListQuery(e), listCache' = [listCache EXCEPT ![v] = e],
         UNCHANGED <<account, filters, listPage, jobs>>,
         userCount' \in [edits : Nat, changes : Nat, others : Nat, faults : Nat],
         UsersQuiet' => UsersQuiet /\ ViewTrue(v)'
  PROVE  UsersInv'
  <1>1. /\ listCache'[v] = e /\ DOMAIN listCache' = DOMAIN listCache
        /\ \A w \in DOMAIN listCache \ {v} : listCache'[w] = listCache[w]
    OBVIOUS
  <1>2. Users!View' = Users!View
    BY DEF Users!View, Users!Key
  <1>3. UsersTypes'
    BY <1>1, <1>2 DEF UsersInv, UsersTypes
  <1>4. /\ Unheard' <=> Unheard
        /\ \A w \in DOMAIN listCache : w.key.policy = "all" => Users!listUsers(w)' = Users!listUsers(w)
    BY SameList DEF Unheard, UsersInv, UsersTypes
  <1>5. ASSUME NEW w \in DOMAIN listCache, w # v, UsersQuiet
        PROVE  ViewTrue(w)'
    BY <1>1, <1>2, <1>4, <1>5 DEF UsersInv, ViewTrue
  <1> QED
    BY <1>1, <1>3, <1>5 DEF UsersInv

\* Requests are added or go on, and the lists need not be told of more than before.
LEMMA JobsMove ==
  ASSUME UsersInv, UNCHANGED <<account, filters, listPage, listCache>>, \A j \in jobs' : IsJob(j),
         userCount' \in [edits : Nat, changes : Nat, others : Nat, faults : Nat],
         UsersQuiet' => UsersQuiet /\ (Unheard => Unheard')
  PROVE  UsersInv'
  <1>1. Users!View' = Users!View
    BY DEF Users!View, Users!Key
  <1>2. UsersTypes'
    BY <1>1 DEF UsersInv, UsersTypes
  <1>3. \A w \in DOMAIN listCache : w.key.policy = "all" => Users!listUsers(w)' = Users!listUsers(w)
    BY SameList DEF UsersInv, UsersTypes
  <1>4. ASSUME NEW w \in DOMAIN listCache, UsersQuiet'
        PROVE  ViewTrue(w)'
    BY <1>1, <1>3, <1>4 DEF UsersInv, ViewTrue
  <1> QED
    BY <1>2, <1>4 DEF UsersInv

\* A request is answered: it has changed nothing, or it is one that the lists are to hear of.
LEMMA ChangesUsers ==
  ASSUME UsersInv, NEW j \in jobs, Users!ServerChanges(j)
  PROVE  UsersInv'
  <1>1. UsersTypes /\ IsJob(j) /\ j.at = "sent"
    BY DEF UsersInv, UsersTypes, Users!ServerChanges
  <1>2. UNCHANGED <<filters, listPage, listCache, userCount>>
    BY DEF Users!ServerChanges
  <1>3. DOMAIN j = {"id", "kind", "rest", "at", "asked", "results", "ok", "watched"}
    BY <1>1 DEF IsJob
  <1>4. CASE j.rest = <<>>
    <2> DEFINE s == [j EXCEPT !.at = "answered"]
    <2>1. account' = account /\ jobs' = (jobs \ {j}) \cup {s}
      BY <1>4 DEF Users!ServerChanges
    <2>2. s.kind = j.kind /\ s.ok = j.ok /\ s.at = "answered" /\ s.rest = j.rest
          /\ s = [f \in {"id", "kind", "rest", "at", "asked", "results", "ok", "watched"} |-> s[f]]
      BY <1>1, <1>3 DEF IsJob
    <2> HIDE DEF s
    <2>3. IsJob(s)
      BY <1>1, <1>4, <2>2 DEF IsJob
    <2>4. Unheard => Unheard'
      BY <2>1, <2>2 DEF Unheard
    <2>5. \A k \in jobs' : IsJob(k)
      BY <1>1, <2>1, <2>3 DEF UsersTypes
    <2> QED
      BY <1>1, <1>2, <2>1, <2>4, <2>5, JobsMove DEF UsersTypes, UsersQuiet
  <1>5. CASE j.rest # <<>>
    <2> DEFINE us == Users!ToSet(Head(j.rest))
               do == {u \in us : Users!Allowed(j.kind, u)}
               ok == j.kind \in Users!Bulk \/ do = us
               s == [j EXCEPT !.at = "answered", !.rest = Tail(@), !.results = @ \o Head(j.rest), !.ok = ok]
               New(u) == IF u \in do THEN Users!Changed(j.kind, account[u]) ELSE account[u]
    <2>1. account' = [u \in Users!User |-> New(u)] /\ jobs' = (jobs \ {j}) \cup {s}
      BY <1>5 DEF Users!ServerChanges
    <2>2. ok \in BOOLEAN
      OBVIOUS
    <2>3. j.kind \notin Users!Bulk => Tail(j.rest) = <<>> /\ \E u : us = {u}
      <3> SUFFICES ASSUME j.kind \notin Users!Bulk PROVE Tail(j.rest) = <<>> /\ \E u : us = {u}
        OBVIOUS
      <3>1. PICK u : j.rest = <<<<u>>>>
        BY <1>1 DEF IsJob
      <3>2. Head(j.rest) = <<u>> /\ Tail(j.rest) = <<>>
        BY <3>1
      <3>3. Users!ToSet(<<u>>) = {u}
        BY DEF Users!ToSet
      <3> QED
        BY <3>2, <3>3
    <2>4. j.kind \notin Users!Bulk /\ ~ok => do = {}
      BY <2>3
    <2> HIDE DEF ok, us
    <2>5. /\ s.kind = j.kind /\ s.ok = ok /\ s.at = "answered" /\ s.rest = Tail(j.rest)
          /\ s = [f \in {"id", "kind", "rest", "at", "asked", "results", "ok", "watched"} |-> s[f]]
      BY <1>1, <1>3 DEF IsJob
    <2> HIDE DEF s
    <2>6. IsJob(s)
      BY <2>2, <2>3, <2>5 DEF IsJob, ok
    <2>7. \A u \in Users!User : account[u] = [status |-> account[u].status, role |-> account[u].role,
                                              holds |-> account[u].holds]
      BY <1>1 DEF UsersTypes
    <2>8. ASSUME NEW u \in Users!User
          PROVE  /\ New(u) = [status |-> New(u).status, role |-> New(u).role, holds |-> New(u).holds]
                 /\ j.kind \notin Users!ChangesList =>
                        New(u).status = account[u].status /\ New(u).role = account[u].role
      <3> DEFINE a == account[u]
                 c == Users!Changed(j.kind, a)
      <3>1. a = [status |-> a.status, role |-> a.role, holds |-> a.holds]
        BY <2>7
      <3> HIDE DEF a
      <3>2. /\ c = [status |-> c.status, role |-> c.role, holds |-> c.holds]
            /\ j.kind \notin Users!ChangesList => c.status = a.status /\ c.role = a.role
        <4>1. CASE j.kind = "deactivate"
          BY <3>1, <4>1 DEF Users!Changed, Users!ChangesList
        <4>2. CASE j.kind = "purge"
          BY <3>1, <4>2 DEF Users!Changed, Users!ChangesList
        <4>3. CASE j.kind = "reactivate"
          BY <3>1, <4>3 DEF Users!Changed, Users!ChangesList
        <4>4. CASE j.kind \in {"role", "bulkRole"}
          BY <3>1, <4>4 DEF Users!Changed, Users!ChangesList
        <4>5. CASE j.kind \in {"assign", "remove"}
          <5>1. c = [a EXCEPT !.holds = (j.kind = "assign")]
            BY <4>5 DEF Users!Changed
          <5> QED
            BY <3>1, <5>1
        <4>6. CASE j.kind \notin {"deactivate", "purge", "reactivate", "role", "bulkRole", "assign", "remove"}
          BY <3>1, <4>6 DEF Users!Changed
        <4> QED
          BY <4>1, <4>2, <4>3, <4>4, <4>5, <4>6
      <3> HIDE DEF c
      <3>3. New(u) = IF u \in do THEN c ELSE a
        BY DEF a, c
      <3> HIDE DEF New
      <3> QED
        BY <3>1, <3>2, <3>3 DEF a
    <2> HIDE DEF do
    <2>9. Users!View' = Users!View
      BY <1>2 DEF Users!View, Users!Key
    <2>10. \A u \in Users!User : account'[u] = New(u)
      BY <2>1
    <2>11. account' = [u \in Users!User |->
                    [status |-> account'[u].status, role |-> account'[u].role, holds |-> account'[u].holds]]
      BY <2>1, <2>8, <2>10
    <2>12. UsersTypes'
      BY <1>1, <1>2, <2>1, <2>6, <2>9, <2>11 DEF UsersTypes
    <2>13. Unheard => Unheard'
      BY <1>1, <2>1, <2>5 DEF Unheard, ok
    <2>14. Unheard' \/ \A u \in Users!User : account'[u].status = account[u].status
                                             /\ account'[u].role = account[u].role
      <3>1. CASE j.kind \notin Users!ChangesList
        BY <2>8, <2>10, <3>1
      <3>2. CASE ok /\ j.kind \in Users!ChangesList
        BY <2>1, <2>5, <3>2 DEF Unheard
      <3>3. CASE j.kind \notin Users!Bulk /\ ~ok
        BY <2>4, <2>10, <3>3
      <3> QED
        BY <3>1, <3>2, <3>3 DEF ok
    <2>15. ASSUME UsersQuiet, NEW w \in DOMAIN listCache
           PROVE  ViewTrue(w)'
      <3>1. ViewTrue(w) /\ "policy" \in DOMAIN w.key
        BY <1>1, <2>15 DEF UsersInv, UsersTypes
      <3>2. CASE Unheard'
        BY <1>2, <2>9, <3>1, <3>2 DEF ViewTrue
      <3>3. CASE ~Unheard' /\ w.key.policy = "all"
        <4>1. Users!listUsers(w)' = Users!listUsers(w)
          BY <2>14, <3>1, <3>3, SameList
        <4> QED
          BY <1>2, <2>9, <2>13, <3>1, <3>3, <4>1 DEF ViewTrue
      <3>4. CASE w.key.policy # "all"
        BY <1>2, <2>9, <3>1, <3>4 DEF ViewTrue
      <3> QED
        BY <3>2, <3>3, <3>4
    <2> QED
      BY <1>2, <2>12, <2>15 DEF UsersInv, UsersQuiet
  <1> QED
    BY <1>4, <1>5

\* A success tells every list, and fetches the one on screen again.
LEMMA SucceedsUsers ==
  ASSUME UsersInv, NEW j \in jobs, Users!ChangeSucceeds(j)
  PROVE  UsersInv'
  <1>1. UsersTypes /\ UNCHANGED <<account, filters, listPage, userCount>> /\ jobs' = jobs \ {j}
    BY DEF UsersInv, Users!ChangeSucceeds
  <1>2. CASE j.kind \notin Users!ChangesList
    <2>1. listCache' = listCache
      BY <1>2 DEF Users!ChangeSucceeds
    <2>2. Unheard => Unheard'
      BY <1>1, <1>2 DEF Unheard
    <2> QED
      BY <1>1, <2>1, <2>2, JobsMove DEF UsersTypes, UsersQuiet
  <1>3. CASE j.kind \in Users!ChangesList
    <2>1. listCache' = [v \in DOMAIN listCache |-> Users!Invalidated(listCache[v], v = Users!View)]
      BY <1>3 DEF Users!ChangeSucceeds, Users!invalidateUsers
    <2>2. Users!View' = Users!View
      BY <1>1 DEF Users!View, Users!Key
    <2>3. ASSUME NEW v \in DOMAIN listCache
          PROVE  /\ IsListQuery(listCache'[v])
                 /\ listCache'[v].fetch = "answered" => listCache'[v].missed
                 /\ listCache'[v].fetch = "idle" =>
                        /\ listCache'[v].data = listCache[v].data /\ listCache[v].fetch = "idle"
                        /\ listCache[v].data = {} \/ (listCache'[v].stale /\ v # Users!View)
      <3> DEFINE a == v = Users!View
                 e == listCache[v]
                 f == listCache'[v]
      <3>1. a \in BOOLEAN /\ IsListQuery(e) /\ f = Users!Invalidated(e, a)
        BY <1>1, <2>1 DEF UsersTypes
      <3>2. v = Users!View => a
        OBVIOUS
      <3> HIDE DEF a, e, f
      <3>3. /\ IsListQuery(f)
            /\ f.fetch = "answered" => f.missed
            /\ f.fetch = "idle" => f.data = e.data /\ e.fetch = "idle" /\ (e.data = {} \/ (f.stale /\ ~a))
        BY <3>1, ListInvalidated
      <3> QED
        BY <3>2, <3>3 DEF e, f
    <2>4. UsersTypes'
      BY <1>1, <2>1, <2>2, <2>3 DEF UsersTypes
    <2>5. ASSUME UsersQuiet, NEW v \in DOMAIN listCache
          PROVE  ViewTrue(v)'
      <3>1. listCache[v].fetch = "idle" => listCache[v].data # {}
        BY <2>5 DEF UsersInv, ViewTrue
      <3> QED
        BY <2>2, <2>3, <3>1 DEF ViewTrue
    <2> QED
      BY <1>1, <2>1, <2>4, <2>5 DEF UsersInv, UsersQuiet
  <1> QED
    BY <1>2, <1>3

\* A confirmed change is sent.
LEMMA StartUsers ==
  ASSUME UsersInv, UNCHANGED <<account, filters, listPage, listCache>>, NEW kind, NEW chunks,
         Users!Start(kind, chunks), kind \in Users!Bulk \/ \E u : chunks = <<<<u>>>>
  PROVE  UsersInv'
  <1> DEFINE j == Users!Job(kind, chunks)
  <1>1. jobs' = jobs \cup {j} /\ userCount' = [userCount EXCEPT !["changes"] = @ + 1]
    BY DEF Users!Start, Users!Spend
  <1>2. IsJob(j)
    BY DEF Users!Job, IsJob
  <1> HIDE DEF j
  <1>3. userCount \in [edits : Nat, changes : Nat, others : Nat, faults : Nat] /\ \A k \in jobs : IsJob(k)
    BY DEF UsersInv, UsersTypes
  <1>4. /\ userCount' \in [edits : Nat, changes : Nat, others : Nat, faults : Nat]
        /\ userCount'.others = userCount.others /\ userCount'.faults = userCount.faults
    BY <1>1, <1>3
  <1>5. Unheard => Unheard'
    BY <1>1 DEF Unheard
  <1> QED
    BY <1>1, <1>2, <1>3, <1>4, <1>5, JobsMove DEF UsersQuiet

\* A render with another list shows it, and any other render shows the same.
LEMMA RerenderUsers ==
  ASSUME UsersInv, NEW f, Users!Rerender(f),
         userCount' \in [edits : Nat, changes : Nat, others : Nat, faults : Nat], UsersQuiet' => UsersQuiet
  PROVE  UsersInv'
  <1>1. filters' = f /\ UNCHANGED <<account, jobs>>
    BY DEF Users!Rerender
  <1>2. CASE Users!FilterKey(f) # Users!Key
    <2> DEFINE v == [key |-> Users!FilterKey(f), page |-> 1]
    <2>1. Users!useUsersQuery(v) /\ listPage' = 1
      BY <1>2 DEF Users!Rerender
    <2>2. "policy" \in DOMAIN v.key
      BY DEF Users!FilterKey
    <2>3. Users!View' = v
      BY <1>1, <2>1 DEF Users!View, Users!Key
    <2> HIDE DEF v
    <2> QED
      BY <1>1, <2>1, <2>2, <2>3, ShowsView
  <1>3. CASE Users!FilterKey(f) = Users!Key
    <2>1. UNCHANGED <<listPage, listCache>>
      BY <1>3 DEF Users!Rerender
    <2>2. Users!View' = Users!View
      BY <1>1, <1>3, <2>1 DEF Users!View, Users!Key
    <2>3. UsersTypes'
      BY <1>1, <2>1, <2>2 DEF UsersInv, UsersTypes
    <2>4. /\ Unheard' <=> Unheard
          /\ \A w \in DOMAIN listCache : w.key.policy = "all" => Users!listUsers(w)' = Users!listUsers(w)
      BY <1>1, SameList DEF Unheard, UsersInv, UsersTypes
    <2>5. ASSUME UsersQuiet', NEW w \in DOMAIN listCache
          PROVE  ViewTrue(w)'
      BY <2>1, <2>2, <2>4, <2>5 DEF UsersInv, ViewTrue
    <2> QED
      BY <2>1, <2>3, <2>5 DEF UsersInv
  <1> QED
    BY <1>2, <1>3

LEMMA ListsAccounts ==
  ASSUME NEW v
  PROVE  IsListing(Users!listUsers(v))
  <1>1. \A u \in Users!User : Users!Shot(u).user = u
    BY DEF Users!Shot
  <1>2. Users!Matching(v.key) \subseteq Users!User
    BY DEF Users!Matching
  <1> DEFINE hits == Users!Matching(v.key)
  <1>3. \A r \in Users!listUsers(v).rows : \E u \in hits : r = Users!Shot(u)
    BY DEF Users!listUsers
  <1> QED
    BY <1>1, <1>2, <1>3 DEF IsListing

LEMMA UsersSpend ==
  ASSUME UsersTypes, NEW what \in {"edits", "changes", "others", "faults"}, Users!Spend(what)
  PROVE  /\ userCount' \in [edits : Nat, changes : Nat, others : Nat, faults : Nat]
         /\ UsersQuiet' => UsersQuiet /\ what \in {"edits", "changes"}
  <1>1. /\ userCount' = [userCount EXCEPT ![what] = @ + 1]
        /\ userCount \in [edits : Nat, changes : Nat, others : Nat, faults : Nat]
    BY DEF Users!Spend, UsersTypes
  <1>2. CASE what = "edits"
    BY <1>1, <1>2 DEF UsersQuiet
  <1>3. CASE what = "changes"
    BY <1>1, <1>3 DEF UsersQuiet
  <1>4. CASE what = "others"
    BY <1>1, <1>4 DEF UsersQuiet
  <1>5. CASE what = "faults"
    BY <1>1, <1>5 DEF UsersQuiet
  <1> QED
    BY <1>2, <1>3, <1>4, <1>5

LEMMA UsersNext == UsersInv /\ [Users!Next]_(Users!vars) => UsersInv'
  <1> SUFFICES ASSUME UsersInv, [Users!Next]_(Users!vars) PROVE UsersInv'
    OBVIOUS
  <1>1. UsersTypes /\ userCount \in [edits : Nat, changes : Nat, others : Nat, faults : Nat]
    BY DEF UsersInv, UsersTypes
  <1>2. ASSUME UNCHANGED <<account, filters, listPage, listCache, jobs, userCount>>
        PROVE  UsersInv'
    BY <1>1, <1>2, JobsMove DEF UsersTypes, UsersQuiet, Unheard
  <1>3. CASE \/ \E q \in {"", "term"} : Users!Type(q)
             \/ \E s \in {"all", "active"} : Users!setStatus(s)
             \/ \E p \in {"all", "held"} : Users!setPolicy(p)
             \/ Users!toggleSort \/ Users!clearFilters
             \/ \E s \in {"all", "deleted"} : Users!FilterTile(s)
    <2>1. PICK f : Users!Spend("edits") /\ Users!Rerender(f)
      BY <1>3 DEF Users!Type, Users!setStatus, Users!setPolicy, Users!toggleSort, Users!clearFilters,
                  Users!FilterTile
    <2> QED
      BY <1>1, <2>1, UsersSpend, RerenderUsers
  <1>4. CASE Users!useDebouncedValue
    <2>1. PICK f : userCount' = userCount /\ Users!Rerender(f)
      BY <1>4 DEF Users!useDebouncedValue
    <2> QED
      BY <1>1, <2>1, RerenderUsers DEF UsersQuiet
  <1>5. ASSUME NEW p \in 1 .. Len(Order), Users!setPage(p)
        PROVE  UsersInv'
    <2> DEFINE v == [Users!View EXCEPT !.page = p]
    <2>1. /\ Users!Spend("edits") /\ listPage' = p /\ Users!useUsersQuery(v)
          /\ UNCHANGED <<account, filters, jobs>>
      BY <1>5 DEF Users!setPage
    <2>2. v = [key |-> Users!Key, page |-> p] /\ "policy" \in DOMAIN v.key
      BY DEF Users!View, Users!Key, Users!FilterKey
    <2>3. Users!View' = v
      BY <2>1, <2>2 DEF Users!View, Users!Key
    <2> HIDE DEF v
    <2> QED
      BY <1>1, <2>1, <2>2, <2>3, UsersSpend, ShowsView
  <1>6. ASSUME NEW v \in DOMAIN listCache, Users!ServerLists(v)
        PROVE  UsersInv'
    <2> DEFINE e == Users!Answered(listCache[v], Users!listUsers(v))
    <2>1. /\ listCache' = [listCache EXCEPT ![v] = e]
          /\ UNCHANGED <<account, filters, listPage, jobs, userCount>>
      BY <1>6 DEF Users!ServerLists, Users!offPage
    <2>2. IsListQuery(listCache[v])
      BY <1>1 DEF UsersTypes
    <2>3. e = [listCache[v] EXCEPT !.fetch = "answered", !.answer = {Users!listUsers(v)}]
      BY DEF Users!Answered
    <2>4. DOMAIN listCache[v] = {"data", "fetch", "answer", "stale", "failed", "missed"}
      BY <2>2 DEF IsListQuery, IsQuery
    <2>5. e.fetch = "answered" /\ e.answer = {Users!listUsers(v)} /\ e.data = listCache[v].data
      BY <2>3, <2>4
    <2>6. IsQuery(e)
      <3> DEFINE q == listCache[v]
                 a == Users!listUsers(v)
      <3>1. IsQuery(q)
        BY <2>2 DEF IsListQuery
      <3>2. e = Access!Answered(q, a)
        BY SameQueries
      <3> HIDE DEF q, a, e
      <3> QED
        BY <3>1, <3>2, AccessAnswered
    <2>7. IsListQuery(e)
      BY <2>2, <2>5, <2>6, ListsAccounts DEF IsListQuery
    <2> HIDE DEF e
    <2>8. listCache'[v] = e
      BY <2>1
    <2>9. v.key.policy = "all" => Users!listUsers(v)' = Users!listUsers(v)
      BY <1>1, <2>1, SameList DEF UsersTypes
    <2>10. ViewTrue(v)'
      BY <2>5, <2>8, <2>9 DEF ViewTrue
    <2> QED
      BY <1>1, <2>1, <2>7, <2>10, QueryMoves DEF UsersQuiet
  <1>7. ASSUME NEW v \in DOMAIN listCache, Users!ReceiveList(v)
        PROVE  UsersInv'
    <2> DEFINE e == Users!Received(listCache[v])
    <2>1. /\ listCache' = [listCache EXCEPT ![v] = e] /\ listCache[v].fetch = "answered"
          /\ UNCHANGED <<account, filters, listPage, jobs, userCount>>
      BY <1>7 DEF Users!ReceiveList, Users!offPage
    <2>2. IsListQuery(listCache[v])
      BY <1>1 DEF UsersTypes
    <2>3. /\ IsQuery(e) /\ e.fetch = "idle" /\ ~e.stale /\ e.data = listCache[v].answer
          /\ e.missed <=> listCache[v].missed
      BY <2>2, SameQueries, AccessReceived DEF IsListQuery
    <2>4. e.answer = {}
      BY DEF Users!Received, Users!Unused
    <2>5. IsListQuery(e)
      BY <2>2, <2>3, <2>4 DEF IsListQuery
    <2> HIDE DEF e
    <2>6. listCache'[v] = e
      BY <2>1
    <2>7. /\ v.key.policy = "all" => Users!listUsers(v)' = Users!listUsers(v)
          /\ Unheard' <=> Unheard
      BY <1>1, <2>1, SameList DEF UsersTypes, Unheard
    <2>8. UsersQuiet => ViewTrue(v)
      BY DEF UsersInv
    <2>9. UsersQuiet => ViewTrue(v)'
      BY <2>1, <2>2, <2>3, <2>6, <2>7, <2>8 DEF ViewTrue, IsListQuery
    <2> QED
      BY <1>1, <2>1, <2>5, <2>9, QueryMoves DEF UsersQuiet
  <1>8. ASSUME NEW v \in DOMAIN listCache, Users!ListFails(v)
        PROVE  UsersInv'
    <2> DEFINE e == Users!Failed(listCache[v])
    <2>1. /\ listCache' = [listCache EXCEPT ![v] = e] /\ Users!Spend("faults")
          /\ UNCHANGED <<account, filters, listPage, jobs>>
      BY <1>8 DEF Users!ListFails, Users!offPage
    <2>2. IsListQuery(listCache[v])
      BY <1>1 DEF UsersTypes
    <2>3. DOMAIN listCache[v] = {"data", "fetch", "answer", "stale", "failed", "missed"}
      BY <2>2 DEF IsListQuery, IsQuery
    <2>4. e.fetch = "idle" /\ e.answer = {} /\ e.data = listCache[v].data
      BY <2>3 DEF Users!Failed
    <2>5. IsListQuery(e)
      BY <2>2, <2>4, SameQueries, AccessFailed DEF IsListQuery
    <2> HIDE DEF e
    <2> QED
      BY <1>1, <2>1, <2>5, UsersSpend, QueryMoves
  <1>9. CASE Users!Refocus
    <2> DEFINE v == Users!View
               e == Users!Refetch(listCache[v])
    <2>1. /\ listCache' = [listCache EXCEPT ![v] = e]
          /\ UNCHANGED <<account, filters, listPage, jobs, userCount>>
      BY <1>9 DEF Users!Refocus, Users!offPage
    <2>2. v \in DOMAIN listCache /\ IsListQuery(e) /\ e.fetch = "sent"
      BY <1>1, ListRefetch DEF UsersTypes
    <2>3. v' = v
      BY <2>1 DEF Users!View, Users!Key
    <2> HIDE DEF v, e
    <2>4. ASSUME NEW w \in DOMAIN listCache, listCache' = [listCache EXCEPT ![w] = e]
          PROVE  ViewTrue(w)'
      BY <2>2, <2>4 DEF ViewTrue
    <2> QED
      BY <1>1, <2>1, <2>2, <2>4, QueryMoves DEF UsersQuiet
  <1>10. ASSUME NEW u \in Users!User, NEW s, Users!OthersChange(u, s)
         PROVE  UsersInv'
    <2>1. /\ Users!Spend("others") /\ account' = [account EXCEPT ![u].status = s]
          /\ UNCHANGED <<filters, listPage, listCache, jobs>>
      BY <1>10 DEF Users!OthersChange
    <2>2. account' = [w \in Users!User |-> [status |-> account'[w].status, role |-> account'[w].role,
                                            holds |-> account'[w].holds]]
      <3>1. account = [w \in Users!User |-> [status |-> account[w].status, role |-> account[w].role,
                                             holds |-> account[w].holds]]
        BY <1>1 DEF UsersTypes
      <3>2. account' = [account EXCEPT ![u] = [account[u] EXCEPT !.status = s]]
        BY <2>1, <3>1
      <3>3. [account[u] EXCEPT !.status = s] = [status |-> s, role |-> account[u].role, holds |-> account[u].holds]
        BY <3>1
      <3> QED
        BY <3>1, <3>2, <3>3
    <2>3. Users!View' = Users!View
      BY <2>1 DEF Users!View, Users!Key
    <2>4. ~UsersQuiet' /\ userCount' \in [edits : Nat, changes : Nat, others : Nat, faults : Nat]
      BY <1>1, <2>1, UsersSpend
    <2>5. UsersTypes'
      BY <1>1, <2>1, <2>2, <2>3, <2>4 DEF UsersTypes
    <2> QED
      BY <2>4, <2>5 DEF UsersInv
  <1>11. CASE \/ \E u \in Users!User : Users!toggleRow(u)
              \/ Users!toggleAll \/ Users!clearSelection
              \/ Users!handleSelectAllMatching \/ Users!fetchAllMatchingUserEmails \/ Users!SelectAllAnswered
              \/ \E r \in Users!Rows, kind \in {"deactivate", "purge", "role"} : Users!Ask(kind, r)
              \/ Users!Cancel
              \/ \E tab \in DOMAIN Users!TabPermission : Users!OpenBulk(tab) \/ Users!activateTab(tab)
              \/ UNCHANGED Users!vars
    BY <1>2, <1>11
       DEF Users!toggleRow, Users!toggleAll, Users!handleSelectionChange, Users!clearSelection,
           Users!handleSelectAllMatching, Users!fetchAllMatchingUserEmails, Users!SelectAllAnswered, Users!Ask,
           Users!Cancel, Users!OpenBulk, Users!activateTab, Users!vars, Users!picking
  <1>12. CASE Users!Confirm \/ \E r \in Users!Rows : Users!handleReactivate(r)
    <2>1. PICK kind, u : /\ Users!Start(kind, <<<<u>>>>)
                         /\ UNCHANGED <<account, filters, listPage, listCache>>
      BY <1>12 DEF Users!Confirm, Users!handleReactivate
    <2> QED
      BY <2>1, StartUsers
  <1>13. CASE \/ \E remove \in BOOLEAN : Users!runPolicy(remove) \/ Users!runPermission(remove)
              \/ Users!runRole
    <2>1. PICK kind \in {"assign", "remove", "grant", "revoke", "bulkRole"} : Users!RunBulk(kind)
      BY <1>13 DEF Users!runPolicy, Users!runPermission, Users!runRole
    <2>2. /\ Users!Start(kind, Users!chunk(Users!selectedUserEmails, ChunkSize)) /\ kind \in Users!Bulk
          /\ UNCHANGED <<account, filters, listPage, listCache>>
      BY <2>1 DEF Users!RunBulk, Users!Bulk
    <2> QED
      BY <2>2, StartUsers
  <1>14. CASE Users!CloseBulk
    <2> DEFINE Left(j) == [j EXCEPT !.watched = @ /\ j.kind \notin Users!Bulk]
    <2>1. jobs' = {Left(j) : j \in jobs} /\ UNCHANGED <<account, filters, listPage, listCache, userCount>>
      BY <1>14 DEF Users!CloseBulk
    <2>2. ASSUME NEW j \in jobs
          PROVE  /\ IsJob(Left(j)) /\ Left(j).kind = j.kind /\ Left(j).ok = j.ok /\ Left(j).at = j.at
      <3>1. IsJob(j)
        BY <1>1 DEF UsersTypes
      <3>2. DOMAIN j = {"id", "kind", "rest", "at", "asked", "results", "ok", "watched"}
        BY <3>1 DEF IsJob
      <3> DEFINE s == Left(j)
      <3>3. /\ s.kind = j.kind /\ s.ok = j.ok /\ s.at = j.at /\ s.rest = j.rest
            /\ s = [f \in {"id", "kind", "rest", "at", "asked", "results", "ok", "watched"} |-> s[f]]
        BY <3>2
      <3> HIDE DEF s
      <3> QED
        BY <3>1, <3>3 DEF IsJob, s
    <2> HIDE DEF Left
    <2>3. Unheard => Unheard'
      BY <2>1, <2>2 DEF Unheard
    <2> QED
      BY <1>1, <2>1, <2>2, <2>3, JobsMove DEF UsersQuiet
  <1>15. ASSUME NEW j \in jobs, Users!NextChunk(j)
         PROVE  UsersInv'
    <2> DEFINE s == [j EXCEPT !.at = "sent"]
    <2>1. /\ jobs' = (jobs \ {j}) \cup {s} /\ j.at = "answered" /\ j.rest # <<>>
          /\ UNCHANGED <<account, filters, listPage, listCache, userCount>>
      BY <1>15 DEF Users!NextChunk
    <2>2. IsJob(j) /\ \A k \in jobs : IsJob(k)
      BY <1>1 DEF UsersTypes
    <2>3. DOMAIN j = {"id", "kind", "rest", "at", "asked", "results", "ok", "watched"}
      BY <2>2 DEF IsJob
    <2>4. j.kind \in Users!Bulk
      BY <2>1, <2>2 DEF IsJob
    <2>5. /\ s.kind = j.kind /\ s.ok = j.ok
          /\ s = [f \in {"id", "kind", "rest", "at", "asked", "results", "ok", "watched"} |-> s[f]]
      BY <2>3
    <2> HIDE DEF s
    <2>6. IsJob(s)
      BY <2>2, <2>4, <2>5 DEF IsJob
    <2>7. Unheard => Unheard'
      BY <2>1, <2>4, <2>5 DEF Unheard
    <2> QED
      BY <1>1, <2>1, <2>2, <2>6, <2>7, JobsMove DEF UsersQuiet
  <1>16. ASSUME NEW j \in jobs, Users!ChangeRefused(j)
         PROVE  UsersInv'
    <2>1. /\ jobs' = jobs \ {j} /\ ~j.ok
          /\ UNCHANGED <<account, filters, listPage, listCache, userCount>>
      BY <1>16 DEF Users!ChangeRefused
    <2>2. (Unheard => Unheard') /\ \A k \in jobs' : IsJob(k)
      BY <1>1, <2>1 DEF Unheard, UsersTypes
    <2> QED
      BY <1>1, <2>1, <2>2, JobsMove DEF UsersQuiet
  <1>17. ASSUME NEW j \in jobs, Users!ChangeLost(j)
         PROVE  UsersInv'
    <2>1. /\ Users!Spend("faults") /\ jobs' = jobs \ {j}
          /\ UNCHANGED <<account, filters, listPage, listCache>>
      BY <1>17 DEF Users!ChangeLost
    <2>2. \A k \in jobs' : IsJob(k)
      BY <1>1, <2>1 DEF UsersTypes
    <2> QED
      BY <1>1, <2>1, <2>2, UsersSpend, JobsMove
  <1>18. ASSUME NEW j \in jobs, Users!ServerChanges(j) \/ Users!ChangeSucceeds(j)
         PROVE  UsersInv'
    BY <1>18, ChangesUsers, SucceedsUsers
  <1> QED
    BY <1>3, <1>4, <1>5, <1>6, <1>7, <1>8, <1>9, <1>10, <1>11, <1>12, <1>13, <1>14, <1>15, <1>16, <1>17, <1>18
       DEF Users!Next

\* UsersPage.TargetsChosenHere: a bulk change that is not for "all matching" goes
\* to accounts that were checked under the page, the filters and the sort that
\* are on screen, whatever was clicked, typed and answered before.
THEOREM TargetsWereChosen == PagesSpec => []TargetsChosenHere
  <1>1. UsersInv /\ CheckedHere => Users!TargetsChosenHere
    <2> SUFFICES ASSUME UsersInv, CheckedHere, NEW u \in Users!Checked PROVE chosen[u] = {Users!View}
      BY DEF Users!TargetsChosenHere
    <2> DEFINE e == listCache[Users!View]
    <2>1. IsListQuery(e)
      BY DEF UsersInv, UsersTypes
    <2>2. u \in checked /\ \E r \in Users!query.rows : u = r.user
      BY DEF Users!Checked, Users!OnScreen, Users!Rows
    <2>3. \A r \in Users!query.rows : r.user \in Users!User
      <3>1. CASE e.data = {}
        BY <3>1 DEF Users!query
      <3>2. CASE e.data # {}
        <4>1. Users!Value(e) \in e.data
          BY <3>2 DEF Users!Value
        <4>2. Users!query = Users!Value(e)
          BY <3>2 DEF Users!query
        <4> QED
          BY <2>1, <4>1, <4>2 DEF IsListQuery, IsListing
      <3> QED
        BY <3>1, <3>2
    <2> QED
      BY <2>2, <2>3 DEF CheckedHere
  <1>2. PagesInit => (mounted = "users" => UsersInv /\ CheckedHere)
    BY CheckedInit, UsersInit DEF PagesInit
  <1>3. (mounted = "users" => UsersInv /\ CheckedHere) /\ [PagesNext]_pagesVars => (mounted = "users" => UsersInv /\ CheckedHere)'
    BY UsersSteps, CheckedNext, UsersNext
  <1>4. (mounted = "users" => UsersInv /\ CheckedHere) => TargetsChosenHere
    BY <1>1 DEF TargetsChosenHere
  <1> QED
    BY <1>2, <1>3, <1>4, PTL DEF PagesSpec

\* UsersPage.OwnChangesShow: once nothing is under way, the rows on screen are
\* those that the server has, after every order of the caller's own changes,
\* their refusals, the answers of the lists and the views opened meanwhile.
THEOREM ListsFollowChanges == PagesSpec => []OwnChangesShow
  <1>1. UsersInv => Users!OwnChangesShow
    <2> SUFFICES ASSUME UsersInv, Users!Quiet, Users!Policy(filters) = "all", ~listCache[Users!View].missed
                 PROVE  Users!query = Users!listUsers(Users!View)
      BY DEF Users!OwnChangesShow
    <2> DEFINE v == Users!View
               e == listCache[v]
    <2>1. v \in DOMAIN listCache /\ IsQuery(e) /\ ViewTrue(v)
      BY DEF UsersInv, UsersTypes, Users!Quiet, UsersQuiet, IsListQuery
    <2>2. v.key.policy = "all"
      BY DEF Users!View, Users!Key, Users!FilterKey
    <2>3. e.fetch = "idle" /\ ~Unheard
      BY <2>1 DEF Users!Quiet, Users!Loading, Unheard
    <2>4. e.data = {Users!listUsers(v)}
      BY <2>1, <2>2, <2>3 DEF ViewTrue
    <2>5. Users!query = Users!Value(e)
      BY <2>4 DEF Users!query
    <2> QED
      BY <2>4, <2>5 DEF Users!Value
  <1>2. PagesInit => (mounted = "users" => UsersInv)
    BY UsersInit DEF PagesInit
  <1>3. (mounted = "users" => UsersInv) /\ [PagesNext]_pagesVars => (mounted = "users" => UsersInv)'
    BY UsersSteps, UsersNext
  <1>4. (mounted = "users" => UsersInv) => OwnChangesShow
    BY <1>1 DEF OwnChangesShow
  <1> QED
    BY <1>2, <1>3, <1>4, PTL DEF PagesSpec

-----------------------------------------------------------------------------
(* The audit log page *)

\* A position on a page of P rows.
LEMMA PlaceOnPage ==
  ASSUME NEW i \in Nat, NEW P \in Nat \ {0}
  PROVE  LET q == i \div P
             r == i % P
         IN  /\ q \in Nat /\ r \in Nat /\ r < P /\ i = (q * P) + r
             /\ q * P \in Nat /\ (q + 1) * P = (q * P) + P
  <1>1. i % P \in 0 .. P - 1
    OBVIOUS
  <1>2. i = (P * (i \div P)) + (i % P)
    OBVIOUS
  <1>3. i \div P \in Nat
    OBVIOUS
  <1>4. \A q \in Nat : q * P \in Nat
    OBVIOUS
  <1>5. \A q \in Nat : (q + 1) * P = (q * P) + P
    OBVIOUS
  <1>6. \A q \in Nat : q * P = P * q
    OBVIOUS
  <1> DEFINE q == i \div P
             r == i % P
  <1> HIDE DEF q, r
  <1>7. q \in Nat /\ r \in 0 .. P - 1 /\ i = (P * q) + r
    BY <1>1, <1>2, <1>3 DEF q, r
  <1>8. /\ q \in Nat /\ r \in Nat /\ r < P /\ i = (q * P) + r
        /\ q * P \in Nat /\ (q + 1) * P = (q * P) + P
    BY <1>4, <1>5, <1>6, <1>7
  <1> QED
    BY <1>8 DEF q, r

LEMMA LeastOfTwo ==
  ASSUME NEW a \in Nat, NEW b \in Nat
  PROVE  Audit!Min({a, b}) = IF a <= b THEN a ELSE b
  BY DEF Audit!Min

LEMMA ListingLength ==
  ASSUME log \in Nat, NEW k
  PROVE  /\ Len(Audit!Listing(k)) \in Nat
         /\ Audit!Listing(k) \in Seq({Audit!Listing(k)[n] : n \in 1 .. Len(Audit!Listing(k))})
  <1> DEFINE hits == Audit!Hits(k)
             N == Audit!Cardinality(hits)
             s == Audit!Listing(k)
  <1>1. N \in Nat
    <2>1. hits \in SUBSET (1 .. log) /\ IsFiniteSet(1 .. log)
      BY FS_Interval DEF Audit!Hits
    <2>2. IsFiniteSet(hits)
      BY <2>1, FS_Subset
    <2>3. Audit!Cardinality(hits) = Cardinality(hits)
      BY Zenon DEF Audit!Cardinality, Cardinality
    <2> QED
      BY <2>2, <2>3, FS_CardinalityType
  <1>2. s = [n \in 1 .. N |-> s[n]]
    <2>1. s = [n \in 1 .. N |-> Audit!Nth(hits, k.sortDir, n)]
      BY DEF Audit!Listing, Audit!Sorted
    <2> HIDE DEF s, N
    <2> QED
      BY <2>1
  <1> HIDE DEF s, N
  <1>3. s \in [1 .. N -> {s[n] : n \in 1 .. N}]
    BY <1>2
  <1>4. s \in Seq({s[n] : n \in 1 .. N})
    BY <1>1, <1>3, SeqDef
  <1>5. Len(s) = N
    BY <1>1, <1>3, <1>4, LenProperties
  <1> QED
    BY <1>1, <1>4, <1>5 DEF s

\* The row of a page at a position is the entry that the list has there.
LEMMA RowOfPlace ==
  ASSUME NEW s, Len(s) \in Nat, s \in Seq({s[n] : n \in 1 .. Len(s)}), NEW i \in Nat, i < Len(s)
  PROVE  LET p == (i \div LogPageSize) + 1
             rows == SubSeq(s, (p - 1) * LogPageSize + 1, Audit!Min({p * LogPageSize, Len(s)}))
         IN  (i % LogPageSize) + 1 \in DOMAIN rows /\ rows[(i % LogPageSize) + 1] = s[i + 1]
  <1> DEFINE q == i \div LogPageSize
             r == i % LogPageSize
             m == q * LogPageSize
             p == q + 1
             b == Audit!Min({p * LogPageSize, Len(s)})
             rows == SubSeq(s, (p - 1) * LogPageSize + 1, b)
             S == {s[n] : n \in 1 .. Len(s)}
  <1>1. /\ q \in Nat /\ r \in Nat /\ r < LogPageSize /\ i = m + r /\ m \in Nat /\ p * LogPageSize = m + LogPageSize
        /\ LogPageSize \in Nat
    BY PlaceOnPage, LogAssumption
  <1>2. (p - 1) * LogPageSize = m
    BY <1>1
  <1>3. b = IF m + LogPageSize <= Len(s) THEN m + LogPageSize ELSE Len(s)
    BY <1>1, LeastOfTwo
  <1>4. rows = SubSeq(s, m + 1, b)
    BY <1>2
  <1> HIDE DEF m, b, r, p, rows, S
  <1>5. b \in Nat /\ m + r + 1 <= b /\ b <= Len(s)
    BY <1>1, <1>3
  <1>6. \A n \in m + 1 .. b : s[n] \in S
    BY <1>1, <1>5 DEF S
  <1>7. PICK a \in Nat : a = m + 1
    BY <1>1
  <1>8. /\ rows \in Seq(S) /\ Len(rows) = IF a <= b THEN b - a + 1 ELSE 0
        /\ \A n \in 1 .. b - a + 1 : rows[n] = s[a + n - 1]
    <2>1. a \in Int /\ b \in Int /\ rows = SubSeq(s, a, b) /\ \A n \in a .. b : s[n] \in S
      BY <1>4, <1>5, <1>6, <1>7
    <2> QED
      BY <2>1, SubSeqProperties
  <1>9. DOMAIN rows = 1 .. Len(rows)
    BY <1>8, LenProperties
  <1>10. r + 1 \in 1 .. b - a + 1 /\ a + (r + 1) - 1 = i + 1 /\ Len(rows) = b - a + 1
    BY <1>1, <1>5, <1>7, <1>8
  <1>11. r + 1 \in DOMAIN rows /\ rows[r + 1] = s[i + 1]
    BY <1>8, <1>9, <1>10
  <1> QED
    BY <1>11 DEF rows, b, p, r

\* What is written while a list is shown that nothing can join leaves it alone.
LEMMA ListingStays ==
  ASSUME NEW k, Audit!Immutable(k),
         k.time.range # "custom" => k.mount.now \in Nat /\ k.mount.now <= log,
         log \in Nat, Written <= log, log <= Len(Entries),
         log' = log \/ (log < Len(Entries) /\ log' = log + 1)
  PROVE  Audit!Listing(k)' = Audit!Listing(k)
  <1>1. CASE log' = log
    BY <1>1 DEF Audit!Listing, Audit!Hits
  <1>2. CASE log < Len(Entries) /\ log' = log + 1
    <2>1. ~Audit!InRange(log + 1, k.time, k.mount.now)
      <3>1. CASE k.time.range = "custom"
        <4>1. log + 1 \in Written + 1 .. Len(Entries)
          BY <1>2, LogAssumption
        <4>2. ~(Entries[log + 1].day <= k.time.to)
          BY <3>1, <4>1 DEF Audit!Immutable
        <4> QED
          BY <3>1, <4>2 DEF Audit!InRange
      <3>2. CASE k.time.range # "custom"
        BY <3>2 DEF Audit!InRange
      <3> QED
        BY <3>1, <3>2
    <2>2. ~Audit!Matches(k, log + 1)
      BY <2>1 DEF Audit!Matches
    <2>3. 1 .. log' = (1 .. log) \cup {log + 1}
      BY <1>2
    <2>4. Audit!Hits(k)' = Audit!Hits(k)
      BY <2>2, <2>3 DEF Audit!Hits
    <2> QED
      BY <2>4 DEF Audit!Listing
  <1> QED
    BY <1>1, <1>2

\* A page has at most LogPageSize rows, and each is at a position of the list.
LEMMA RowsOfPage ==
  ASSUME NEW s, Len(s) \in Nat, s \in Seq({s[n] : n \in 1 .. Len(s)}), NEW p \in Nat \ {0}
  PROVE  LET rows == SubSeq(s, (p - 1) * LogPageSize + 1, Audit!Min({p * LogPageSize, Len(s)}))
         IN  /\ DOMAIN rows \subseteq 1 .. LogPageSize
             /\ \A r \in DOMAIN rows : ((p - 1) * LogPageSize) + r - 1 < Len(s)
  <1> DEFINE m == (p - 1) * LogPageSize
             b == Audit!Min({p * LogPageSize, Len(s)})
             rows == SubSeq(s, (p - 1) * LogPageSize + 1, b)
             S == {s[n] : n \in 1 .. Len(s)}
  <1>1. LogPageSize \in Nat /\ LogPageSize > 0 /\ p - 1 \in Nat /\ (p - 1) + 1 = p
    BY LogAssumption
  <1>2. (\A q \in Nat : q * LogPageSize \in Nat) /\ (\A q \in Nat : (q + 1) * LogPageSize = (q * LogPageSize) + LogPageSize)
    <2>1. \A q \in Nat : q * LogPageSize \in Nat
      BY <1>1
    <2>2. \A q \in Nat : (q + 1) * LogPageSize = (q * LogPageSize) + LogPageSize
      BY <1>1
    <2> QED
      BY <2>1, <2>2
  <1>3. m \in Nat /\ p * LogPageSize = m + LogPageSize
    <2>1. PICK q \in Nat : q = p - 1 /\ q + 1 = p
      BY <1>1
    <2> QED
      BY <1>2, <2>1
  <1>4. b = IF m + LogPageSize <= Len(s) THEN m + LogPageSize ELSE Len(s)
    BY <1>1, <1>3, LeastOfTwo
  <1>5. rows = SubSeq(s, m + 1, b)
    OBVIOUS
  <1> HIDE DEF m, b, rows, S
  <1>6. b \in Nat /\ b <= Len(s) /\ b <= m + LogPageSize
    BY <1>1, <1>3, <1>4
  <1>7. \A n \in m + 1 .. b : s[n] \in S
    BY <1>3, <1>6 DEF S
  <1>8. PICK a \in Nat : a = m + 1
    BY <1>3
  <1>9. rows \in Seq(S) /\ Len(rows) = IF a <= b THEN b - a + 1 ELSE 0
    <2>1. a \in Int /\ b \in Int /\ rows = SubSeq(s, a, b) /\ \A n \in a .. b : s[n] \in S
      BY <1>5, <1>6, <1>7, <1>8
    <2> QED
      BY <2>1, SubSeqProperties
  <1>10. DOMAIN rows = 1 .. Len(rows)
    BY <1>9, LenProperties
  <1>11. \A r \in DOMAIN rows : r \in 1 .. LogPageSize /\ m + r - 1 < Len(s)
    BY <1>1, <1>3, <1>6, <1>8, <1>9, <1>10
  <1> QED
    BY <1>11 DEF rows, b, m

\* The position of a row is on the row's page.
LEMMA PageOfRow ==
  ASSUME NEW p \in Nat \ {0}, NEW r \in 1 .. LogPageSize, NEW i, i = ((p - 1) * LogPageSize) + r - 1
  PROVE  i \in Nat /\ Audit!openPage(i) = p
  <1>1. LogPageSize \in Nat /\ LogPageSize > 0
    BY LogAssumption
  <1>2. PICK q \in Nat : q = p - 1 /\ p = q + 1
    OBVIOUS
  <1>3. PICK t \in Nat : t = r - 1 /\ t < LogPageSize
    BY <1>1
  <1>4. \A c \in Nat : c * LogPageSize \in Nat
    BY <1>1
  <1>5. i = (q * LogPageSize) + t /\ i \in Nat
    BY <1>2, <1>3, <1>4
  <1>6. PICK d \in Nat, u \in Nat : d = i \div LogPageSize /\ u < LogPageSize /\ i = (d * LogPageSize) + u
    BY <1>5, PlaceOnPage, LogAssumption
  <1>7. \A c, e \in Nat : c < e => (c * LogPageSize) + LogPageSize <= e * LogPageSize
    <2>1. SUFFICES ASSUME NEW c \in Nat, NEW e \in Nat, c < e PROVE (c * LogPageSize) + LogPageSize <= e * LogPageSize
      OBVIOUS
    <2>2. PICK g \in Nat : e = (c + 1) + g
      <3>1. e - (c + 1) \in Nat /\ e = (c + 1) + (e - (c + 1))
        BY <2>1
      <3> QED
        BY <3>1
    <2>3. e * LogPageSize = ((c * LogPageSize) + LogPageSize) + (g * LogPageSize)
      BY <1>1, <2>2
    <2> QED
      BY <1>1, <1>4, <2>3
  <1>8. d = q
    <2>1. CASE d < q
      BY <1>1, <1>3, <1>4, <1>5, <1>6, <1>7, <2>1
    <2>2. CASE q < d
      BY <1>1, <1>3, <1>4, <1>5, <1>6, <1>7, <2>2
    <2> QED
      BY <2>1, <2>2
  <1> QED
    BY <1>2, <1>5, <1>6, <1>8 DEF Audit!openPage

\* What the cache may hold of a view: a page of rows, and of a list that nothing
\* can join the rows it has for good.
Listed(v, d) ==
    /\ DOMAIN d.rows \subseteq 1 .. LogPageSize
    /\ Audit!Immutable(v.key) => d = Audit!listAuditLog(v)
SeenBy(k) == k.time.range # "custom" => k.mount.now \in Nat /\ k.mount.now <= log
HoldsPages(v, e) ==
    /\ v.page \in Nat \ {0} /\ SeenBy(v.key)
    /\ DOMAIN e = {"data", "fetch", "answer", "stale", "failed", "missed"}
    /\ \A d \in e.data : Listed(v, d)

LogTypes ==
    /\ log \in Nat /\ Written <= log /\ log <= Len(Entries)
    /\ mount.now \in Nat /\ mount.now <= log
    /\ DOMAIN debounced = Audit!Typed
    /\ view \in DOMAIN queries /\ view = [key |-> view.key, page |-> view.page]
    /\ view.key = Audit!FiltersNow
    /\ \A v \in DOMAIN queries : HoldsPages(v, queries[v])

\* Under an open drawer the list is its own, or one that a debounce replaced for good.
Replaced(k) == \E f \in Audit!Typed :
    debounced[f] = Audit!Store.set[f] /\ k.set[f] # debounced[f]
OnItsPage(i) == /\ Audit!openPage(i) = view.page
                /\ Audit!Immutable(view.key) => i < Len(Audit!Listing(view.key))
DrawerTrue ==
    /\ (openIndex = {}) = (openEntry = {}) /\ (openIndex = {} => under = {})
    /\ \A i, j \in openIndex : i = j /\ i \in Nat
    /\ under = {view.key} => \A i \in openIndex : OnItsPage(i)
    /\ under # {} => \E k : under = {k} /\ (k = view.key \/ Replaced(k))

LogInv == LogTypes /\ DrawerTrue

LEMMA PageListed ==
  ASSUME log \in Nat, NEW v, v.page \in Nat \ {0}
  PROVE  Listed(v, Audit!listAuditLog(v))
  <1> DEFINE s == Audit!Listing(v.key)
  <1>1. Len(s) \in Nat /\ s \in Seq({s[n] : n \in 1 .. Len(s)})
    BY ListingLength
  <1>2. Audit!listAuditLog(v).rows
          = SubSeq(s, (v.page - 1) * LogPageSize + 1, Audit!Min({v.page * LogPageSize, Len(s)}))
    BY DEF Audit!listAuditLog
  <1> HIDE DEF s
  <1>3. DOMAIN Audit!listAuditLog(v).rows \subseteq 1 .. LogPageSize
    BY <1>1, <1>2, RowsOfPage
  <1> QED
    BY <1>3 DEF Listed

\* A row is an entry of the list.
LEMMA RowOfList ==
  ASSUME log \in Nat, NEW v, v.page \in Nat \ {0}, NEW r \in DOMAIN Audit!listAuditLog(v).rows
  PROVE  ((v.page - 1) * LogPageSize) + r - 1 < Len(Audit!Listing(v.key))
  <1> DEFINE s == Audit!Listing(v.key)
             p == v.page
  <1>1. Len(s) \in Nat /\ s \in Seq({s[n] : n \in 1 .. Len(s)})
    BY ListingLength
  <1>2. Audit!listAuditLog(v).rows = SubSeq(s, (p - 1) * LogPageSize + 1, Audit!Min({p * LogPageSize, Len(s)}))
    BY DEF Audit!listAuditLog
  <1> HIDE DEF s, p
  <1>3. p \in Nat \ {0}
    BY DEF p
  <1>4. r \in DOMAIN SubSeq(s, (p - 1) * LogPageSize + 1, Audit!Min({p * LogPageSize, Len(s)}))
    BY <1>2
  <1>5. ((p - 1) * LogPageSize) + r - 1 < Len(s)
    BY <1>1, <1>3, <1>4, RowsOfPage
  <1> QED
    BY <1>5 DEF s, p

\* What the page does to a query.
LEMMA QueryHolds ==
  ASSUME log \in Nat, NEW v, NEW e, HoldsPages(v, e)
  PROVE  /\ HoldsPages(v, Audit!Refetch(e)) /\ HoldsPages(v, Audit!Failed(e))
         /\ \A x \in Audit!Observed(e) : HoldsPages(v, x)
         /\ HoldsPages(v, Audit!Received(Audit!Answered(e, Audit!listAuditLog(v))))
  <1> DEFINE fields == {"data", "fetch", "answer", "stale", "failed", "missed"}
             a == Audit!Answered(e, Audit!listAuditLog(v))
  <1>1. DOMAIN e = fields
    BY DEF HoldsPages
  <1>2. DOMAIN Audit!Refetch(e) = fields /\ Audit!Refetch(e).data = e.data
    BY <1>1 DEF Audit!Refetch
  <1>3. DOMAIN Audit!Failed(e) = fields /\ Audit!Failed(e).data = e.data
    BY <1>1 DEF Audit!Failed
  <1>4. HoldsPages(v, Audit!Refetch(e)) /\ HoldsPages(v, Audit!Failed(e))
    BY <1>2, <1>3 DEF HoldsPages
  <1>5. \A x \in Audit!Observed(e) : HoldsPages(v, x)
    <2>1. \A x \in Audit!Observed(e) : x = e \/ x = Audit!Refetch(e)
      BY DEF Audit!Observed
    <2> QED
      BY <1>4, <2>1
  <1>6. a.answer = {Audit!listAuditLog(v)}
    <2>1. a = [e EXCEPT !.fetch = "answered", !.answer = {Audit!listAuditLog(v)}]
      BY DEF Audit!Answered
    <2> HIDE DEF a
    <2>2. PICK d : d = Audit!listAuditLog(v)
      OBVIOUS
    <2>3. a = [e EXCEPT !.fetch = "answered", !.answer = {d}]
      BY <2>1, <2>2
    <2>4. a.answer = {d}
      BY <1>1, <2>3
    <2> QED
      BY <2>2, <2>4
  <1> HIDE DEF a
  <1>7. DOMAIN Audit!Received(a) = fields /\ Audit!Received(a).data = {Audit!listAuditLog(v)}
    <2>1. Audit!Received(a) = [Audit!Unused EXCEPT !.data = a.answer, !.missed = a.missed]
      BY DEF Audit!Received
    <2>2. DOMAIN Audit!Received(a) = fields /\ Audit!Received(a).data = a.answer
      BY <2>1 DEF Audit!Unused
    <2> QED
      BY <1>6, <2>2
  <1>8. Listed(v, Audit!listAuditLog(v))
    BY PageListed DEF HoldsPages
  <1>9. HoldsPages(v, Audit!Received(a))
    BY <1>7, <1>8 DEF HoldsPages
  <1> QED
    BY <1>4, <1>5, <1>9 DEF a

LEMMA OpenedHolds ==
  ASSUME NEW v, v.page \in Nat \ {0}, SeenBy(v.key)
  PROVE  HoldsPages(v, Audit!Opened)
  <1>1. Audit!Opened.data = {} /\ DOMAIN Audit!Opened = {"data", "fetch", "answer", "stale", "failed", "missed"}
    BY DEF Audit!Opened, Audit!Refetch, Audit!Unused
  <1> QED
    BY <1>1 DEF HoldsPages

\* An entry that is written leaves what the cache holds true.
LEMMA HoldsOn ==
  ASSUME log \in Nat, Written <= log, log <= Len(Entries),
         log' = log \/ (log < Len(Entries) /\ log' = log + 1), NEW v, NEW e, HoldsPages(v, e)
  PROVE  HoldsPages(v, e)'
  <1>1. SeenBy(v.key) /\ SeenBy(v.key)'
    BY DEF HoldsPages, SeenBy
  <1>2. Audit!Immutable(v.key) => Audit!listAuditLog(v)' = Audit!listAuditLog(v)
    <2>1. ASSUME Audit!Immutable(v.key)
          PROVE  Audit!Listing(v.key)' = Audit!Listing(v.key)
      BY <1>1, <2>1, ListingStays DEF SeenBy
    <2>2. ASSUME Audit!Listing(v.key)' = Audit!Listing(v.key)
          PROVE  Audit!listAuditLog(v)' = Audit!listAuditLog(v)
      BY <2>2 DEF Audit!listAuditLog
    <2> QED
      BY <2>1, <2>2
  <1>3. \A d : Listed(v, d) => Listed(v, d)'
    BY <1>2 DEF Listed, Audit!Immutable
  <1> QED
    BY <1>1, <1>3 DEF HoldsPages

\* A view that the query comes to observe.
LEMMA ObserveHolds ==
  ASSUME LogTypes, log' = log, NEW v, v.page \in Nat \ {0}, SeenBy(v.key), Audit!Observe(v)
  PROVE  /\ view' = v /\ view' \in DOMAIN queries'
         /\ \A w \in (DOMAIN queries)' : HoldsPages(w, queries[w])'
  <1>1. view' = v /\ v \in DOMAIN queries'
    BY DEF Audit!Observe, LogTypes
  <1>2. \A w \in DOMAIN queries' : HoldsPages(w, queries'[w])
    <2>1. CASE v \notin DOMAIN queries
      <3>1. queries' = [w \in DOMAIN queries \cup {v} |-> IF w = v THEN Audit!Opened ELSE queries[w]]
        BY <2>1 DEF Audit!Observe
      <3>2. HoldsPages(v, Audit!Opened)
        BY OpenedHolds
      <3> QED
        BY <3>1, <3>2 DEF LogTypes
    <2>2. CASE v \in DOMAIN queries
      <3>1. PICK x \in Audit!Observed(queries[v]) : queries' = [queries EXCEPT ![v] = x]
        BY <2>2 DEF Audit!Observe
      <3>2. PICK e : e = queries[v]
        OBVIOUS
      <3>3. HoldsPages(v, e) /\ x \in Audit!Observed(e)
        BY <2>2, <3>1, <3>2 DEF LogTypes
      <3>4. HoldsPages(v, x)
        BY <3>3, QueryHolds DEF LogTypes
      <3> QED
        BY <3>1, <3>4 DEF LogTypes
    <2> QED
      BY <2>1, <2>2
  <1>3. \A w, x : HoldsPages(w, x) => HoldsPages(w, x)'
    <2>1. ASSUME NEW w, NEW x, HoldsPages(w, x) PROVE HoldsPages(w, x)'
      BY <2>1, HoldsOn DEF LogTypes
    <2> QED
      BY <2>1
  <1>4. ASSUME NEW w \in (DOMAIN queries)' PROVE HoldsPages(w, queries[w])'
    <2>1. PICK x : x = queries'[w]
      OBVIOUS
    <2>2. HoldsPages(w, x)
      BY <1>2, <1>4, <2>1
    <2>3. HoldsPages(w, x)'
      BY <1>3, <2>2
    <2> QED
      BY <2>1, <2>3
  <1> QED
    BY <1>1, <1>4

\* The page is shown again, with the filters that it has then.
LEMMA RenderHolds ==
  ASSUME LogTypes, log' = log, mount' = mount, DOMAIN debounced' = Audit!Typed, Audit!Render
  PROVE  LogTypes'
  <1>1. PICK k : k = Audit!FiltersNow'
    OBVIOUS
  <1>2. k.time.range # "custom" => k.mount = mount
    BY <1>1 DEF Audit!FiltersNow
  <1>3. SeenBy(k)
    BY <1>2 DEF SeenBy, LogTypes
  <1>4. CASE k = view.key
    <2>1. view' = view /\ queries' = queries
      BY <1>1, <1>4 DEF Audit!Render, Audit!Key
    <2>2. \A w, x : HoldsPages(w, x) => HoldsPages(w, x)'
      <3>1. ASSUME NEW w, NEW x, HoldsPages(w, x) PROVE HoldsPages(w, x)'
        BY <3>1, HoldsOn DEF LogTypes
      <3> QED
        BY <3>1
    <2>3. \A w \in (DOMAIN queries)' : HoldsPages(w, queries[w])'
      <3>1. SUFFICES ASSUME NEW w \in (DOMAIN queries)' PROVE HoldsPages(w, queries[w])'
        OBVIOUS
      <3>2. PICK x : x = queries[w] /\ x = queries'[w]
        BY <2>1
      <3>3. HoldsPages(w, x)
        BY <2>1, <3>1, <3>2 DEF LogTypes
      <3> QED
        BY <2>2, <3>2, <3>3
    <2>4. view'.key = Audit!FiltersNow'
      BY <1>1, <1>4, <2>1
    <2> QED
      BY <2>1, <2>3, <2>4 DEF LogTypes
  <1>5. CASE k # view.key
    <2>1. PICK v : v = [key |-> k, page |-> 1]
      OBVIOUS
    <2>2. Audit!Observe(v)
      BY <1>1, <1>5, <2>1 DEF Audit!Render, Audit!Key
    <2>3. v.page \in Nat \ {0} /\ v.key = k
      BY <2>1
    <2>4. /\ view' = v /\ view' \in DOMAIN queries'
          /\ \A w \in (DOMAIN queries)' : HoldsPages(w, queries[w])'
      BY <1>3, <2>2, <2>3, ObserveHolds
    <2>5. view' = [key |-> view'.key, page |-> view'.page] /\ view'.key = Audit!FiltersNow'
      BY <1>1, <2>1, <2>4
    <2> QED
      BY <2>4, <2>5 DEF LogTypes
  <1> QED
    BY <1>4, <1>5

\* Another page of the list.
LEMMA TurnHolds ==
  ASSUME LogTypes, NEW p \in Nat \ {0}, Audit!Turn(p)
  PROVE  LogTypes' /\ view'.key = view.key /\ view'.page = p
  <1>1. PICK v : v = [view EXCEPT !.page = p]
    OBVIOUS
  <1>2. v = [key |-> view.key, page |-> p]
    BY <1>1 DEF LogTypes
  <1>3. SeenBy(v.key) /\ v.page \in Nat \ {0} /\ log' = log
    BY <1>2 DEF LogTypes, HoldsPages, Audit!Turn
  <1>4. Audit!Observe(v)
    BY <1>1 DEF Audit!Turn
  <1>5. /\ view' = v /\ view' \in DOMAIN queries'
        /\ \A w \in (DOMAIN queries)' : HoldsPages(w, queries[w])'
    BY <1>3, <1>4, ObserveHolds
  <1>6. view' = [key |-> view'.key, page |-> view'.page]
    BY <1>2, <1>5
  <1>7. Audit!FiltersNow' = Audit!FiltersNow
    BY DEF Audit!Turn, Audit!FiltersNow, Audit!Store, Audit!Here, Audit!initialCategory, Audit!initialScope, Audit!Pick
  <1>8. debounced' = debounced /\ mount' = mount
    BY DEF Audit!Turn
  <1> QED
    BY <1>2, <1>3, <1>5, <1>6, <1>7, <1>8 DEF LogTypes

LEMMA LogInit == Audit!Init => LogInv
  <1> SUFFICES ASSUME Audit!Init PROVE LogInv
    OBVIOUS
  <1>1. /\ log = Written /\ mount = [number |-> 1, now |-> Written] /\ debounced = Audit!Delay(Audit!Here)
        /\ view = [key |-> Audit!FiltersNow, page |-> 1] /\ queries = [v \in {view} |-> Audit!Opened]
        /\ openIndex = {} /\ openEntry = {} /\ under = {}
    BY DEF Audit!Init
  <1>2. PICK k : k = Audit!FiltersNow
    OBVIOUS
  <1>3. SeenBy(k)
    <2>1. k.time.range # "custom" => k.mount = mount
      BY <1>2 DEF Audit!FiltersNow
    <2> QED
      BY <1>1, <2>1, LogAssumption DEF SeenBy
  <1>4. PICK v : v = [key |-> k, page |-> 1]
    OBVIOUS
  <1>5. HoldsPages(v, Audit!Opened)
    BY <1>3, <1>4, OpenedHolds
  <1>6. DOMAIN debounced = Audit!Typed
    BY <1>1 DEF Audit!Delay
  <1>7. \A w \in DOMAIN queries : HoldsPages(w, queries[w])
    BY <1>1, <1>2, <1>4, <1>5
  <1>8. LogTypes
    BY <1>1, <1>2, <1>6, <1>7, LogAssumption DEF LogTypes
  <1> QED
    BY <1>1, <1>8 DEF LogInv, DrawerTrue

\* The drawer is shown when it has a position.
LEMMA DrawerIsShown == DrawerTrue /\ ~Audit!DrawerShown => openIndex = {} /\ openEntry = {} /\ under = {}
  <1> SUFFICES ASSUME DrawerTrue, ~Audit!DrawerShown PROVE openIndex = {} /\ openEntry = {} /\ under = {}
    OBVIOUS
  <1>1. Audit!drawerEntry = {}
    BY DEF Audit!DrawerShown
  <1>2. CASE \E i \in openIndex : Audit!openPage(i) = Audit!page /\ ~Audit!isFetching
    <2>1. PICK i \in openIndex : TRUE
      BY <1>2
    <2>2. Audit!drawerEntry = UNION {Audit!RowAt((j % LogPageSize) + 1) : j \in openIndex}
      BY <1>2 DEF Audit!drawerEntry
    <2>3. Audit!RowAt((i % LogPageSize) + 1) # {}
      <3>1. openEntry # {}
        BY <2>1 DEF DrawerTrue
      <3> QED
        BY <3>1 DEF Audit!RowAt
    <2>4. PICK e : e \in Audit!RowAt((i % LogPageSize) + 1)
      BY <2>3
    <2>5. Audit!RowAt((i % LogPageSize) + 1) \in {Audit!RowAt((j % LogPageSize) + 1) : j \in openIndex}
      OBVIOUS
    <2>6. e \in Audit!drawerEntry
      BY <2>2, <2>4, <2>5
    <2> QED
      BY <1>1, <2>6
  <1>3. CASE ~(\E i \in openIndex : Audit!openPage(i) = Audit!page /\ ~Audit!isFetching)
    <2>1. openEntry = {}
      BY <1>1, <1>3 DEF Audit!drawerEntry
    <2> QED
      BY <2>1 DEF DrawerTrue
  <1> QED
    BY <1>2, <1>3

ShutDrawer == openIndex' = {} /\ openEntry' = {} /\ under' = {}

LEMMA ShutHolds == ShutDrawer => DrawerTrue'
  BY DEF ShutDrawer, DrawerTrue

\* A filter, the range or the order of a section is changed, with no drawer shown.
LEMMA EditHolds ==
  ASSUME LogInv, NEW s, Audit!Edit(s)
  PROVE  LogInv'
  <1>1. /\ ~Audit!DrawerShown /\ Audit!Render
        /\ debounced' = debounced /\ mount' = mount /\ log' = log
        /\ openIndex' = openIndex /\ openEntry' = openEntry /\ under' = under
    BY DEF Audit!Edit, Audit!drawer
  <1>2. ShutDrawer
    BY <1>1, DrawerIsShown DEF LogInv, ShutDrawer
  <1>3. LogTypes'
    BY <1>1, RenderHolds DEF LogInv, LogTypes
  <1> QED
    BY <1>2, <1>3, ShutHolds DEF LogInv

LEMMA AllEdits ==
  ASSUME \/ Audit!SecurityFilterBar \/ Audit!AuthorizationFilterBar \/ Audit!TimeRangeControl
         \/ Audit!toggleSort \/ Audit!onClearChip \/ Audit!clearAll \/ Audit!emptyAction
  PROVE  \E s : Audit!Edit(s)
  <1>1. CASE Audit!SecurityFilterBar
    BY <1>1, Zenon DEF Audit!SecurityFilterBar
  <1>2. CASE Audit!AuthorizationFilterBar
    BY <1>2, Zenon DEF Audit!AuthorizationFilterBar
  <1>3. CASE Audit!TimeRangeControl
    BY <1>3, Zenon DEF Audit!TimeRangeControl
  <1>4. CASE Audit!toggleSort
    BY <1>4, Zenon DEF Audit!toggleSort
  <1>5. CASE Audit!onClearChip
    BY <1>5, Zenon DEF Audit!onClearChip
  <1>6. CASE Audit!clearAll
    BY <1>6, Zenon DEF Audit!clearAll
  <1>7. CASE Audit!emptyAction
    BY <1>7, Zenon DEF Audit!emptyAction
  <1> QED
    BY <1>1, <1>2, <1>3, <1>4, <1>5, <1>6, <1>7

\* Another section is mounted.
LEMMA MountHolds ==
  ASSUME LogInv, log' = log, Audit!Mount
  PROVE  LogInv'
  <1>1. /\ mount' = [number |-> mount.number + 1, now |-> log] /\ debounced' = Audit!Delay(Audit!Here')
        /\ ShutDrawer
    BY DEF Audit!Mount, Audit!Closed, ShutDrawer
  <1>2. PICK k : k = Audit!FiltersNow'
    OBVIOUS
  <1>3. PICK v : v = [key |-> k, page |-> 1]
    OBVIOUS
  <1>4. SeenBy(k)
    <2>1. k.time.range # "custom" => k.mount = mount'
      BY <1>2 DEF Audit!FiltersNow
    <2>2. mount'.now = log
      BY <1>1
    <2> QED
      BY <2>1, <2>2 DEF SeenBy, LogInv, LogTypes
  <1>5. PICK kept : kept = {w \in DOMAIN queries : w.key.time.range = "custom"}
    OBVIOUS
  <1>6. /\ view' = v
        /\ \E e \in IF v \in kept THEN Audit!Observed(queries[v]) ELSE {Audit!Opened} :
              queries' = [w \in kept \cup {v} |-> IF w = v THEN e ELSE queries[w]]
    BY <1>2, <1>3, <1>5 DEF Audit!Mount
  <1>7. PICK e : /\ e \in IF v \in kept THEN Audit!Observed(queries[v]) ELSE {Audit!Opened}
                 /\ queries' = [w \in kept \cup {v} |-> IF w = v THEN e ELSE queries[w]]
    BY <1>6
  <1>8. HoldsPages(v, e)
    <2>1. CASE v \in kept
      <3>1. PICK q : q = queries[v]
        OBVIOUS
      <3>2. HoldsPages(v, q) /\ e \in Audit!Observed(q)
        BY <1>5, <1>7, <2>1, <3>1 DEF LogInv, LogTypes
      <3> QED
        BY <3>2, QueryHolds DEF LogInv, LogTypes
    <2>2. CASE v \notin kept
      <3>1. e = Audit!Opened
        BY <1>7, <2>2
      <3> QED
        BY <1>3, <1>4, <3>1, OpenedHolds
    <2> QED
      BY <2>1, <2>2
  <1>9. \A w \in DOMAIN queries' : HoldsPages(w, queries'[w])
    BY <1>5, <1>7, <1>8 DEF LogInv, LogTypes
  <1>10. \A w, x : HoldsPages(w, x) => HoldsPages(w, x)'
    <2>1. ASSUME NEW w, NEW x, HoldsPages(w, x) PROVE HoldsPages(w, x)'
      BY <2>1, HoldsOn DEF LogInv, LogTypes
    <2> QED
      BY <2>1
  <1>11. ASSUME NEW w \in (DOMAIN queries)' PROVE HoldsPages(w, queries[w])'
    <2>1. PICK x : x = queries'[w]
      OBVIOUS
    <2> QED
      BY <1>9, <1>10, <1>11, <2>1
  <1>12. DOMAIN debounced' = Audit!Typed /\ mount'.now = log
    <2>1. PICK s : s = Audit!Here'
      OBVIOUS
    <2>2. DOMAIN Audit!Delay(s)' = Audit!Typed
      BY DEF Audit!Delay
    <2>3. DOMAIN debounced' = Audit!Typed
      BY <1>1 DEF Audit!Delay
    <2> QED
      BY <1>1, <2>3
  <1>13. view' = [key |-> view'.key, page |-> view'.page] /\ view'.key = Audit!FiltersNow' /\ view' \in DOMAIN queries'
    BY <1>2, <1>3, <1>6, <1>7
  <1>14. LogTypes'
    BY <1>11, <1>12, <1>13 DEF LogInv, LogTypes
  <1> QED
    BY <1>1, <1>14, ShutHolds DEF LogInv

\* A step that leaves the list and the drawer where they are.
LEMMA DrawerStays ==
  ASSUME LogInv, UNCHANGED <<place, stores, debounced, view, openIndex, openEntry, under>>,
         log' = log \/ (log < Len(Entries) /\ log' = log + 1)
  PROVE  DrawerTrue'
  <1>1. Audit!Store' = Audit!Store
    BY DEF Audit!Store, Audit!Here, Audit!initialCategory, Audit!initialScope, Audit!Pick
  <1>2. ASSUME Audit!Immutable(view.key)
        PROVE  Audit!Listing(view.key)' = Audit!Listing(view.key)
    <2>1. PICK k : k = view.key /\ k = view'.key
      OBVIOUS
    <2>2. SeenBy(k)
      BY <2>1 DEF LogInv, LogTypes, HoldsPages
    <2>3. Audit!Listing(k)' = Audit!Listing(k)
      BY <1>2, <2>1, <2>2, ListingStays DEF LogInv, LogTypes, SeenBy
    <2> QED
      BY <2>1, <2>3
  <1>3. Audit!Immutable(view.key)' = Audit!Immutable(view.key)
    BY DEF Audit!Immutable
  <1>4. \A i : OnItsPage(i) => OnItsPage(i)'
    BY <1>2, <1>3 DEF OnItsPage, Audit!openPage
  <1>5. \A k : Replaced(k) => Replaced(k)'
    BY <1>1 DEF Replaced
  <1> QED
    BY <1>4, <1>5 DEF LogInv, DrawerTrue

\* A step of the drawer alone.
LEMMA CacheStays ==
  ASSUME LogInv, UNCHANGED <<place, stores, debounced, mount, view, queries, log>>
  PROVE  LogTypes'
  <1>1. Audit!FiltersNow' = Audit!FiltersNow
    BY DEF Audit!FiltersNow, Audit!Store, Audit!Here, Audit!initialCategory, Audit!initialScope, Audit!Pick
  <1>2. \A w, x : HoldsPages(w, x) => HoldsPages(w, x)'
    <2>1. ASSUME NEW w, NEW x, HoldsPages(w, x) PROVE HoldsPages(w, x)'
      BY <2>1, HoldsOn DEF LogInv, LogTypes
    <2> QED
      BY <2>1
  <1>3. \A w \in (DOMAIN queries)' : HoldsPages(w, queries[w])'
    <2>1. SUFFICES ASSUME NEW w \in (DOMAIN queries)' PROVE HoldsPages(w, queries[w])'
      OBVIOUS
    <2>2. PICK x : x = queries'[w] /\ x = queries[w]
      OBVIOUS
    <2> QED
      BY <1>2, <2>1, <2>2 DEF LogInv, LogTypes
  <1> QED
    BY <1>1, <1>3 DEF LogInv, LogTypes

\* A query moves on, and nothing else does.
LEMMA CachedHolds ==
  ASSUME LogInv, NEW v \in DOMAIN queries, NEW e, HoldsPages(v, e), Audit!Cached(v, e)
  PROVE  LogInv'
  <1>1. /\ queries' = [queries EXCEPT ![v] = e]
        /\ UNCHANGED <<place, stores, debounced, mount, view, openIndex, openEntry, under, log>>
    BY DEF Audit!Cached, Audit!drawer
  <1>2. \A w \in DOMAIN queries' : HoldsPages(w, queries'[w])
    BY <1>1 DEF LogInv, LogTypes
  <1>3. \A w, x : HoldsPages(w, x) => HoldsPages(w, x)'
    <2>1. ASSUME NEW w, NEW x, HoldsPages(w, x) PROVE HoldsPages(w, x)'
      BY <1>1, <2>1, HoldsOn DEF LogInv, LogTypes
    <2> QED
      BY <2>1
  <1>4. ASSUME NEW w \in (DOMAIN queries)' PROVE HoldsPages(w, queries[w])'
    <2>1. PICK x : x = queries'[w]
      OBVIOUS
    <2> QED
      BY <1>2, <1>3, <1>4, <2>1
  <1>5. Audit!FiltersNow' = Audit!FiltersNow
    BY <1>1 DEF Audit!FiltersNow, Audit!Store, Audit!Here, Audit!initialCategory, Audit!initialScope, Audit!Pick
  <1>6. LogTypes'
    BY <1>1, <1>4, <1>5 DEF LogInv, LogTypes
  <1>7. DrawerTrue'
    BY <1>1, DrawerStays
  <1> QED
    BY <1>6, <1>7 DEF LogInv

LEMMA WriteHolds ==
  ASSUME LogInv, Audit!Write
  PROVE  LogInv'
  <1>1. /\ log < Len(Entries) /\ log' = log + 1
        /\ UNCHANGED <<place, stores, debounced, mount, view, queries, openIndex, openEntry, under>>
    BY DEF Audit!Write, Audit!drawer
  <1>2. \A w, x : HoldsPages(w, x) => HoldsPages(w, x)'
    <2>1. ASSUME NEW w, NEW x, HoldsPages(w, x) PROVE HoldsPages(w, x)'
      BY <1>1, <2>1, HoldsOn DEF LogInv, LogTypes
    <2> QED
      BY <2>1
  <1>3. ASSUME NEW w \in (DOMAIN queries)' PROVE HoldsPages(w, queries[w])'
    <2>1. PICK x : x = queries'[w] /\ x = queries[w]
      BY <1>1
    <2> QED
      BY <1>1, <1>2, <1>3, <2>1 DEF LogInv, LogTypes
  <1>4. Audit!FiltersNow' = Audit!FiltersNow
    BY <1>1 DEF Audit!FiltersNow, Audit!Store, Audit!Here, Audit!initialCategory, Audit!initialScope, Audit!Pick
  <1>5. LogTypes'
    BY <1>1, <1>3, <1>4, LogAssumption DEF LogInv, LogTypes
  <1>6. DrawerTrue'
    BY <1>1, DrawerStays
  <1> QED
    BY <1>5, <1>6 DEF LogInv

\* A debounce replaces the list for good: the filter that came through differs.
LEMMA DebounceHolds ==
  ASSUME LogInv, NEW f \in Audit!Typed, Audit!useDebouncedValue(f)
  PROVE  LogInv'
  <1>1. /\ debounced[f] # Audit!Store.set[f] /\ debounced' = [debounced EXCEPT ![f] = Audit!Store.set[f]]
        /\ UNCHANGED <<place, stores, mount, openIndex, openEntry, under, log>> /\ Audit!Render
    BY DEF Audit!useDebouncedValue, Audit!drawer
  <1>2. Audit!Store' = Audit!Store
    BY <1>1 DEF Audit!Store, Audit!Here, Audit!initialCategory, Audit!initialScope, Audit!Pick
  <1>3. DOMAIN debounced' = Audit!Typed
    BY <1>1 DEF LogInv, LogTypes
  <1>4. LogTypes'
    BY <1>1, <1>3, RenderHolds DEF LogInv
  <1>5. debounced'[f] = Audit!Store'.set[f] /\ debounced'[f] # debounced[f]
    BY <1>1, <1>2 DEF LogInv, LogTypes
  <1>6. \A g \in Audit!Typed : view.key.set[g] = debounced[g]
    <2>1. \A g \in Audit!Typed : Audit!FiltersNow.set[g] = debounced[g]
      BY DEF Audit!FiltersNow, Audit!Typed, Audit!Unset
    <2> QED
      BY <2>1 DEF LogInv, LogTypes
  <1>7. \A g \in Audit!Typed : view'.key.set[g] = debounced'[g]
    <2>1. \A g \in Audit!Typed : Audit!FiltersNow'.set[g] = debounced'[g]
      BY DEF Audit!FiltersNow, Audit!Typed, Audit!Unset
    <2> QED
      BY <1>4, <2>1 DEF LogTypes
  <1>8. \A k : k = view.key \/ Replaced(k) => Replaced(k)' /\ k # view'.key
    <2>1. SUFFICES ASSUME NEW k, k = view.key \/ Replaced(k) PROVE Replaced(k)' /\ k # view'.key
      OBVIOUS
    <2>2. CASE k = view.key
      <3>1. k.set[f] # debounced'[f]
        BY <1>5, <1>6, <2>2
      <3> QED
        BY <1>5, <1>7, <3>1 DEF Replaced
    <2>3. CASE Replaced(k)
      <3>1. PICK g \in Audit!Typed : debounced[g] = Audit!Store.set[g] /\ k.set[g] # debounced[g]
        BY <2>3 DEF Replaced
      <3>2. g # f /\ debounced'[g] = debounced[g]
        BY <1>1, <3>1 DEF LogInv, LogTypes
      <3>3. debounced'[g] = Audit!Store'.set[g] /\ k.set[g] # debounced'[g]
        BY <1>2, <3>1, <3>2
      <3> QED
        BY <1>7, <3>1, <3>3 DEF Replaced
    <2> QED
      BY <2>1, <2>2, <2>3
  <1>9. under' # {} => \E k : under' = {k} /\ Replaced(k)' /\ k # view'.key
    BY <1>1, <1>8 DEF LogInv, DrawerTrue
  <1>10. DrawerTrue'
    BY <1>1, <1>9 DEF LogInv, DrawerTrue
  <1> QED
    BY <1>4, <1>10 DEF LogInv

\* What the page shows of a query is held in its cache.
LEMMA DataHeld ==
  ASSUME LogInv, Audit!Query.data # {}
  PROVE  Audit!Data \in queries[view].data /\ Listed(view, Audit!Data)
  <1>1. Audit!Data = (CHOOSE d \in queries[view].data : TRUE)
    BY DEF Audit!Data, Audit!Query, Audit!Value
  <1>2. Audit!Data \in queries[view].data
    BY <1>1 DEF Audit!Query
  <1>3. PICK v, e : v = view /\ e = queries[view] /\ HoldsPages(v, e)
    BY DEF LogInv, LogTypes
  <1>4. \A d \in e.data : Listed(v, d)
    BY <1>3 DEF HoldsPages
  <1> QED
    BY <1>2, <1>3, <1>4

\* The drawer opens at the position of the row that was clicked.
LEMMA ClickHolds ==
  ASSUME LogInv, NEW r \in DOMAIN Audit!Data.rows, Audit!onRowClick(r)
  PROVE  LogInv'
  <1> DEFINE i == (view.page - 1) * LogPageSize + r - 1
             D == Audit!Data
             K == view.key
  <1>1. /\ Audit!Query.data # {} /\ openEntry' = {D.rows[r]} /\ openIndex' = {i} /\ under' = {K}
        /\ UNCHANGED <<place, stores, debounced, mount, view, queries, log>>
    BY DEF Audit!onRowClick, Audit!TableShown, Audit!Shown, Audit!page, Audit!Key
  <1>2. Listed(view, D) /\ view.page \in Nat \ {0}
    BY <1>1, DataHeld DEF LogInv, LogTypes, HoldsPages
  <1>3. PICK p \in Nat \ {0} : p = view.page
    BY <1>2
  <1>4. r \in 1 .. LogPageSize
    BY <1>2 DEF Listed
  <1>5. i \in Nat /\ Audit!openPage(i) = p
    BY <1>3, <1>4, PageOfRow
  <1>6. ASSUME Audit!Immutable(K) PROVE i < Len(Audit!Listing(K))
    <2>1. PICK v : v = view
      OBVIOUS
    <2>2. Audit!listAuditLog(v) = D
      BY <1>2, <1>6, <2>1 DEF Listed
    <2>3. log \in Nat /\ v.page \in Nat \ {0} /\ r \in DOMAIN Audit!listAuditLog(v).rows
      BY <1>2, <2>1, <2>2 DEF LogInv, LogTypes
    <2>4. ((v.page - 1) * LogPageSize) + r - 1 < Len(Audit!Listing(v.key))
      BY <2>3, RowOfList
    <2> QED
      BY <2>1, <2>4
  <1> HIDE DEF i, D
  <1>10. LogTypes'
    BY <1>1, CacheStays
  <1>11. PICK n \in Nat : n = i
    BY <1>5
  <1>12. OnItsPage(n)'
    <2>1. view' = view /\ (Audit!Immutable(K) => n < Len(Audit!Listing(K))) /\ Audit!openPage(n) = view.page
      BY <1>1, <1>3, <1>5, <1>6, <1>11
    <2>2. Audit!Listing(K)' = Audit!Listing(K) /\ Audit!Immutable(K)' = Audit!Immutable(K)
      BY <1>1 DEF Audit!Listing, Audit!Hits, Audit!Immutable
    <2> QED
      BY <2>1, <2>2 DEF OnItsPage, Audit!openPage
  <1>13. DrawerTrue'
    BY <1>1, <1>11, <1>12 DEF DrawerTrue
  <1> QED
    BY <1>10, <1>13 DEF LogInv

\* The drawer steps to another position, and the list to its page.
LEMMA StepHolds ==
  ASSUME LogInv, openIndex # {}, NEW next \in Nat, Audit!StepTo(next),
         under = {view.key} /\ Audit!Immutable(view.key) => next < Len(Audit!Listing(view.key))
  PROVE  LogInv'
  <1> DEFINE q == Audit!openPage(next)
  <1>1. q \in Nat \ {0}
    <2>1. next \div LogPageSize \in Nat
      BY PlaceOnPage, LogAssumption
    <2> QED
      BY <2>1 DEF Audit!openPage
  <1>2. openIndex' = {next} /\ under' = under
    BY DEF Audit!StepTo
  <1>3. /\ UNCHANGED <<place, stores, debounced, mount, log>>
        /\ openEntry' # {} /\ view'.key = view.key /\ view'.page = q /\ LogTypes'
    <2>1. CASE q # view.page
      <3>1. openEntry' = openEntry /\ Audit!Turn(q)
        BY <2>1 DEF Audit!StepTo, Audit!page
      <3>2. openEntry # {}
        BY DEF LogInv, DrawerTrue
      <3>3. LogTypes' /\ view'.key = view.key /\ view'.page = q
        <4>1. PICK p \in Nat \ {0} : p = q
          BY <1>1
        <4>2. Audit!Turn(p)
          BY <3>1, <4>1
        <4> QED
          BY <4>1, <4>2, TurnHolds DEF LogInv
      <3>4. UNCHANGED <<place, stores, debounced, mount, log>>
        BY <3>1 DEF Audit!Turn
      <3> QED
        BY <3>1, <3>2, <3>3, <3>4
    <2>2. CASE q = view.page
      <3>1. /\ openEntry' = Audit!RowAt((next % LogPageSize) + 1)
            /\ UNCHANGED <<place, stores, debounced, mount, view, queries, log>>
        BY <2>2 DEF Audit!StepTo, Audit!page
      <3>2. openEntry # {}
        BY DEF LogInv, DrawerTrue
      <3>3. openEntry' # {}
        BY <3>1, <3>2 DEF Audit!RowAt
      <3>7. LogTypes'
        BY <3>1, CacheStays
      <3> QED
        BY <2>2, <3>1, <3>3, <3>7
    <2> QED
      BY <2>1, <2>2
  <1>4. under' = {view'.key} => OnItsPage(next)'
    <2>1. PICK k : k = view.key /\ k = view'.key
      BY <1>3
    <2>2. Audit!Listing(k)' = Audit!Listing(k) /\ Audit!Immutable(k)' = Audit!Immutable(k)
      BY <1>3 DEF Audit!Listing, Audit!Hits, Audit!Immutable
    <2>3. under = {k} /\ Audit!Immutable(k) => next < Len(Audit!Listing(k))
      BY <2>1
    <2> QED
      BY <1>2, <1>3, <2>1, <2>2, <2>3 DEF OnItsPage, Audit!openPage
  <1>5. \A k : Replaced(k) => Replaced(k)'
    <2>1. Audit!Store' = Audit!Store
      BY <1>3 DEF Audit!Store, Audit!Here, Audit!initialCategory, Audit!initialScope, Audit!Pick
    <2> QED
      BY <1>3, <2>1 DEF Replaced
  <1>6. under' # {} => \E k : under' = {k} /\ (k = view'.key \/ Replaced(k)')
    BY <1>2, <1>3, <1>5 DEF LogInv, DrawerTrue
  <1>7. DrawerTrue'
    BY <1>2, <1>3, <1>4, <1>6 DEF DrawerTrue
  <1> QED
    BY <1>3, <1>7 DEF LogInv

\* The position before and the one after: on a list that nothing can join both
\* are positions of the list.
LEMMA BothStepsHold ==
  ASSUME LogInv, Audit!onPrevious \/ Audit!onNext
  PROVE  LogInv'
  <1>1. PICK i \in openIndex : \/ i > 0 /\ Audit!StepTo(i - 1)
                               \/ Audit!Query.data # {} /\ i + 1 < Audit!Data.total /\ Audit!StepTo(i + 1)
    <2>1. \A i, j \in openIndex : i = j
      BY DEF LogInv, DrawerTrue
    <2>2. CASE Audit!onPrevious
      BY <2>1, <2>2 DEF Audit!onPrevious, Audit!canGoPrevious
    <2>3. CASE Audit!onNext
      BY <2>1, <2>3 DEF Audit!onNext, Audit!canGoNext
    <2> QED
      BY <2>2, <2>3
  <1>2. i \in Nat /\ openIndex # {}
    BY DEF LogInv, DrawerTrue
  <1>3. PICK n \in Nat : n = Len(Audit!Listing(view.key))
    <2>1. PICK k : k = view.key
      OBVIOUS
    <2>2. Len(Audit!Listing(k)) \in Nat
      BY ListingLength DEF LogInv, LogTypes
    <2> QED
      BY <2>1, <2>2
  <1>4. under = {view.key} /\ Audit!Immutable(view.key) => i < n
    BY <1>3 DEF LogInv, DrawerTrue, OnItsPage
  <1>5. CASE i > 0 /\ Audit!StepTo(i - 1)
    <2>1. PICK next \in Nat : next = i - 1
      BY <1>2, <1>5
    <2>2. under = {view.key} /\ Audit!Immutable(view.key) => next < n
      BY <1>2, <1>4, <2>1
    <2> QED
      BY <1>2, <1>3, <1>5, <2>1, <2>2, StepHolds
  <1>6. CASE Audit!Query.data # {} /\ i + 1 < Audit!Data.total /\ Audit!StepTo(i + 1)
    <2>1. PICK next \in Nat : next = i + 1
      BY <1>2
    <2>2. Audit!Immutable(view.key) => Audit!Data.total = n
      <3>1. Audit!Immutable(view.key) => Audit!Data = Audit!listAuditLog(view)
        BY <1>6, DataHeld DEF Listed
      <3>2. Audit!listAuditLog(view).total = Len(Audit!Listing(view.key))
        BY DEF Audit!listAuditLog
      <3> QED
        BY <1>3, <3>1, <3>2
    <2>3. under = {view.key} /\ Audit!Immutable(view.key) => next < n
      BY <1>6, <2>1, <2>2
    <2> QED
      BY <1>2, <1>3, <1>6, <2>1, <2>3, StepHolds
  <1> QED
    BY <1>1, <1>5, <1>6

LEMMA LogNext == LogInv /\ [Audit!Next]_(Audit!auditVars) => LogInv'
  <1> SUFFICES ASSUME LogInv, [Audit!Next]_(Audit!auditVars) PROVE LogInv'
    OBVIOUS
  <1>1. CASE \/ Audit!SecurityFilterBar \/ Audit!AuthorizationFilterBar \/ Audit!TimeRangeControl
             \/ Audit!toggleSort \/ Audit!onClearChip \/ Audit!clearAll \/ Audit!emptyAction
    BY <1>1, AllEdits, EditHolds
  <1>2. CASE \E f \in Audit!Typed \cap Audit!Fields(Audit!Here) : Audit!useDebouncedValue(f)
    BY <1>2, DebounceHolds
  <1>3. CASE Audit!Pagination
    <2>1. /\ ~Audit!DrawerShown /\ openIndex' = openIndex /\ openEntry' = openEntry /\ under' = under
          /\ \E p \in 1 .. Audit!totalPagesFor(Audit!Data.total) : Audit!Turn(p)
      BY <1>3 DEF Audit!Pagination, Audit!drawer
    <2>2. PICK p \in Nat \ {0} : Audit!Turn(p)
      BY <2>1
    <2>3. LogTypes'
      BY <2>2, TurnHolds DEF LogInv
    <2>4. ShutDrawer
      BY <2>1, DrawerIsShown DEF LogInv, ShutDrawer
    <2> QED
      BY <2>3, <2>4, ShutHolds DEF LogInv
  <1>4. CASE \E r \in DOMAIN Audit!Data.rows : Audit!onRowClick(r)
    BY <1>4, ClickHolds
  <1>5. CASE Audit!onPrevious \/ Audit!onNext
    BY <1>5, BothStepsHold
  <1>6. CASE Audit!onClose
    <2>1. ShutDrawer /\ UNCHANGED <<place, stores, debounced, mount, view, queries, log>>
      BY <1>6 DEF Audit!onClose, Audit!Closed, ShutDrawer
    <2>5. LogTypes'
      BY <2>1, CacheStays
    <2> QED
      BY <2>1, <2>5, ShutHolds DEF LogInv
  <1>7. CASE Audit!onFilter
    <2>1. ShutDrawer /\ debounced' = debounced /\ mount' = mount /\ log' = log /\ Audit!Render
      BY <1>7 DEF Audit!onFilter, Audit!Closed, ShutDrawer
    <2>2. LogTypes'
      BY <2>1, RenderHolds DEF LogInv, LogTypes
    <2> QED
      BY <2>1, <2>2, ShutHolds DEF LogInv
  <1>8. CASE Audit!setCategory \/ Audit!setScope \/ Audit!AuditLogPage
    <2>1. CASE Audit!AuditLogPage
      BY <2>1, MountHolds DEF Audit!AuditLogPage
    <2>2. CASE Audit!setCategory
      BY <2>2, MountHolds DEF Audit!setCategory, Audit!SetTab
    <2>3. CASE Audit!setScope
      BY <2>3, MountHolds DEF Audit!setScope, Audit!SetTab
    <2> QED
      BY <1>8, <2>1, <2>2, <2>3
  <1>9. CASE \E v \in DOMAIN queries : Audit!Receive(v) \/ Audit!Fail(v)
    <2>1. PICK v \in DOMAIN queries : Audit!Receive(v) \/ Audit!Fail(v)
      BY <1>9
    <2>2. PICK e : e = queries[v]
      OBVIOUS
    <2>3. HoldsPages(v, e) /\ log \in Nat
      BY <2>2 DEF LogInv, LogTypes
    <2>4. CASE Audit!Receive(v)
      <3>1. PICK x : x = Audit!Received(Audit!Answered(e, Audit!listAuditLog(v)))
        OBVIOUS
      <3>2. HoldsPages(v, x)
        BY <2>3, <3>1, QueryHolds
      <3>3. Audit!Cached(v, x)
        BY <2>2, <2>4, <3>1 DEF Audit!Receive
      <3> QED
        BY <3>2, <3>3, CachedHolds
    <2>5. CASE Audit!Fail(v)
      <3>1. PICK x : x = Audit!Failed(e)
        OBVIOUS
      <3>2. HoldsPages(v, x)
        BY <2>3, <3>1, QueryHolds
      <3>3. Audit!Cached(v, x)
        BY <2>2, <2>5, <3>1 DEF Audit!Fail
      <3> QED
        BY <3>2, <3>3, CachedHolds
    <2> QED
      BY <2>1, <2>4, <2>5
  <1>10. CASE Audit!Refocus
    <2>1. PICK v \in DOMAIN queries : v = view
      BY DEF LogInv, LogTypes
    <2>2. PICK e : e = queries[v]
      OBVIOUS
    <2>3. HoldsPages(v, e) /\ log \in Nat
      BY <2>2 DEF LogInv, LogTypes
    <2>4. PICK x : x = Audit!Refetch(e)
      OBVIOUS
    <2>5. HoldsPages(v, x)
      BY <2>3, <2>4, QueryHolds
    <2>6. Audit!Cached(v, x)
      BY <1>10, <2>1, <2>2, <2>4 DEF Audit!Refocus, Audit!Query
    <2> QED
      BY <2>5, <2>6, CachedHolds
  <1>11. CASE Audit!Write
    BY <1>11, WriteHolds
  <1>12. CASE UNCHANGED Audit!auditVars
    <2>1. UNCHANGED <<place, stores, debounced, mount, view, queries, openIndex, openEntry, under, log>>
      BY <1>12 DEF Audit!auditVars, Audit!drawer
    <2>2. LogTypes'
      BY <2>1, CacheStays
    <2>3. DrawerTrue'
      BY <2>1, DrawerStays
    <2> QED
      BY <2>2, <2>3 DEF LogInv
  <1> QED
    BY <1>1, <1>2, <1>3, <1>4, <1>5, <1>6, <1>7, <1>8, <1>9, <1>10, <1>11, <1>12 DEF Audit!Next

\* The theorem of the drawer: once nothing is loading, the entry in the drawer of
\* the audit log is the one that the log has at the position the drawer names,
\* however many pages were turned, failed or were fetched again on the way.
THEOREM DrawerKeepsItsPlace == PagesSpec => []DrawerAtItsPlace
  <1>1. LogInv => Audit!DrawerAtItsPlace
    <2>1. SUFFICES ASSUME LogInv, NEW i \in openIndex, Audit!PositionShown, ~Audit!isFetching,
                          under = {view.key}, Audit!Immutable(view.key)
                   PROVE  Audit!drawerEntry = {Audit!Listing(view.key)[i + 1]}
      BY DEF Audit!DrawerAtItsPlace, Audit!Key
    <2>2. /\ openIndex = {i} /\ i \in Nat /\ Audit!openPage(i) = view.page
          /\ i < Len(Audit!Listing(view.key))
      BY <2>1 DEF LogInv, DrawerTrue, OnItsPage
    <2>3. Audit!Data = Audit!listAuditLog(view)
      BY <2>1, DataHeld DEF Listed, Audit!PositionShown
    <2>4. PICK v, s : v = view /\ s = Audit!Listing(v.key)
      OBVIOUS
    <2>5. Len(s) \in Nat /\ s \in Seq({s[n] : n \in 1 .. Len(s)})
      BY <2>1, <2>4, ListingLength DEF LogInv, LogTypes
    <2>6. PICK j \in Nat : j = i
      BY <2>2
    <2>7. v.page = (j \div LogPageSize) + 1
      BY <2>2, <2>4, <2>6 DEF Audit!openPage
    <2>8. Audit!Data.rows
            = SubSeq(s, (v.page - 1) * LogPageSize + 1, Audit!Min({v.page * LogPageSize, Len(s)}))
      BY <2>3, <2>4 DEF Audit!listAuditLog
    <2>9. (j % LogPageSize) + 1 \in DOMAIN Audit!Data.rows /\ Audit!Data.rows[(j % LogPageSize) + 1] = s[j + 1]
      <3>1. PICK p, rows : p = (j \div LogPageSize) + 1 /\ p = v.page /\ rows = Audit!Data.rows
        BY <2>7
      <3>2. rows = SubSeq(s, (p - 1) * LogPageSize + 1, Audit!Min({p * LogPageSize, Len(s)}))
        BY <2>8, <3>1
      <3>3. j < Len(s)
        BY <2>2, <2>4, <2>6
      <3>4. (j % LogPageSize) + 1 \in DOMAIN rows /\ rows[(j % LogPageSize) + 1] = s[j + 1]
        <4>1. LET q == (j \div LogPageSize) + 1
                  shownRows == SubSeq(s, (q - 1) * LogPageSize + 1, Audit!Min({q * LogPageSize, Len(s)}))
              IN  (j % LogPageSize) + 1 \in DOMAIN shownRows /\ shownRows[(j % LogPageSize) + 1] = s[j + 1]
          BY <2>5, <2>6, <3>3, RowOfPlace
        <4> QED
          BY <3>1, <3>2, <4>1
      <3> QED
        BY <3>1, <3>4
    <2>10. Audit!RowAt((i % LogPageSize) + 1) = {s[i + 1]}
      BY <2>6, <2>9 DEF Audit!RowAt
    <2>11. Audit!drawerEntry = UNION {Audit!RowAt((n % LogPageSize) + 1) : n \in openIndex}
      BY <2>1, <2>2 DEF Audit!drawerEntry, Audit!page
    <2> QED
      BY <2>2, <2>4, <2>10, <2>11
  <1>2. PagesInit => (mounted = "audit" => LogInv)
    BY LogInit DEF PagesInit
  <1>3. (mounted = "audit" => LogInv) /\ [PagesNext]_pagesVars => (mounted = "audit" => LogInv)'
    BY AuditSteps, LogNext
  <1>4. (mounted = "audit" => LogInv) => DrawerAtItsPlace
    BY <1>1 DEF DrawerAtItsPlace
  <1> QED
    BY <1>2, <1>3, <1>4, PTL DEF PagesSpec

-----------------------------------------------------------------------------
(* The policies page *)

\* What a callback may set in the form, and what an Undo brings back.
IsFormSet(s) == "actions" \in DOMAIN s /\ DOMAIN s \subseteq {"actions", "base", "type", "text"}
IsFormUndo(hook, u) ==
    /\ hook \in {"actions", "status"} /\ IsFormSet(u.now) /\ \A f \in u.fail : IsFormSet(f)
    /\ DOMAIN u.to = IF hook = "actions" THEN {"actions"} ELSE {"active"}
IsPolicy(p) == DOMAIN p = {"active", "actions", "type", "text"} /\ p.actions # {}

PolicyHooks == {"create", "save", "actions", "status", "delete", "rollback"}
IsPolicyCall(j) ==
    /\ j = [f \in {"id", "hook", "name", "to", "at", "ok", "form", "undo", "fail"} |-> j[f]]
    /\ j.id \in Nat /\ j.hook \in PolicyHooks
    /\ j.at \in {"sent", "answered"} /\ j.ok \in BOOLEAN
    /\ j.hook = "create" => DOMAIN j.to = {"actions", "type", "text"} /\ j.to.actions # {}
    /\ j.hook \in {"save", "rollback"} => DOMAIN j.to \subseteq {"active", "actions", "type", "text"}
    /\ j.hook = "status" => DOMAIN j.to = {"active"}
    /\ j.hook = "actions" => DOMAIN j.to = {"actions"}
    /\ j.hook # "actions" => j.form # "edit"
    /\ \A f \in j.fail : IsFormSet(f)
    /\ \A u \in j.undo : IsFormUndo(j.hook, u)
IsNotice(t) ==
    /\ t = [f \in {"id", "hook", "name", "undo", "form"} |-> t[f]]
    /\ t.hook \in {"none", "actions", "status"} /\ IsFormSet(t.undo.now)
    /\ t.hook # "none" => IsFormUndo(t.hook, t.undo)
    /\ t.hook = "status" => t.form # "edit"

ServerOk(s)   == \A n \in DOMAIN s : IsPolicy(s[n])
PastOk(p)     == DOMAIN p = Policies!Names /\ \A n \in Policies!Names : \A v \in p[n] : IsPolicy(v)
DialogOk(d)   == /\ d = [f \in {"tab", "row", "base", "ask", "fresh", "actions", "type", "text"} |-> d[f]]
                 /\ d.fresh \in BOOLEAN
                 /\ d.tab \in {"details", "edit"} => d.row # {} /\ \A q, r \in d.row : q = r
UsedOk(u)     == /\ u = [c \in {"edits", "changes", "others", "faults"} |-> u[c]]
                 /\ \A c \in {"edits", "changes", "others", "faults"} : u[c] \in Nat
CallsOk(js, n) == (\A j \in js : IsPolicyCall(j) /\ j.id <= n) /\ \A j, k \in js : j.id = k.id => j = k
NoticesOk(ts) == \A t \in ts : IsNotice(t)
OffForm(things) == \A x \in things : x.form # "edit"

PolicyTypes ==
    /\ ServerOk(policyServer) /\ PastOk(past) /\ DialogOk(policyDialog) /\ UsedOk(used)
    /\ DOMAIN latest = PolicyHooks /\ CallsOk(jobs, used.changes) /\ NoticesOk(toasts)
    /\ policyDialog.tab # "edit" => OffForm(jobs) /\ OffForm(toasts)
    /\ deleting # {} => policyDialog.tab = "none"

\* The editor is open and its row was fresh.  What is under way is its own, and
\* each call is the latest of its hook.
Mounted(d, u) == d.tab = "edit" /\ d.fresh /\ u.others = 0 /\ u.faults = 0
OwnCalls(r, srv, js, last, ts) ==
    /\ r.name \in DOMAIN srv
    /\ \A j \in js :
        /\ j.hook \in {"status", "actions", "save"}
        /\ j.hook # "status" => j.name = r.name /\ last[j.hook] = j.id
        /\ j.hook = "actions" => j.form = "edit"
    /\ \A t \in ts : t.form = "edit" => t.hook = "actions" /\ t.name = r.name

\* A save that went through: its callback will close the editor.
Saved(js) == \E j \in js : j.hook = "save" /\ j.at = "answered" /\ j.ok

\* The server takes a change to a from s; the form goes back to s.
Lawful(a, s)    == a # {} /\ a \cup s \subseteq Grantable
Back(fields, s) == fields # {} /\ \A f \in fields : f.actions = s

\* The form has what the server has, or will have it, or goes back to it.
CallTrue(j, s, shows) ==
    /\ j.to.actions = shows
    /\ j.at = "sent" => /\ Back(j.fail, s) \/ Lawful(shows, s)
                        /\ \A u \in j.undo : u.to.actions = s /\ u.now.actions = s
    /\ j.at = "answered" /\ j.ok =>
            shows = s /\ \A u \in j.undo : Lawful(u.to.actions, s) /\ u.now.actions = u.to.actions
    /\ j.at = "answered" /\ ~j.ok => Back(j.fail, s)
NoticeTrue(t, s) == Lawful(t.undo.to.actions, s) /\ t.undo.now.actions = t.undo.to.actions
FormTrue(s, shows, js, ts) ==
    /\ (\A j \in js : j.hook # "actions") => shows = s
    /\ \A j \in js : j.hook = "actions" => CallTrue(j, s, shows)
    /\ \A t \in ts : t.form = "edit" => NoticeTrue(t, s)

FormOk(srv, d, js, last, ts, u) ==
    Mounted(d, u) => \A r \in d.row :
        /\ OwnCalls(r, srv, js, last, ts)
        /\ ~Saved(js) => FormTrue(srv[r.name].actions, d.actions, js, ts)
FormInv == PolicyTypes /\ FormOk(policyServer, policyDialog, jobs, latest, toasts, used)

LEMMA OverFields ==
  ASSUME NEW s, NEW d
  PROVE  /\ DOMAIN Policies!Over(s, d) = DOMAIN s \cup DOMAIN d
         /\ \A f \in DOMAIN s : Policies!Over(s, d)[f] = s[f]
         /\ \A f \in DOMAIN d : f \notin DOMAIN s => Policies!Over(s, d)[f] = d[f]
         /\ Policies!Over(s, d) = [f \in DOMAIN s \cup DOMAIN d |-> Policies!Over(s, d)[f]]
  BY DEF Policies!Over

LEMMA FormInit == Policies!Init => FormInv
  <1> SUFFICES ASSUME Policies!Init PROVE FormInv
    OBVIOUS
  <1>1. /\ policyServer = StartPolicies /\ past = [n \in Policies!Names |-> {}] /\ policyDialog = Policies!NoDialog
        /\ jobs = {} /\ toasts = {} /\ deleting = {}
        /\ latest = [h \in {"create", "save", "actions", "status", "delete", "rollback"} |-> 0]
        /\ used = [edits |-> 0, changes |-> 0, others |-> 0, faults |-> 0]
    BY DEF Policies!Init
  <1>2. DialogOk(policyDialog) /\ policyDialog.tab = "none"
    BY <1>1 DEF DialogOk, Policies!NoDialog
  <1>3. ServerOk(policyServer) /\ PastOk(past)
    BY <1>1, StartAssumption DEF ServerOk, PastOk, IsPolicy
  <1>4. UsedOk(used) /\ DOMAIN latest = PolicyHooks
    BY <1>1 DEF UsedOk, PolicyHooks
  <1>5. CallsOk(jobs, used.changes) /\ NoticesOk(toasts) /\ OffForm(jobs) /\ OffForm(toasts)
    BY <1>1 DEF CallsOk, NoticesOk, OffForm
  <1>6. PolicyTypes
    BY <1>1, <1>2, <1>3, <1>4, <1>5 DEF PolicyTypes
  <1> QED
    BY <1>2, <1>6 DEF FormInv, FormOk, Mounted

\* Counting a step.
LEMMA StepCounts ==
  ASSUME UsedOk(used), NEW what \in {"edits", "changes", "others", "faults"}, Policies!Step(what)
  PROVE  /\ UsedOk(used') /\ used'.changes \in Nat /\ used.changes \in Nat
         /\ used'[what] = used[what] + 1
         /\ \A c \in {"edits", "changes", "others", "faults"} : c # what => used'[c] = used[c]
         /\ used'.changes >= used.changes
         /\ used'.others = 0 => used.others = 0
         /\ used'.faults = 0 => used.faults = 0
  <1>1. used' = [used EXCEPT ![what] = @ + 1]
    BY DEF Policies!Step
  <1>2. DOMAIN used = {"edits", "changes", "others", "faults"}
    BY DEF UsedOk
  <1>3. \A c \in {"edits", "changes", "others", "faults"} : used[c] \in Nat
    BY DEF UsedOk
  <1>4. /\ used'[what] = used[what] + 1
        /\ \A c \in {"edits", "changes", "others", "faults"} : c # what => used'[c] = used[c]
        /\ DOMAIN used' = {"edits", "changes", "others", "faults"}
    BY <1>1, <1>2
  <1>5. used' = [c \in {"edits", "changes", "others", "faults"} |-> used'[c]]
    BY <1>1, <1>2
  <1>6. \A c \in {"edits", "changes", "others", "faults"} : used'[c] \in Nat /\ used'[c] >= used[c]
    BY <1>3, <1>4
  <1>7. UsedOk(used')
    BY <1>5, <1>6 DEF UsedOk
  <1> QED
    BY <1>3, <1>4, <1>6, <1>7

\* What loses the editor keeps all else.
LEMMA UnmountedCalls ==
  ASSUME NEW js, NEW n, CallsOk(js, n)
  PROVE  /\ CallsOk(Policies!Unmounted(js), n) /\ OffForm(Policies!Unmounted(js))
  <1> DEFINE U(j) == [j EXCEPT !.form = IF @ = "edit" THEN "gone" ELSE @]
  <1>1. \A x : x \in Policies!Unmounted(js) <=> \E j \in js : x = U(j)
    BY DEF Policies!Unmounted
  <1>2. ASSUME NEW j \in js
        PROVE  IsPolicyCall(U(j)) /\ U(j).id = j.id /\ U(j).id <= n /\ U(j).form # "edit"
    <2>1. IsPolicyCall(j) /\ j.id <= n
      BY DEF CallsOk
    <2>2. DOMAIN j = {"id", "hook", "name", "to", "at", "ok", "form", "undo", "fail"}
      BY <2>1 DEF IsPolicyCall
    <2> DEFINE k == U(j)
    <2>3. /\ k = [f \in {"id", "hook", "name", "to", "at", "ok", "form", "undo", "fail"} |-> k[f]]
          /\ k.id = j.id /\ k.hook = j.hook /\ k.to = j.to /\ k.at = j.at /\ k.ok = j.ok /\ k.undo = j.undo
          /\ k.fail = j.fail /\ k.form # "edit"
      BY <2>2
    <2> HIDE DEF k
    <2>4. IsPolicyCall(k)
      BY <2>1, <2>3 DEF IsPolicyCall
    <2> QED
      BY <2>1, <2>3, <2>4 DEF k
  <1>3. \A j, k \in js : U(j).id = U(k).id => U(j) = U(k)
    <2>1. SUFFICES ASSUME NEW j \in js, NEW k \in js, U(j).id = U(k).id PROVE j = k
      OBVIOUS
    <2>2. j.id = k.id
      BY <1>2, <2>1
    <2> QED
      BY <2>2 DEF CallsOk
  <1> HIDE DEF U
  <1> QED
    BY <1>1, <1>2, <1>3 DEF CallsOk, OffForm

LEMMA UnmountedNotices ==
  ASSUME NEW ts, NoticesOk(ts)
  PROVE  NoticesOk(Policies!Unmounted(ts)) /\ OffForm(Policies!Unmounted(ts))
  <1> DEFINE U(t) == [t EXCEPT !.form = IF @ = "edit" THEN "gone" ELSE @]
  <1>1. \A x : x \in Policies!Unmounted(ts) <=> \E t \in ts : x = U(t)
    BY DEF Policies!Unmounted
  <1>2. ASSUME NEW t \in ts
        PROVE  IsNotice(U(t)) /\ U(t).form # "edit"
    <2>1. IsNotice(t)
      BY DEF NoticesOk
    <2>2. DOMAIN t = {"id", "hook", "name", "undo", "form"}
      BY <2>1 DEF IsNotice
    <2> DEFINE k == U(t)
    <2>3. /\ k = [f \in {"id", "hook", "name", "undo", "form"} |-> k[f]]
          /\ k.hook = t.hook /\ k.undo = t.undo /\ k.form # "edit"
      BY <2>2
    <2> HIDE DEF k
    <2>4. IsNotice(k)
      BY <2>1, <2>3 DEF IsNotice
    <2> QED
      BY <2>3, <2>4 DEF k
  <1> HIDE DEF U
  <1> QED
    BY <1>1, <1>2 DEF NoticesOk, OffForm

\* A step that at most counts, and takes toasts away.
LEMMA QuietStep ==
  ASSUME FormInv, UNCHANGED <<policyServer, past, policyDialog, jobs, latest>>, toasts' \subseteq toasts,
         used' = used \/ \E what \in {"edits", "faults"} : Policies!Step(what),
         deleting' # {} => deleting # {} \/ policyDialog.tab = "none"
  PROVE  FormInv'
  <1>1. /\ UsedOk(used') /\ used'.changes = used.changes
        /\ (used'.others = 0 => used.others = 0) /\ (used'.faults = 0 => used.faults = 0)
    <2>1. CASE used' = used
      BY <2>1 DEF FormInv, PolicyTypes
    <2>2. CASE \E what \in {"edits", "faults"} : Policies!Step(what)
      <3>1. PICK what \in {"edits", "faults"} : Policies!Step(what)
        BY <2>2
      <3> QED
        BY <3>1, StepCounts DEF FormInv, PolicyTypes
    <2> QED
      BY <2>1, <2>2
  <1>2. PolicyTypes'
    BY <1>1 DEF FormInv, PolicyTypes, NoticesOk, OffForm
  <1>3. Mounted(policyDialog', used') => Mounted(policyDialog, used)
    BY <1>1 DEF Mounted
  <1>4. FormOk(policyServer', policyDialog', jobs', latest', toasts', used')
    <2>1. SUFFICES ASSUME Mounted(policyDialog', used'), NEW r \in policyDialog'.row
                   PROVE  /\ OwnCalls(r, policyServer', jobs', latest', toasts')
                          /\ ~Saved(jobs') => FormTrue(policyServer'[r.name].actions, policyDialog'.actions, jobs', toasts')
      BY DEF FormOk
    <2>2. /\ OwnCalls(r, policyServer, jobs, latest, toasts)
          /\ ~Saved(jobs) => FormTrue(policyServer[r.name].actions, policyDialog.actions, jobs, toasts)
      BY <1>3, <2>1 DEF FormInv, FormOk
    <2>3. OwnCalls(r, policyServer', jobs', latest', toasts')
      BY <2>2 DEF OwnCalls
    <2>4. ~Saved(jobs') => FormTrue(policyServer'[r.name].actions, policyDialog'.actions, jobs', toasts')
      BY <2>2 DEF FormTrue
    <2> QED
      BY <2>3, <2>4
  <1> QED
    BY <1>2, <1>4 DEF FormInv

\* Another dialog is shown, or none.
LEMMA ShowTypes ==
  ASSUME PolicyTypes, NEW d, DialogOk(d), d.tab = "edit" => policyDialog.tab # "edit", Policies!Show(d),
         UNCHANGED <<policyServer, past, used, deleting>>, DOMAIN latest' = PolicyHooks,
         deleting # {} => d.tab = "none"
  PROVE  /\ PolicyTypes' /\ policyDialog' = d
         /\ d.tab = "edit" => jobs' = jobs /\ toasts' = toasts /\ OffForm(jobs) /\ OffForm(toasts)
  <1>1. /\ policyDialog' = d
        /\ toasts' = (IF policyDialog.tab = "edit" THEN Policies!Unmounted(toasts) ELSE toasts)
        /\ jobs' = (IF policyDialog.tab = "edit" THEN Policies!Unmounted(jobs) ELSE jobs)
    BY DEF Policies!Show
  <1>2. CallsOk(jobs', used.changes) /\ NoticesOk(toasts') /\ OffForm(jobs') /\ OffForm(toasts')
    <2>1. CASE policyDialog.tab = "edit"
      BY <1>1, <2>1, UnmountedCalls, UnmountedNotices DEF PolicyTypes
    <2>2. CASE policyDialog.tab # "edit"
      BY <1>1, <2>2 DEF PolicyTypes
    <2> QED
      BY <2>1, <2>2
  <1>3. PolicyTypes'
    BY <1>1, <1>2 DEF PolicyTypes
  <1> QED
    BY <1>1, <1>2, <1>3 DEF PolicyTypes

LEMMA ShutForm ==
  ASSUME PolicyTypes, Policies!Show(Policies!NoDialog), UNCHANGED <<policyServer, past, used, deleting>>,
         DOMAIN latest' = PolicyHooks
  PROVE  FormInv'
  <1>1. PICK d : d = Policies!NoDialog
    OBVIOUS
  <1>2. DialogOk(d) /\ d.tab = "none"
    BY <1>1 DEF DialogOk, Policies!NoDialog
  <1>3. PolicyTypes' /\ policyDialog' = d
    BY <1>1, <1>2, ShowTypes
  <1> QED
    BY <1>2, <1>3 DEF FormInv, FormOk, Mounted

LEMMA OpensDialog ==
  ASSUME NEW tab, NEW row, tab \in {"details", "edit"} => row # {} /\ \A q, r \in row : q = r
  PROVE  /\ DialogOk(Policies!Opens(tab, row))
         /\ Policies!Opens(tab, row).tab = tab /\ Policies!Opens(tab, row).row = row
         /\ Policies!Opens(tab, row).fresh =>
                /\ \A j \in jobs : j.hook = "status"
                /\ \A r \in row : r.name \in DOMAIN policyServer /\ r.actions = policyServer[r.name].actions
         /\ tab = "edit" => \A r \in row : Policies!Opens(tab, row).actions = r.actions
  <1> DEFINE form == IF tab = "edit" THEN Policies!Fields(CHOOSE r \in row : TRUE) ELSE Policies!NoForm
             isFresh == /\ \A j \in jobs : j.hook = "status"
                        /\ \A r \in row : r.name \in DOMAIN policyServer /\ r.actions = policyServer[r.name].actions
             d == Policies!Opens(tab, row)
  <1>1. d = [tab |-> tab, row |-> row, base |-> form, ask |-> FALSE, fresh |-> isFresh,
             actions |-> form.actions, type |-> form.type, text |-> form.text]
    BY DEF Policies!Opens
  <1>2. isFresh \in BOOLEAN
    OBVIOUS
  <1>3. tab = "edit" => \A r \in row : form.actions = r.actions
    BY DEF Policies!Fields
  <1> HIDE DEF form, isFresh, d
  <1>4. DialogOk(d) /\ d.tab = tab /\ d.row = row /\ d.fresh = isFresh /\ d.actions = form.actions
    BY <1>1, <1>2 DEF DialogOk
  <1> QED
    BY <1>3, <1>4 DEF d, isFresh

\* The editor is mounted with the fields of its row.
LEMMA OpensForm ==
  ASSUME FormInv, NEW tab \in {"details", "edit", "create"}, NEW row,
         tab \in {"details", "edit"} => row # {} /\ \A q, r \in row : q = r,
         tab = "edit" => policyDialog.tab # "edit", Policies!Show(Policies!Opens(tab, row)), deleting = {},
         UNCHANGED <<policyServer, past, used, deleting, latest>>
  PROVE  FormInv'
  <1>1. PICK d : d = Policies!Opens(tab, row)
    OBVIOUS
  <1>2. /\ DialogOk(d) /\ d.tab = tab /\ d.row = row
        /\ d.fresh => /\ \A j \in jobs : j.hook = "status"
                      /\ \A r \in row : r.name \in DOMAIN policyServer /\ r.actions = policyServer[r.name].actions
        /\ tab = "edit" => \A r \in row : d.actions = r.actions
    BY <1>1, OpensDialog
  <1>3. /\ PolicyTypes' /\ policyDialog' = d
        /\ d.tab = "edit" => jobs' = jobs /\ toasts' = toasts /\ OffForm(jobs) /\ OffForm(toasts)
    <2>1. DOMAIN latest' = PolicyHooks /\ PolicyTypes
      BY DEF FormInv, PolicyTypes
    <2>2. Policies!Show(d)
      BY <1>1
    <2> QED
      BY <1>2, <2>1, <2>2, ShowTypes
  <1>4. FormOk(policyServer', policyDialog', jobs', latest', toasts', used')
    <2>1. SUFFICES ASSUME Mounted(d, used'), NEW r \in row
                   PROVE  /\ OwnCalls(r, policyServer', jobs', latest', toasts')
                          /\ ~Saved(jobs') => FormTrue(policyServer'[r.name].actions, d.actions, jobs', toasts')
      BY <1>2, <1>3 DEF FormOk
    <2>2. d.fresh /\ tab = "edit"
      BY <1>2, <2>1 DEF Mounted
    <2>3. OwnCalls(r, policyServer', jobs', latest', toasts')
      BY <1>2, <1>3, <2>2 DEF OwnCalls, OffForm
    <2>4. FormTrue(policyServer'[r.name].actions, d.actions, jobs', toasts')
      BY <1>2, <1>3, <2>1, <2>2 DEF FormTrue, OffForm
    <2> QED
      BY <2>3, <2>4
  <1> QED
    BY <1>3, <1>4 DEF FormInv

\* A change of the fields that leaves the actions alone.
LEMMA TouchedForm ==
  ASSUME FormInv, DialogOk(policyDialog'), policyDialog'.tab = policyDialog.tab, policyDialog'.row = policyDialog.row,
         policyDialog'.fresh = policyDialog.fresh, policyDialog'.actions = policyDialog.actions,
         UNCHANGED <<policyServer, past, deleting, jobs, latest, toasts>>,
         used' = used \/ Policies!Step("edits")
  PROVE  FormInv'
  <1>1. /\ UsedOk(used') /\ used'.changes = used.changes
        /\ used'.others = used.others /\ used'.faults = used.faults
    <2>1. CASE used' = used
      BY <2>1 DEF FormInv, PolicyTypes
    <2>2. CASE Policies!Step("edits")
      BY <2>2, StepCounts DEF FormInv, PolicyTypes
    <2> QED
      BY <2>1, <2>2
  <1>2. PolicyTypes'
    BY <1>1 DEF FormInv, PolicyTypes
  <1>3. FormOk(policyServer', policyDialog', jobs', latest', toasts', used')
    BY <1>1 DEF FormInv, FormOk, Mounted
  <1> QED
    BY <1>2, <1>3 DEF FormInv

LEMMA OverForm ==
  ASSUME NEW p, DialogOk(p), NEW f, IsFormSet(f), NEW d, d = Policies!Over(f, p)
  PROVE  DialogOk(d) /\ d.tab = p.tab /\ d.row = p.row /\ d.fresh = p.fresh /\ d.actions = f.actions
  <1>1. DOMAIN p = {"tab", "row", "base", "ask", "fresh", "actions", "type", "text"}
    BY DEF DialogOk
  <1>2. "actions" \in DOMAIN f /\ DOMAIN f \subseteq {"actions", "base", "type", "text"}
    BY DEF IsFormSet
  <1>3. /\ \A g \in DOMAIN f : d[g] = f[g]
        /\ \A g \in DOMAIN p : g \notin DOMAIN f => d[g] = p[g]
        /\ d = [g \in DOMAIN f \cup DOMAIN p |-> d[g]]
    BY DEF Policies!Over
  <1>4. {"tab", "row", "fresh"} \cap DOMAIN f = {}
    BY <1>2
  <1>5. d.tab = p.tab /\ d.row = p.row /\ d.fresh = p.fresh /\ d.actions = f.actions
    BY <1>1, <1>2, <1>3, <1>4
  <1>6. DOMAIN f \cup DOMAIN p = {"tab", "row", "base", "ask", "fresh", "actions", "type", "text"}
    BY <1>1, <1>2
  <1>7. d = [g \in {"tab", "row", "base", "ask", "fresh", "actions", "type", "text"} |-> d[g]]
    BY <1>3, <1>6
  <1>8. DialogOk(d)
    BY <1>5, <1>7 DEF DialogOk
  <1> QED
    BY <1>5, <1>8

FreshIf(p, b) == [p EXCEPT !.fresh = @ /\ b]

LEMMA Refreshed ==
  ASSUME NEW p, DialogOk(p), NEW b \in BOOLEAN, NEW d, d = FreshIf(p, b)
  PROVE  DialogOk(d) /\ d.tab = p.tab /\ d.row = p.row /\ (d.fresh => p.fresh /\ b) /\ d.actions = p.actions
  <1>1. DOMAIN p = {"tab", "row", "base", "ask", "fresh", "actions", "type", "text"} /\ p.fresh \in BOOLEAN
    BY DEF DialogOk
  <1>2. PICK c \in BOOLEAN : c = (p.fresh /\ b)
    OBVIOUS
  <1>3. d = [p EXCEPT !.fresh = c]
    BY <1>2 DEF FreshIf
  <1>4. /\ d = [g \in {"tab", "row", "base", "ask", "fresh", "actions", "type", "text"} |-> d[g]]
        /\ d.tab = p.tab /\ d.row = p.row /\ d.fresh = c /\ d.actions = p.actions
    BY <1>1, <1>3
  <1>5. DialogOk(d)
    BY <1>4 DEF DialogOk
  <1> QED
    BY <1>2, <1>4, <1>5

LEMMA SetForm ==
  ASSUME DialogOk(policyDialog), NEW form, NEW fields, \A f \in fields : IsFormSet(f)
  PROVE  LET d == Policies!Set(form, fields) IN
         /\ DialogOk(d) /\ d.tab = policyDialog.tab /\ d.row = policyDialog.row /\ d.fresh = policyDialog.fresh
         /\ fields = {} \/ policyDialog.tab # form => d = policyDialog
         /\ fields # {} /\ policyDialog.tab = form => \E f \in fields : d.actions = f.actions
  <1> DEFINE d == Policies!Set(form, fields)
  <1>1. CASE fields = {} \/ policyDialog.tab # form
    <2>1. d = policyDialog
      BY <1>1 DEF Policies!Set
    <2> HIDE DEF d
    <2>2. /\ DialogOk(d) /\ d.tab = policyDialog.tab /\ d.row = policyDialog.row /\ d.fresh = policyDialog.fresh
      BY <2>1
    <2>3. ~(fields # {} /\ policyDialog.tab = form)
      BY <1>1
    <2> QED
      BY <2>1, <2>2, <2>3 DEF d
  <1>2. CASE fields # {} /\ policyDialog.tab = form
    <2>1. PICK f \in fields : f = (CHOOSE s \in fields : TRUE)
      BY <1>2
    <2>2. d = Policies!Over(f, policyDialog)
      BY <1>2, <2>1 DEF Policies!Set
    <2>3. IsFormSet(f)
      BY <2>1
    <2>4. PICK p : p = policyDialog
      OBVIOUS
    <2>5. DialogOk(p) /\ d = Policies!Over(f, p)
      BY <2>2, <2>4
    <2> HIDE DEF d
    <2>6. /\ DialogOk(d) /\ d.tab = p.tab /\ d.row = p.row /\ d.fresh = p.fresh /\ d.actions = f.actions
      BY <2>3, <2>5, OverForm
    <2> QED
      BY <1>2, <2>1, <2>4, <2>6 DEF d
  <1> QED
    BY <1>1, <1>2

\* A call that is sent.
LEMMA SentCall ==
  ASSUME PolicyTypes, NEW j, IsPolicyCall(j), j.id = used.changes + 1, Policies!Mutate(j)
  PROVE  /\ UsedOk(used') /\ used'.others = used.others /\ used'.faults = used.faults
         /\ jobs' = jobs \cup {j} /\ CallsOk(jobs', used'.changes)
         /\ DOMAIN latest' = PolicyHooks /\ latest'[j.hook] = j.id
         /\ \A h \in PolicyHooks : h # j.hook => latest'[h] = latest[h]
  <1>1. Policies!Step("changes") /\ jobs' = jobs \cup {j} /\ latest' = [latest EXCEPT ![j.hook] = j.id]
    BY DEF Policies!Mutate
  <1>2. /\ UsedOk(used') /\ used'.others = used.others /\ used'.faults = used.faults
        /\ used'.changes = used.changes + 1 /\ used.changes \in Nat
    BY <1>1, StepCounts DEF PolicyTypes
  <1>3. CallsOk(jobs', used'.changes)
    <2>1. \A k \in jobs : IsPolicyCall(k) /\ k.id \in Nat /\ k.id <= used.changes
      BY DEF PolicyTypes, CallsOk, IsPolicyCall
    <2>2. \A k \in jobs' : IsPolicyCall(k) /\ k.id <= used'.changes
      BY <1>1, <1>2, <2>1
    <2>3. \A k, l \in jobs' : k.id = l.id => k = l
      BY <1>1, <1>2, <2>1 DEF PolicyTypes, CallsOk
    <2> QED
      BY <2>2, <2>3 DEF CallsOk
  <1>4. j.hook \in PolicyHooks /\ DOMAIN latest = PolicyHooks
    BY DEF IsPolicyCall, PolicyTypes
  <1> QED
    BY <1>1, <1>2, <1>3, <1>4

\* A call as it is sent, with what its callbacks set.
IsSent(j, id, hook, pname, to, form, undo, fail) ==
    /\ j = [f \in {"id", "hook", "name", "to", "at", "ok", "form", "undo", "fail"} |-> j[f]]
    /\ j.id = id /\ j.hook = hook /\ j.name = pname /\ j.to = to /\ j.at = "sent" /\ j.ok = TRUE
    /\ j.form = form /\ j.undo = undo /\ j.fail = fail
WithUndo(j, undo)          == [j EXCEPT !.undo = undo]
OfForm(j, form, fail)      == [j EXCEPT !.form = form, !.fail = fail]
OfClick(j, fail, undo)     == [j EXCEPT !.form = "edit", !.fail = fail, !.undo = undo]

LEMMA PlainCall ==
  ASSUME NEW hook, NEW pname, NEW to, NEW id, id = used.changes + 1, NEW j, j = Policies!Job(hook, pname, to)
  PROVE  IsSent(j, id, hook, pname, to, "gone", {}, {})
  BY DEF Policies!Job, IsSent

LEMMA DecoratedCall ==
  ASSUME NEW hook, NEW pname, NEW to, NEW id, NEW j, IsSent(j, id, hook, pname, to, "gone", {}, {}),
         NEW form, NEW undo, NEW fail
  PROVE  /\ IsSent(WithUndo(j, undo), id, hook, pname, to, "gone", undo, {})
         /\ IsSent(OfForm(j, form, fail), id, hook, pname, to, form, {}, fail)
         /\ IsSent(OfClick(j, fail, undo), id, hook, pname, to, "edit", undo, fail)
  <1>1. DOMAIN j = {"id", "hook", "name", "to", "at", "ok", "form", "undo", "fail"}
    BY DEF IsSent
  <1>2. IsSent(WithUndo(j, undo), id, hook, pname, to, "gone", undo, {})
    <2>1. PICK k : k = [j EXCEPT !.undo = undo]
      OBVIOUS
    <2>2. IsSent(k, id, hook, pname, to, "gone", undo, {})
      BY <1>1, <2>1 DEF IsSent
    <2> QED
      BY <2>1, <2>2 DEF WithUndo
  <1>3. IsSent(OfForm(j, form, fail), id, hook, pname, to, form, {}, fail)
    <2>1. PICK k : k = [j EXCEPT !.form = form, !.fail = fail]
      OBVIOUS
    <2>2. IsSent(k, id, hook, pname, to, form, {}, fail)
      BY <1>1, <2>1 DEF IsSent
    <2> QED
      BY <2>1, <2>2 DEF OfForm
  <1>4. IsSent(OfClick(j, fail, undo), id, hook, pname, to, "edit", undo, fail)
    <2>1. PICK k : k = [j EXCEPT !.form = "edit", !.fail = fail, !.undo = undo]
      OBVIOUS
    <2>2. IsSent(k, id, hook, pname, to, "edit", undo, fail)
      BY <1>1, <2>1 DEF IsSent
    <2> QED
      BY <2>1, <2>2 DEF OfClick
  <1> QED
    BY <1>2, <1>3, <1>4

LEMMA SentIsCall ==
  ASSUME NEW hook \in PolicyHooks, NEW pname, NEW to, NEW id \in Nat, NEW form, NEW undo, NEW fail, NEW j,
         IsSent(j, id, hook, pname, to, form, undo, fail),
         hook = "create" => DOMAIN to = {"actions", "type", "text"} /\ to.actions # {},
         hook \in {"save", "rollback"} => DOMAIN to \subseteq {"active", "actions", "type", "text"},
         hook = "status" => DOMAIN to = {"active"},
         hook = "actions" => DOMAIN to = {"actions"},
         hook # "actions" => form # "edit",
         \A f \in fail : IsFormSet(f), \A u \in undo : IsFormUndo(hook, u)
  PROVE  IsPolicyCall(j)
  <1>1. /\ j = [f \in {"id", "hook", "name", "to", "at", "ok", "form", "undo", "fail"} |-> j[f]]
        /\ j.id = id /\ j.hook = hook /\ j.to = to /\ j.at = "sent" /\ j.ok = TRUE
        /\ j.form = form /\ j.undo = undo /\ j.fail = fail
    BY DEF IsSent
  <1> QED
    BY <1>1 DEF IsPolicyCall

\* A call is sent with no editor open.
LEMMA OtherSent ==
  ASSUME FormInv, NEW j, IsPolicyCall(j), j.id = used.changes + 1, j.form # "edit", Policies!Mutate(j),
         UNCHANGED <<policyServer, past, deleting>>, toasts' \subseteq toasts, policyDialog.tab # "edit",
         DialogOk(policyDialog'), policyDialog'.tab = policyDialog.tab
  PROVE  FormInv'
  <1>1. /\ UsedOk(used') /\ jobs' = jobs \cup {j} /\ CallsOk(jobs', used'.changes) /\ DOMAIN latest' = PolicyHooks
    BY SentCall DEF FormInv
  <1>2. PolicyTypes'
    BY <1>1 DEF FormInv, PolicyTypes, NoticesOk, OffForm
  <1> QED
    BY <1>2 DEF FormInv, FormOk, Mounted

\* A status is sent under an open editor, which it leaves alone.
LEMMA StatusSent ==
  ASSUME FormInv, NEW j, IsPolicyCall(j), j.id = used.changes + 1, j.hook = "status", Policies!Mutate(j),
         UNCHANGED <<policyServer, past, deleting>>, toasts' \subseteq toasts,
         policyDialog.tab = "edit", DialogOk(policyDialog'), policyDialog'.tab = policyDialog.tab,
         policyDialog'.row = policyDialog.row, policyDialog'.fresh => policyDialog.fresh,
         policyDialog'.actions = policyDialog.actions
  PROVE  FormInv'
  <1>1. /\ UsedOk(used') /\ jobs' = jobs \cup {j} /\ CallsOk(jobs', used'.changes) /\ DOMAIN latest' = PolicyHooks
        /\ used'.others = used.others /\ used'.faults = used.faults
        /\ \A h \in PolicyHooks : h # "status" => latest'[h] = latest[h]
    BY SentCall DEF FormInv
  <1>2. PolicyTypes'
    BY <1>1 DEF FormInv, PolicyTypes, NoticesOk
  <1>3. Mounted(policyDialog', used') => Mounted(policyDialog, used)
    BY <1>1 DEF Mounted
  <1>4. FormOk(policyServer', policyDialog', jobs', latest', toasts', used')
    <2>1. SUFFICES ASSUME Mounted(policyDialog', used'), NEW r \in policyDialog'.row
                   PROVE  /\ OwnCalls(r, policyServer', jobs', latest', toasts')
                          /\ ~Saved(jobs') => FormTrue(policyServer'[r.name].actions, policyDialog'.actions, jobs', toasts')
      BY DEF FormOk
    <2>2. /\ OwnCalls(r, policyServer, jobs, latest, toasts)
          /\ ~Saved(jobs) => FormTrue(policyServer[r.name].actions, policyDialog.actions, jobs, toasts)
      BY <1>3, <2>1 DEF FormInv, FormOk
    <2>3. OwnCalls(r, policyServer', jobs', latest', toasts')
      BY <1>1, <2>2 DEF OwnCalls, PolicyHooks
    <2>4. Saved(jobs) => Saved(jobs')
      BY <1>1 DEF Saved
    <2>5. ~Saved(jobs') => FormTrue(policyServer'[r.name].actions, policyDialog'.actions, jobs', toasts')
      BY <1>1, <2>2, <2>4 DEF FormTrue
    <2> QED
      BY <2>3, <2>5
  <1> QED
    BY <1>2, <1>4 DEF FormInv

\* Actions are sent from an open editor, by a click or by an Undo.
LEMMA ActionsSent ==
  ASSUME FormInv, NEW j, IsPolicyCall(j), j.id = used.changes + 1, j.hook = "actions", j.at = "sent", Policies!Mutate(j),
         UNCHANGED <<policyServer, past, deleting>>, toasts' \subseteq toasts,
         policyDialog.tab = "edit", DialogOk(policyDialog'), policyDialog'.tab = policyDialog.tab,
         policyDialog'.row = policyDialog.row,
         policyDialog'.fresh => policyDialog.fresh /\ j.form = "edit" /\ ~Policies!isPending("actions"),
         \A r \in policyDialog.row :
            /\ policyDialog'.fresh /\ OwnCalls(r, policyServer, jobs, latest, toasts) => j.name = r.name
            /\ policyDialog'.fresh /\ OwnCalls(r, policyServer, jobs, latest, toasts)
               /\ FormTrue(policyServer[r.name].actions, policyDialog.actions, jobs, toasts)
               /\ policyDialog.actions = policyServer[r.name].actions
               => CallTrue(j, policyServer[r.name].actions, policyDialog'.actions)
  PROVE  FormInv'
  <1>1. /\ UsedOk(used') /\ jobs' = jobs \cup {j} /\ CallsOk(jobs', used'.changes) /\ DOMAIN latest' = PolicyHooks
        /\ used'.others = used.others /\ used'.faults = used.faults
        /\ latest'["actions"] = j.id /\ \A h \in PolicyHooks : h # "actions" => latest'[h] = latest[h]
    BY SentCall DEF FormInv
  <1>2. PolicyTypes'
    BY <1>1 DEF FormInv, PolicyTypes, NoticesOk
  <1>3. FormOk(policyServer', policyDialog', jobs', latest', toasts', used')
    <2>1. SUFFICES ASSUME Mounted(policyDialog', used'), NEW r \in policyDialog'.row
                   PROVE  /\ OwnCalls(r, policyServer', jobs', latest', toasts')
                          /\ ~Saved(jobs') => FormTrue(policyServer'[r.name].actions, policyDialog'.actions, jobs', toasts')
      BY DEF FormOk
    <2>2. policyDialog'.fresh /\ Mounted(policyDialog, used)
      BY <1>1, <2>1 DEF Mounted
    <2>3. /\ OwnCalls(r, policyServer, jobs, latest, toasts)
          /\ ~Saved(jobs) => FormTrue(policyServer[r.name].actions, policyDialog.actions, jobs, toasts)
      BY <2>1, <2>2 DEF FormInv, FormOk
    <2>4. \A k \in jobs : k.hook # "actions"
      BY <2>2, <2>3 DEF OwnCalls, Policies!isPending
    <2>5. j.name = r.name /\ j.form = "edit" /\ r \in policyDialog.row
      BY <2>1, <2>2, <2>3
    <2>6. OwnCalls(r, policyServer', jobs', latest', toasts')
      BY <1>1, <2>3, <2>4, <2>5 DEF OwnCalls, PolicyHooks
    <2>7. Saved(jobs) => Saved(jobs')
      BY <1>1 DEF Saved
    <2>8. ~Saved(jobs') => FormTrue(policyServer'[r.name].actions, policyDialog'.actions, jobs', toasts')
      <3>1. SUFFICES ASSUME ~Saved(jobs')
                     PROVE  FormTrue(policyServer'[r.name].actions, policyDialog'.actions, jobs', toasts')
        OBVIOUS
      <3>2. FormTrue(policyServer[r.name].actions, policyDialog.actions, jobs, toasts)
        BY <2>3, <2>7, <3>1
      <3>3. policyDialog.actions = policyServer[r.name].actions
        BY <2>4, <3>2 DEF FormTrue
      <3>4. CallTrue(j, policyServer[r.name].actions, policyDialog'.actions)
        BY <2>2, <2>3, <2>5, <3>2, <3>3
      <3> QED
        BY <1>1, <2>4, <3>2, <3>4 DEF FormTrue
    <2> QED
      BY <2>6, <2>8
  <1> QED
    BY <1>2, <1>3 DEF FormInv

\* A click in the grid of an open editor.
LEMMA ClickSends ==
  ASSUME FormInv, NEW a, Policies!handleActionsChange(a)
  PROVE  FormInv'
  <1>1. PICK next, now, b : /\ next = Policies!toggle(policyDialog.actions, a) /\ now = policyDialog.actions
                            /\ b \in BOOLEAN /\ b = ~Policies!isPending("actions")
    OBVIOUS
  <1> DEFINE set  == [Policies!Fields(policyDialog) EXCEPT !.actions = next]
             back == [actions |-> now, base |-> policyDialog.base]
             on   == [actions |-> next, base |-> set]
             undo == [to |-> [actions |-> now], now |-> back, fail |-> {on}]
             p    == [policyDialog EXCEPT !.fresh = @ /\ b]
  <1>2. /\ Policies!Editing /\ policyDialog' = Policies!Over(on, p)
        /\ IF policyDialog.tab = "create"
           THEN UNCHANGED <<jobs, latest, used>>
           ELSE \E r \in policyDialog.row :
                Policies!Mutate([Policies!Job("actions", r.name, [actions |-> next]) EXCEPT
                    !.form = "edit", !.fail = {back}, !.undo = {undo}])
        /\ UNCHANGED <<policyServer, past, deleting, toasts>>
    BY <1>1 DEF Policies!handleActionsChange, Policies!offForm
  <1>3. PICK Back1, On1, Undo1, P1 : Back1 = back /\ On1 = on /\ Undo1 = undo /\ P1 = p
    OBVIOUS
  <1>4. /\ IsFormSet(Back1) /\ Back1.actions = now /\ IsFormSet(On1) /\ On1.actions = next
        /\ DOMAIN Undo1.to = {"actions"} /\ Undo1.to.actions = now /\ Undo1.now = Back1 /\ Undo1.fail = {On1}
    BY <1>3 DEF IsFormSet
  <1>5. DialogOk(P1) /\ P1.tab = policyDialog.tab /\ P1.row = policyDialog.row /\ (P1.fresh => policyDialog.fresh /\ b)
    <2>1. PICK d : d = policyDialog /\ DialogOk(d)
      BY DEF FormInv, PolicyTypes
    <2>2. P1 = FreshIf(d, b)
      BY <1>3, <2>1 DEF FreshIf
    <2> QED
      BY <1>1, <2>1, <2>2, Refreshed
  <1>6. /\ DialogOk(policyDialog') /\ policyDialog'.tab = policyDialog.tab /\ policyDialog'.row = policyDialog.row
        /\ policyDialog'.fresh => policyDialog.fresh /\ b
        /\ policyDialog'.actions = next
    <2>1. PICK d : d = Policies!Over(On1, P1) /\ d = policyDialog'
      BY <1>2, <1>3
    <2>2. IsFormSet(On1) /\ DialogOk(P1) /\ d = Policies!Over(On1, P1)
      BY <1>4, <1>5, <2>1
    <2>3. DialogOk(d) /\ d.tab = P1.tab /\ d.row = P1.row /\ d.fresh = P1.fresh /\ d.actions = On1.actions
      BY <2>2, OverForm
    <2> QED
      BY <1>4, <1>5, <2>1, <2>3
  <1>7. CASE policyDialog.tab = "create"
    <2>1. PolicyTypes'
      BY <1>2, <1>6, <1>7 DEF FormInv, PolicyTypes
    <2> QED
      BY <1>6, <1>7, <2>1 DEF FormInv, FormOk, Mounted
  <1>8. CASE policyDialog.tab = "edit"
    <2>1. PICK r \in policyDialog.row :
            Policies!Mutate([Policies!Job("actions", r.name, [actions |-> next]) EXCEPT
                    !.form = "edit", !.fail = {Back1}, !.undo = {Undo1}])
      BY <1>2, <1>3, <1>8
    <2>2. PICK j : j = [Policies!Job("actions", r.name, [actions |-> next]) EXCEPT
                    !.form = "edit", !.fail = {Back1}, !.undo = {Undo1}]
      OBVIOUS
    <2>3. PICK id : id = used.changes + 1 /\ id \in Nat
      BY DEF FormInv, PolicyTypes, UsedOk
    <2>4. PICK k, to : to = [actions |-> next] /\ k = Policies!Job("actions", r.name, to)
      OBVIOUS
    <2>5. IsSent(j, id, "actions", r.name, to, "edit", {Undo1}, {Back1})
      <3>1. PICK pname : pname = r.name
        OBVIOUS
      <3>2. IsSent(k, id, "actions", pname, to, "gone", {}, {})
        BY <2>3, <2>4, <3>1, PlainCall
      <3>3. PICK U, F : U = {Undo1} /\ F = {Back1}
        OBVIOUS
      <3>4. IsSent(OfClick(k, F, U), id, "actions", pname, to, "edit", U, F)
        BY <3>2, DecoratedCall
      <3>5. j = OfClick(k, F, U)
        BY <2>2, <2>4, <3>3 DEF OfClick
      <3> QED
        BY <3>1, <3>3, <3>4, <3>5
    <2>6. IsPolicyCall(j)
      <3>1. IsFormUndo("actions", Undo1)
        BY <1>4 DEF IsFormUndo
      <3>2. DOMAIN to = {"actions"} /\ "actions" \in PolicyHooks
        BY <2>4 DEF PolicyHooks
      <3>3. \A f \in {Back1} : IsFormSet(f)
        BY <1>4
      <3>4. \A u \in {Undo1} : IsFormUndo("actions", u)
        BY <3>1
      <3>5. /\ j = [f \in {"id", "hook", "name", "to", "at", "ok", "form", "undo", "fail"} |-> j[f]]
            /\ j.id = id /\ j.hook = "actions" /\ j.to = to /\ j.at = "sent" /\ j.ok = TRUE
            /\ j.undo = {Undo1} /\ j.fail = {Back1}
        BY <2>5 DEF IsSent
      <3>6. \A u \in j.undo : IsFormUndo(j.hook, u)
        BY <3>4, <3>5
      <3> QED
        BY <2>3, <3>2, <3>3, <3>5, <3>6 DEF IsPolicyCall
    <2>7. /\ j.to.actions = next /\ j.id = used.changes + 1 /\ j.hook = "actions" /\ j.at = "sent" /\ j.name = r.name
          /\ j.form = "edit" /\ j.undo = {Undo1} /\ j.fail = {Back1}
      BY <2>3, <2>4, <2>5 DEF IsSent
    <2>8. \A q \in policyDialog.row : q = r
      BY <1>8 DEF FormInv, PolicyTypes, DialogOk
    <2>9. policyDialog.actions = policyServer[r.name].actions
            => CallTrue(j, policyServer[r.name].actions, policyDialog'.actions)
      BY <1>1, <1>4, <1>6, <2>7 DEF CallTrue, Back
    <2>10. Policies!Mutate(j)
      BY <2>1, <2>2
    <2>11. policyDialog'.fresh => policyDialog.fresh /\ j.form = "edit" /\ ~Policies!isPending("actions")
      BY <1>1, <1>6, <2>7
    <2> QED
      BY <1>2, <1>6, <1>8, <2>6, <2>7, <2>8, <2>9, <2>10, <2>11, ActionsSent
  <1> QED
    BY <1>2, <1>7, <1>8 DEF Policies!Editing

LEMMA QuietSteps ==
  ASSUME FormInv,
         \/ \E f \in Policies!Filters : \/ Policies!setFilter(f) \/ Policies!ServerLists(f) \/ Policies!ReceiveList(f)
                                        \/ Policies!ListFails(f)
         \/ \E r \in Policies!Cards : Policies!setDeletingPolicy(r)
         \/ \E t \in toasts : Policies!ToastEnds(t)
         \/ Policies!CancelDelete \/ Policies!Retry
         \/ \E n \in Policies!Names : Policies!HoldersArrive(n)
  PROVE  FormInv'
  <1> DEFINE G == /\ UNCHANGED <<policyServer, past, policyDialog, jobs, latest>> /\ toasts' \subseteq toasts
                  /\ used' = used \/ \E what \in {"edits", "faults"} : Policies!Step(what)
                  /\ deleting' # {} => deleting # {} \/ policyDialog.tab = "none"
  <1>1. ASSUME NEW f \in Policies!Filters,
               \/ Policies!setFilter(f) \/ Policies!ServerLists(f) \/ Policies!ReceiveList(f) \/ Policies!ListFails(f)
        PROVE  G
    BY <1>1 DEF Policies!setFilter, Policies!ServerLists, Policies!ReceiveList, Policies!ListFails, Policies!offQueries
  <1>2. ASSUME NEW r \in Policies!Cards, Policies!setDeletingPolicy(r) PROVE G
    BY <1>2 DEF Policies!setDeletingPolicy, Policies!Free, Policies!NoDialog
  <1>3. ASSUME NEW t \in toasts, Policies!ToastEnds(t) PROVE G
    BY <1>3 DEF Policies!ToastEnds, Policies!offForm
  <1>4. CASE Policies!CancelDelete
    <2>1. G
      BY <1>4 DEF Policies!CancelDelete
    <2> QED
      BY <2>1, QuietStep
  <1>5. CASE Policies!Retry
    <2>1. G
      BY <1>5 DEF Policies!Retry, Policies!offQueries
    <2> QED
      BY <2>1, QuietStep
  <1>6. ASSUME NEW n \in Policies!Names, Policies!HoldersArrive(n) PROVE G
    BY <1>6 DEF Policies!HoldersArrive, Policies!offQueries
  <1>7. CASE G
    BY <1>7, QuietStep
  <1> HIDE DEF G
  <1> QED
    BY <1>1, <1>2, <1>3, <1>4, <1>5, <1>6, <1>7

\* What opens, closes or touches a form and sends nothing.
LEMMA ShowSteps ==
  ASSUME FormInv,
         \/ Policies!openCreateForm
         \/ \E r \in Policies!Cards : Policies!openView(r) \/ Policies!openEditForm(r)
         \/ Policies!setActiveTab
  PROVE  FormInv'
  <1>1. CASE Policies!openCreateForm
    <2>1. PICK row : row = {}
      OBVIOUS
    <2>2. /\ Policies!Show(Policies!Opens("create", row)) /\ deleting = {}
          /\ UNCHANGED <<policyServer, past, used, deleting, latest>>
      BY <1>1, <2>1 DEF Policies!openCreateForm, Policies!Free, Policies!offForm
    <2> QED
      BY <2>2, OpensForm
  <1>2. ASSUME NEW r \in Policies!Cards, Policies!openView(r) PROVE FormInv'
    <2>1. PICK row : row = {r}
      OBVIOUS
    <2>2. /\ Policies!Show(Policies!Opens("details", row)) /\ deleting = {} /\ row # {} /\ (\A p, q \in row : p = q)
          /\ UNCHANGED <<policyServer, past, used, deleting, latest>>
      BY <1>2, <2>1 DEF Policies!openView, Policies!Free, Policies!offForm
    <2> QED
      BY <2>2, OpensForm
  <1>3. ASSUME NEW r \in Policies!Cards, Policies!openEditForm(r) PROVE FormInv'
    <2>1. PICK row : row = {r}
      OBVIOUS
    <2>2. /\ Policies!Show(Policies!Opens("edit", row)) /\ deleting = {} /\ row # {} /\ (\A p, q \in row : p = q)
          /\ UNCHANGED <<policyServer, past, used, deleting, latest>> /\ policyDialog.tab # "edit"
      BY <1>3, <2>1 DEF Policies!openEditForm, Policies!Free, Policies!NoDialog, Policies!offForm
    <2> QED
      BY <2>2, OpensForm
  <1>4. CASE Policies!setActiveTab
    <2>1. PICK row, tab : row = policyDialog.row /\ tab = (IF policyDialog.tab = "edit" THEN "details" ELSE "edit")
      OBVIOUS
    <2>2. /\ Policies!Show(Policies!Opens(tab, row)) /\ tab \in {"details", "edit"}
          /\ policyDialog.tab \in {"details", "edit"}
          /\ UNCHANGED <<policyServer, past, used, deleting, latest>>
      BY <1>4, <2>1 DEF Policies!setActiveTab, Policies!offForm
    <2>3. /\ row # {} /\ (\A p, q \in row : p = q) /\ deleting = {} /\ (tab = "edit" => policyDialog.tab # "edit")
      BY <2>1, <2>2 DEF FormInv, PolicyTypes, DialogOk
    <2> QED
      BY <2>2, <2>3, OpensForm
  <1> QED
    BY <1>1, <1>2, <1>3, <1>4

LEMMA CloseSteps ==
  ASSUME FormInv, \/ Policies!CloseView \/ Policies!requestClose \/ Policies!DiscardConfirmed \/ Policies!DiscardCancelled
                  \/ \E x \in Texts : Policies!setText(x)
  PROVE  FormInv'
  <1>0. DialogOk(policyDialog) /\ PolicyTypes /\ DOMAIN latest = PolicyHooks
    BY DEF FormInv, PolicyTypes
  <1> DEFINE Shuts == /\ Policies!Show(Policies!NoDialog) /\ UNCHANGED <<policyServer, past, used, deleting>>
                      /\ DOMAIN latest' = PolicyHooks
             Touches == /\ DialogOk(policyDialog') /\ policyDialog'.tab = policyDialog.tab
                        /\ policyDialog'.row = policyDialog.row
                        /\ policyDialog'.fresh = policyDialog.fresh /\ policyDialog'.actions = policyDialog.actions
                        /\ UNCHANGED <<policyServer, past, deleting, jobs, latest, toasts>>
                        /\ used' = used \/ Policies!Step("edits")
  <1>1. CASE Shuts
    BY <1>0, <1>1, ShutForm
  <1>2. CASE Touches
    BY <1>2, TouchedForm
  <1>3. ASSUME latest' = Policies!Reset(latest) PROVE DOMAIN latest' = PolicyHooks
    BY <1>0, <1>3 DEF Policies!Reset
  <1>4. ASSUME NEW v, policyDialog' = [policyDialog EXCEPT !.ask = v] \/ policyDialog' = [policyDialog EXCEPT !.text = v]
        PROVE  /\ DialogOk(policyDialog') /\ policyDialog'.tab = policyDialog.tab /\ policyDialog'.row = policyDialog.row
               /\ policyDialog'.fresh = policyDialog.fresh /\ policyDialog'.actions = policyDialog.actions
    <2>1. PICK d, e : d = policyDialog /\ e = policyDialog'
      OBVIOUS
    <2>2. DOMAIN d = {"tab", "row", "base", "ask", "fresh", "actions", "type", "text"}
      BY <1>0, <2>1 DEF DialogOk
    <2>3. e = [d EXCEPT !.ask = v] \/ e = [d EXCEPT !.text = v]
      BY <1>4, <2>1
    <2>4. /\ e = [f \in {"tab", "row", "base", "ask", "fresh", "actions", "type", "text"} |-> e[f]]
          /\ e.tab = d.tab /\ e.row = d.row /\ e.fresh = d.fresh /\ e.actions = d.actions
      BY <2>2, <2>3
    <2>5. DialogOk(e)
      BY <1>0, <2>1, <2>4 DEF DialogOk
    <2> QED
      BY <2>1, <2>4, <2>5
  <1>5. CASE Policies!CloseView
    BY <1>0, <1>1, <1>5 DEF Policies!CloseView, Policies!offForm
  <1>6. CASE Policies!requestClose
    <2>1. CASE Policies!isDirty
      <3>1. /\ policyDialog' = [policyDialog EXCEPT !.ask = TRUE] /\ UNCHANGED <<jobs, toasts, latest>>
            /\ UNCHANGED <<policyServer, past, deleting, used>>
        BY <1>6, <2>1 DEF Policies!requestClose, Policies!offForm
      <3>2. Touches
        BY <1>4, <3>1
      <3> QED
        BY <1>2, <3>2
    <2>2. CASE ~Policies!isDirty
      BY <1>1, <1>3, <1>6, <2>2 DEF Policies!requestClose, Policies!closeForm, Policies!offForm
    <2> QED
      BY <2>1, <2>2
  <1>7. CASE Policies!DiscardConfirmed
    BY <1>1, <1>3, <1>7 DEF Policies!DiscardConfirmed, Policies!closeForm, Policies!offForm
  <1>8. CASE Policies!DiscardCancelled
    <2>1. /\ policyDialog' = [policyDialog EXCEPT !.ask = FALSE]
          /\ UNCHANGED <<policyServer, past, deleting, used, jobs, latest, toasts>>
      BY <1>8 DEF Policies!DiscardCancelled, Policies!offForm
    <2>2. Touches
      BY <1>4, <2>1
    <2> QED
      BY <1>2, <2>2
  <1>9. ASSUME NEW x \in Texts, Policies!setText(x) PROVE FormInv'
    <2>1. /\ policyDialog' = [policyDialog EXCEPT !.text = x]
          /\ UNCHANGED <<policyServer, past, deleting, jobs, latest, toasts>> /\ Policies!Step("edits")
      BY <1>9 DEF Policies!setText, Policies!offForm
    <2>2. Touches
      BY <1>4, <2>1
    <2> QED
      BY <1>2, <2>2
  <1> HIDE DEF Shuts, Touches
  <1> QED
    BY <1>5, <1>6, <1>7, <1>8, <1>9

\* The form is changed in ways that its invariant does not follow any more.
LEMMA TypeSteps ==
  ASSUME FormInv, NEW t, Policies!handleResourceTypeChange(t)
  PROVE  FormInv'
  <1>1. PICK d, kept, more : /\ d = policyDialog /\ kept = policyDialog.actions \cap Policies!ActionsOf(t)
                             /\ more = [actions |-> policyDialog.actions, type |-> policyDialog.type]
    OBVIOUS
  <1>2. /\ policyDialog' = [d EXCEPT !.type = t, !.actions = kept, !.fresh = FALSE]
        /\ \/ toasts' = toasts
           \/ toasts' = toasts \cup {Policies!Toast(100 + used.edits, "none", "", [now |-> more], d.tab)}
        /\ Policies!Step("edits") /\ UNCHANGED <<policyServer, past, deleting, jobs, latest>>
    BY <1>1 DEF Policies!handleResourceTypeChange, Policies!offForm
  <1>3. DialogOk(d) /\ DOMAIN d = {"tab", "row", "base", "ask", "fresh", "actions", "type", "text"}
    BY <1>1 DEF FormInv, PolicyTypes, DialogOk
  <1>4. DialogOk(policyDialog') /\ policyDialog'.tab = d.tab /\ policyDialog'.row = d.row /\ ~policyDialog'.fresh
    <2>1. PICK e : e = [d EXCEPT !.type = t, !.actions = kept, !.fresh = FALSE]
      OBVIOUS
    <2>2. /\ e = [f \in {"tab", "row", "base", "ask", "fresh", "actions", "type", "text"} |-> e[f]]
          /\ e.tab = d.tab /\ e.row = d.row /\ e.fresh = FALSE
      BY <1>3, <2>1
    <2>3. DialogOk(e)
      BY <1>3, <2>2 DEF DialogOk
    <2> QED
      BY <1>2, <2>1, <2>2, <2>3
  <1>5. ASSUME NEW x, x = Policies!Toast(100 + used.edits, "none", "", [now |-> more], d.tab)
        PROVE  IsNotice(x) /\ x.form = d.tab
    BY <1>1, <1>5 DEF Policies!Toast, IsNotice, IsFormSet
  <1>6. NoticesOk(toasts') /\ (d.tab # "edit" => OffForm(toasts'))
    BY <1>1, <1>2, <1>5 DEF FormInv, PolicyTypes, NoticesOk, OffForm
  <1>7. UsedOk(used') /\ used'.changes = used.changes
    BY <1>2, StepCounts DEF FormInv, PolicyTypes
  <1>8. PolicyTypes'
    BY <1>1, <1>2, <1>4, <1>6, <1>7 DEF FormInv, PolicyTypes
  <1> QED
    BY <1>4, <1>8 DEF FormInv, FormOk, Mounted

\* A call without callbacks of the form.
LEMMA BareCall ==
  ASSUME FormInv, NEW hook \in {"create", "save", "delete", "rollback"}, NEW pname, NEW to,
         hook = "create" => DOMAIN to = {"actions", "type", "text"} /\ to.actions # {},
         hook \in {"save", "rollback"} => DOMAIN to \subseteq {"active", "actions", "type", "text"},
         NEW j, j = Policies!Job(hook, pname, to)
  PROVE  /\ IsPolicyCall(j) /\ j.id = used.changes + 1 /\ j.hook = hook /\ j.name = pname /\ j.form # "edit"
         /\ j.at = "sent"
  <1>1. PICK id : id = used.changes + 1 /\ id \in Nat
    BY DEF FormInv, PolicyTypes, UsedOk
  <1>2. IsSent(j, id, hook, pname, to, "gone", {}, {})
    BY <1>1, PlainCall
  <1>3. /\ j = [f \in {"id", "hook", "name", "to", "at", "ok", "form", "undo", "fail"} |-> j[f]]
        /\ j.id = id /\ j.hook = hook /\ j.name = pname /\ j.to = to /\ j.at = "sent" /\ j.ok = TRUE
        /\ j.form = "gone" /\ j.undo = {} /\ j.fail = {}
    BY <1>2 DEF IsSent
  <1>4. IsPolicyCall(j)
    BY <1>1, <1>3 DEF IsPolicyCall, PolicyHooks
  <1> QED
    BY <1>1, <1>3, <1>4

\* Save of an open editor.
LEMMA SaveSent ==
  ASSUME FormInv, NEW j, IsPolicyCall(j), j.id = used.changes + 1, j.hook = "save", j.at = "sent", Policies!Mutate(j),
         j.form # "edit",
         UNCHANGED <<policyServer, past, deleting, toasts>>, policyDialog.tab = "edit",
         DialogOk(policyDialog'), policyDialog'.tab = policyDialog.tab, policyDialog'.row = policyDialog.row,
         policyDialog'.actions = policyDialog.actions, ~Policies!isPending("save"),
         policyDialog'.fresh => policyDialog.fresh /\ ~Policies!isPending("actions"),
         \A r \in policyDialog.row : j.name = r.name
  PROVE  FormInv'
  <1>1. /\ UsedOk(used') /\ jobs' = jobs \cup {j} /\ CallsOk(jobs', used'.changes) /\ DOMAIN latest' = PolicyHooks
        /\ used'.others = used.others /\ used'.faults = used.faults
        /\ latest'["save"] = j.id /\ \A h \in PolicyHooks : h # "save" => latest'[h] = latest[h]
    BY SentCall DEF FormInv
  <1>2. PolicyTypes'
    BY <1>1 DEF FormInv, PolicyTypes
  <1>3. FormOk(policyServer', policyDialog', jobs', latest', toasts', used')
    <2>1. SUFFICES ASSUME Mounted(policyDialog', used'), NEW r \in policyDialog'.row
                   PROVE  /\ OwnCalls(r, policyServer', jobs', latest', toasts')
                          /\ ~Saved(jobs') => FormTrue(policyServer'[r.name].actions, policyDialog'.actions, jobs', toasts')
      BY DEF FormOk
    <2>2. policyDialog'.fresh /\ Mounted(policyDialog, used) /\ r \in policyDialog.row
      BY <1>1, <2>1 DEF Mounted
    <2>3. /\ OwnCalls(r, policyServer, jobs, latest, toasts)
          /\ ~Saved(jobs) => FormTrue(policyServer[r.name].actions, policyDialog.actions, jobs, toasts)
      BY <2>2 DEF FormInv, FormOk
    <2>4. \A k \in jobs : k.hook # "actions" /\ k.hook # "save"
      BY <2>2, <2>3 DEF OwnCalls, Policies!isPending
    <2>5. OwnCalls(r, policyServer', jobs', latest', toasts')
      BY <1>1, <2>2, <2>3, <2>4 DEF OwnCalls, PolicyHooks
    <2>6. FormTrue(policyServer[r.name].actions, policyDialog.actions, jobs, toasts)
      BY <2>3, <2>4 DEF Saved
    <2>7. FormTrue(policyServer'[r.name].actions, policyDialog'.actions, jobs', toasts')
      BY <1>1, <2>4, <2>6 DEF FormTrue
    <2> QED
      BY <2>5, <2>7
  <1> QED
    BY <1>2, <1>3 DEF FormInv

LEMMA SubmitSends ==
  ASSUME FormInv, Policies!handleSubmit
  PROVE  FormInv'
  <1>1. PICK d, b, to : /\ d = policyDialog /\ b \in BOOLEAN /\ b = ~Policies!isPending("actions")
                        /\ to = Policies!Fields(policyDialog)
    OBVIOUS
  <1>2. /\ DialogOk(d) /\ policyDialog' = FreshIf(d, b) /\ d.actions # {} /\ ~Policies!isPending("save")
        /\ d.tab \in {"create", "edit"} /\ UNCHANGED <<policyServer, past, deleting, toasts>>
    BY <1>1 DEF Policies!handleSubmit, Policies!canSave, Policies!isSaving, Policies!Editing, Policies!offForm, FreshIf,
                FormInv, PolicyTypes
  <1>3. /\ DialogOk(policyDialog') /\ policyDialog'.tab = d.tab /\ policyDialog'.row = d.row
        /\ policyDialog'.fresh => d.fresh /\ b
        /\ policyDialog'.actions = d.actions
    <2>1. PICK e : e = FreshIf(d, b)
      OBVIOUS
    <2> QED
      BY <1>1, <1>2, <2>1, Refreshed
  <1>4. DOMAIN to = {"actions", "type", "text"} /\ to.actions # {}
    BY <1>1, <1>2 DEF Policies!Fields
  <1>5. CASE d.tab = "create"
    <2>1. PICK j : j = Policies!Job("create", NewName, to)
      OBVIOUS
    <2>2. Policies!Mutate(j)
      BY <1>1, <1>5, <2>1 DEF Policies!handleSubmit
    <2>3. IsPolicyCall(j) /\ j.id = used.changes + 1 /\ j.form # "edit"
      BY <1>4, <2>1, BareCall
    <2> QED
      BY <1>1, <1>2, <1>3, <1>5, <2>2, <2>3, OtherSent
  <1>6. CASE d.tab = "edit"
    <2>1. PICK r \in d.row : Policies!Mutate(Policies!Job("save", r.name, to))
      BY <1>1, <1>6 DEF Policies!handleSubmit
    <2>2. PICK j, pname : pname = r.name /\ j = Policies!Job("save", pname, to)
      OBVIOUS
    <2>3. IsPolicyCall(j) /\ j.id = used.changes + 1 /\ j.form # "edit" /\ j.hook = "save" /\ j.name = pname /\ j.at = "sent"
      BY <1>4, <2>2, BareCall
    <2>4. \A q \in d.row : q = r
      BY <1>2, <1>6 DEF DialogOk
    <2>5. \A q \in policyDialog.row : j.name = q.name
      BY <1>1, <2>2, <2>3, <2>4
    <2>6. Policies!Mutate(j)
      BY <2>1, <2>2
    <2> QED
      BY <1>1, <1>2, <1>3, <1>6, <2>3, <2>5, <2>6, SaveSent
  <1> QED
    BY <1>2, <1>5, <1>6

\* What is sent with no editor open.
LEMMA OtherSends ==
  ASSUME FormInv, \/ \E n \in Policies!Names : \E v \in past[n] : Policies!Rollback(v)
                  \/ Policies!handleDeleteConfirm
                  \/ \E r \in Policies!Cards : Policies!handleToggleActive(r)
  PROVE  FormInv'
  <1>0. DialogOk(policyDialog)
    BY DEF FormInv, PolicyTypes
  <1>1. ASSUME NEW n \in Policies!Names, NEW v \in past[n], Policies!Rollback(v) PROVE FormInv'
    <2>1. PICK r \in policyDialog.row : Policies!Mutate(Policies!Job("rollback", r.name, v))
      BY <1>1 DEF Policies!Rollback
    <2>2. PICK j, pname : pname = r.name /\ j = Policies!Job("rollback", pname, v)
      OBVIOUS
    <2>3. DOMAIN v \subseteq {"active", "actions", "type", "text"}
      BY <1>1 DEF FormInv, PolicyTypes, PastOk, IsPolicy
    <2>4. IsPolicyCall(j) /\ j.id = used.changes + 1 /\ j.form # "edit"
      BY <2>2, <2>3, BareCall
    <2>5. UNCHANGED <<policyServer, past, deleting, policyDialog, toasts>> /\ policyDialog.tab # "edit"
      BY <1>1 DEF Policies!Rollback, Policies!offForm
    <2>6. Policies!Mutate(j)
      BY <2>1, <2>2
    <2> QED
      BY <1>0, <2>4, <2>5, <2>6, OtherSent
  <1>2. CASE Policies!handleDeleteConfirm
    <2>1. PICK n \in deleting : /\ Policies!Mutate(Policies!Job("delete", n, Policies!NoForm))
                                /\ UNCHANGED <<policyServer, past, deleting, policyDialog, toasts>>
      BY <1>2 DEF Policies!handleDeleteConfirm, Policies!offForm
    <2>2. PICK j, to : to = Policies!NoForm /\ j = Policies!Job("delete", n, to)
      OBVIOUS
    <2>3. IsPolicyCall(j) /\ j.id = used.changes + 1 /\ j.form # "edit"
      BY <2>2, BareCall
    <2>4. policyDialog.tab # "edit"
      BY DEF FormInv, PolicyTypes
    <2>5. Policies!Mutate(j)
      BY <2>1, <2>2
    <2> QED
      BY <1>0, <2>1, <2>3, <2>4, <2>5, OtherSent
  <1>3. ASSUME NEW r \in Policies!Cards, Policies!handleToggleActive(r) PROVE FormInv'
    <2>0. PICK u, to : /\ u = [to |-> [active |-> r.active], now |-> Policies!NoForm, fail |-> {}]
                       /\ to = [active |-> ~r.active]
      OBVIOUS
    <2>1. PICK pname, U, id : pname = r.name /\ U = {u} /\ id = used.changes + 1 /\ id \in Nat
      <3>1. used.changes \in Nat
        BY DEF FormInv, PolicyTypes, UsedOk
      <3>2. PICK id : id = used.changes + 1
        OBVIOUS
      <3>3. id \in Nat
        BY <3>1, <3>2
      <3> QED
        BY <3>2, <3>3
    <2>2. PICK k, j : k = Policies!Job("status", pname, to) /\ j = WithUndo(k, U)
      OBVIOUS
    <2>3. /\ Policies!Mutate(j) /\ policyDialog.tab # "edit"
          /\ UNCHANGED <<policyServer, past, deleting, policyDialog, toasts>>
      BY <1>3, <2>0, <2>1, <2>2 DEF Policies!handleToggleActive, Policies!Free, Policies!NoDialog, WithUndo
    <2>4. IsSent(j, id, "status", pname, to, "gone", U, {})
      <3>1. IsSent(k, id, "status", pname, to, "gone", {}, {})
        BY <2>1, <2>2, PlainCall
      <3> QED
        BY <2>2, <3>1, DecoratedCall
    <2>5. /\ j = [f \in {"id", "hook", "name", "to", "at", "ok", "form", "undo", "fail"} |-> j[f]]
          /\ j.id = id /\ j.hook = "status" /\ j.to = to /\ j.at = "sent" /\ j.ok = TRUE
          /\ j.form = "gone" /\ j.undo = U /\ j.fail = {}
      BY <2>4 DEF IsSent
    <2>6. IsFormUndo("status", u)
      <3>1. IsFormSet(Policies!NoForm)
        BY DEF IsFormSet, Policies!NoForm
      <3> QED
        BY <2>0, <3>1 DEF IsFormUndo
    <2>7. IsPolicyCall(j)
      <3>1. DOMAIN to = {"active"} /\ \A x \in j.undo : IsFormUndo(j.hook, x)
        BY <2>0, <2>1, <2>5, <2>6
      <3> QED
        BY <2>1, <2>5, <3>1 DEF IsPolicyCall, PolicyHooks
    <2> QED
      BY <1>0, <2>1, <2>3, <2>5, <2>7, OtherSent
  <1> QED
    BY <1>1, <1>2, <1>3

\* The Undo of a toast.
LEMMA UndoSends ==
  ASSUME FormInv, NEW t \in toasts, Policies!Undo(t)
  PROVE  FormInv'
  <1>0. DialogOk(policyDialog) /\ IsNotice(t) /\ PolicyTypes
    BY DEF FormInv, PolicyTypes, NoticesOk
  <1>1. PICK fields, form : fields = {t.undo.now} /\ form = t.form
    OBVIOUS
  <1>2. PICK d : d = Policies!Set(form, fields)
    OBVIOUS
  <1>3. /\ DialogOk(d) /\ d.tab = policyDialog.tab /\ d.row = policyDialog.row /\ d.fresh = policyDialog.fresh
        /\ policyDialog.tab # form => d = policyDialog
        /\ policyDialog.tab = form => d.actions = t.undo.now.actions
    <2>1. \A f \in fields : IsFormSet(f)
      BY <1>0, <1>1 DEF IsNotice
    <2> QED
      BY <1>0, <1>1, <1>2, <2>1, SetForm
  <1>4. toasts' \subseteq toasts /\ UNCHANGED <<policyServer, past, deleting>>
    BY DEF Policies!Undo, Policies!offForm
  <1>5. CASE t.hook = "none"
    <2>1. policyDialog' = d /\ UNCHANGED <<jobs, latest, used>>
      BY <1>1, <1>2, <1>5 DEF Policies!Undo
    <2>2. CASE policyDialog.tab # form
      BY <1>3, <1>4, <2>1, <2>2, QuietStep
    <2>3. CASE policyDialog.tab = form
      <3>1. PolicyTypes'
        BY <1>0, <1>3, <1>4, <2>1 DEF PolicyTypes, NoticesOk, OffForm
      <3>2. ~Mounted(policyDialog', used')
        <4>1. SUFFICES ASSUME Mounted(policyDialog, used) PROVE FALSE
          BY <1>3, <2>1 DEF Mounted
        <4>2. PICK r \in policyDialog.row : TRUE
          BY <1>0, <4>1 DEF DialogOk, Mounted
        <4>3. OwnCalls(r, policyServer, jobs, latest, toasts)
          BY <4>1, <4>2 DEF FormInv, FormOk
        <4> QED
          BY <1>1, <1>5, <2>3, <4>1, <4>3 DEF OwnCalls, Mounted
      <3> QED
        BY <3>1, <3>2 DEF FormInv, FormOk
    <2> QED
      BY <2>2, <2>3
  <1>6. CASE t.hook # "none"
    <2>1. PICK b, hook, pname, to, fail, id :
            /\ b \in BOOLEAN /\ b = (t.hook = "actions" => t.form = "edit" /\ ~Policies!isPending("actions"))
            /\ hook = t.hook /\ pname = t.name /\ to = t.undo.to /\ fail = t.undo.fail
            /\ id = used.changes + 1 /\ id \in Nat
      <3>1. used.changes \in Nat
        BY <1>0 DEF PolicyTypes, UsedOk
      <3>2. PICK b \in BOOLEAN : b = (t.hook = "actions" => t.form = "edit" /\ ~Policies!isPending("actions"))
        OBVIOUS
      <3>3. PICK id : id = used.changes + 1
        OBVIOUS
      <3>4. id \in Nat
        BY <3>1, <3>3
      <3> QED
        BY <3>2, <3>3, <3>4 DEF Policies!isPending
    <2>2. PICK k, j : k = Policies!Job(hook, pname, to) /\ j = OfForm(k, form, fail)
      OBVIOUS
    <2>3. Policies!Mutate(j) /\ policyDialog' = FreshIf(d, b)
      BY <1>1, <1>2, <1>6, <2>1, <2>2 DEF Policies!Undo, OfForm, FreshIf
    <2>4. IsSent(j, id, hook, pname, to, form, {}, fail)
      <3>1. IsSent(k, id, hook, pname, to, "gone", {}, {})
        BY <2>1, <2>2, PlainCall
      <3> QED
        BY <2>2, <3>1, DecoratedCall
    <2>5. /\ j = [f \in {"id", "hook", "name", "to", "at", "ok", "form", "undo", "fail"} |-> j[f]]
          /\ j.id = id /\ j.hook = hook /\ j.to = to /\ j.at = "sent" /\ j.ok = TRUE /\ j.name = pname
          /\ j.form = form /\ j.undo = {} /\ j.fail = fail
      BY <2>4 DEF IsSent
    <2>6. /\ hook \in {"actions", "status"} /\ (\A f \in fail : IsFormSet(f))
          /\ DOMAIN to = (IF hook = "actions" THEN {"actions"} ELSE {"active"})
          /\ hook = "status" => form # "edit"
      BY <1>0, <1>1, <1>6, <2>1 DEF IsNotice, IsFormUndo
    <2>7. IsPolicyCall(j)
      BY <2>1, <2>5, <2>6 DEF IsPolicyCall, PolicyHooks
    <2>8. /\ DialogOk(policyDialog') /\ policyDialog'.tab = policyDialog.tab /\ policyDialog'.row = policyDialog.row
          /\ policyDialog'.fresh => policyDialog.fresh /\ b
          /\ policyDialog'.actions = d.actions
      <3>1. PICK e : e = FreshIf(d, b)
        OBVIOUS
      <3>2. DialogOk(e) /\ e.tab = d.tab /\ e.row = d.row /\ (e.fresh => d.fresh /\ b) /\ e.actions = d.actions
        <4>1. DialogOk(d) /\ b \in BOOLEAN
          BY <1>3, <2>1
        <4> QED
          BY <3>1, <4>1, Refreshed
      <3> QED
        BY <1>3, <2>3, <3>1, <3>2
    <2>9. CASE policyDialog.tab # "edit"
      <3>1. form # "edit"
        BY <1>0, <1>1, <2>9 DEF PolicyTypes, OffForm
      <3> QED
        BY <1>4, <2>1, <2>3, <2>5, <2>7, <2>8, <2>9, <3>1, OtherSent
    <2>10. CASE policyDialog.tab = "edit" /\ hook = "status"
      BY <1>3, <1>4, <2>1, <2>3, <2>5, <2>6, <2>7, <2>8, <2>10, StatusSent
    <2>11. CASE policyDialog.tab = "edit" /\ hook = "actions"
      <3>1. policyDialog'.fresh => policyDialog.fresh /\ j.form = "edit" /\ ~Policies!isPending("actions")
        BY <1>1, <2>1, <2>5, <2>8, <2>11
      <3>2. ASSUME NEW r \in policyDialog.row, policyDialog'.fresh, OwnCalls(r, policyServer, jobs, latest, toasts)
            PROVE  j.name = r.name
        BY <1>1, <2>1, <2>5, <3>1, <3>2 DEF OwnCalls
      <3>3. ASSUME NEW r \in policyDialog.row, policyDialog'.fresh,
                   FormTrue(policyServer[r.name].actions, policyDialog.actions, jobs, toasts)
            PROVE  CallTrue(j, policyServer[r.name].actions, policyDialog'.actions)
        <4>1. form = "edit" /\ policyDialog'.actions = t.undo.now.actions
          BY <1>3, <2>5, <2>8, <2>11, <3>1, <3>3
        <4>2. NoticeTrue(t, policyServer[r.name].actions)
          BY <1>1, <3>3, <4>1 DEF FormTrue
        <4> QED
          BY <2>1, <2>5, <4>1, <4>2 DEF NoticeTrue, CallTrue
      <3> QED
        BY <1>4, <2>1, <2>3, <2>5, <2>7, <2>8, <2>11, <3>1, <3>2, <3>3, ActionsSent
    <2> QED
      BY <2>6, <2>9, <2>10, <2>11
  <1> QED
    BY <1>5, <1>6

\* What the server makes of a call that it takes.
LEMMA TakenTypes ==
  ASSUME ServerOk(policyServer), NEW j, IsPolicyCall(j), Policies!Legal(j), NEW srv, srv = Policies!Applied(j)
  PROVE  /\ ServerOk(srv)
         /\ j.hook \in {"status", "actions", "save"} =>
                j.name \in DOMAIN policyServer /\ DOMAIN srv = DOMAIN policyServer
         /\ j.hook = "status" => \A n \in DOMAIN srv : srv[n].actions = policyServer[n].actions
         /\ j.hook = "actions" =>
                /\ srv[j.name].actions = j.to.actions /\ j.to.actions # {}
                /\ j.to.actions \cup policyServer[j.name].actions \subseteq Grantable
  <1> DEFINE D == {"active", "actions", "type", "text"}
  <1>1. CASE j.hook = "delete"
    BY <1>1 DEF Policies!Applied, ServerOk
  <1>2. CASE j.hook = "create"
    <2>1. PICK p, one, base, pname : /\ base = [active |-> TRUE] /\ p = Policies!Over(base, j.to) /\ pname = j.name
                                     /\ one = [n \in {pname} |-> p]
      OBVIOUS
    <2>2. srv = Policies!Over(one, policyServer)
      BY <1>2, <2>1 DEF Policies!Applied
    <2>3. DOMAIN j.to = {"actions", "type", "text"} /\ j.to.actions # {}
      BY <1>2 DEF IsPolicyCall
    <2>4. IsPolicy(p)
      BY <2>1, <2>3 DEF Policies!Over, IsPolicy
    <2>5. /\ DOMAIN srv = {pname} \cup DOMAIN policyServer
          /\ srv[pname] = p /\ \A n \in DOMAIN policyServer : n # pname => srv[n] = policyServer[n]
      BY <2>1, <2>2 DEF Policies!Over
    <2>6. ServerOk(srv)
      BY <2>4, <2>5 DEF ServerOk
    <2> QED
      BY <1>2, <2>6
  <1>3. CASE j.hook \notin {"create", "delete"}
    <2>1. PICK pname, p, q, to : pname = j.name /\ q = policyServer[pname] /\ to = j.to /\ p = Policies!Over(to, q)
      OBVIOUS
    <2>2. /\ pname \in DOMAIN policyServer /\ p.actions # {} /\ p.actions \cup q.actions \subseteq Grantable
          /\ srv = [policyServer EXCEPT ![pname] = p]
      BY <1>3, <2>1 DEF Policies!Legal, Policies!Applied
    <2>3. DOMAIN to \subseteq D
      BY <1>3, <2>1 DEF IsPolicyCall, PolicyHooks
    <2>4. DOMAIN q = D
      BY <2>1, <2>2 DEF ServerOk, IsPolicy
    <2>5. DOMAIN p = D /\ (\A f \in DOMAIN to : p[f] = to[f]) /\ (\A f \in D : f \notin DOMAIN to => p[f] = q[f])
      BY <2>1, <2>3, <2>4 DEF Policies!Over
    <2>6. IsPolicy(p)
      BY <2>2, <2>5 DEF IsPolicy
    <2>7. DOMAIN srv = DOMAIN policyServer /\ srv[pname] = p /\ \A n \in DOMAIN srv : n # pname => srv[n] = policyServer[n]
      BY <2>2
    <2>8. ServerOk(srv)
      BY <2>6, <2>7 DEF ServerOk
    <2>9. j.hook = "status" => \A n \in DOMAIN srv : srv[n].actions = policyServer[n].actions
      <3>1. SUFFICES ASSUME j.hook = "status" PROVE p.actions = q.actions
        BY <2>1, <2>7
      <3>2. DOMAIN to = {"active"}
        BY <2>1, <3>1 DEF IsPolicyCall
      <3> QED
        BY <2>5, <3>2
    <2>10. j.hook = "actions" =>
                /\ srv[j.name].actions = j.to.actions /\ j.to.actions # {}
                /\ j.to.actions \cup policyServer[j.name].actions \subseteq Grantable
      <3>1. SUFFICES ASSUME j.hook = "actions" PROVE p.actions = to.actions
        BY <2>1, <2>2, <2>7
      <3>2. DOMAIN to = {"actions"}
        BY <2>1, <3>1 DEF IsPolicyCall
      <3> QED
        BY <2>5, <3>2
    <2> QED
      BY <2>1, <2>2, <2>7, <2>8, <2>9, <2>10
  <1> QED
    BY <1>1, <1>2, <1>3

\* What went well at the server is answered.
AnsweredCall(j, ok) == [j EXCEPT !.at = "answered", !.ok = ok]

LEMMA AnsweredTypes ==
  ASSUME NEW j, IsPolicyCall(j), NEW ok \in BOOLEAN, NEW k, k = AnsweredCall(j, ok)
  PROVE  /\ IsPolicyCall(k) /\ k.id = j.id /\ k.hook = j.hook /\ k.name = j.name /\ k.to = j.to /\ k.form = j.form
         /\ k.undo = j.undo /\ k.fail = j.fail /\ k.at = "answered" /\ k.ok = ok
  <1>1. DOMAIN j = {"id", "hook", "name", "to", "at", "ok", "form", "undo", "fail"}
    BY DEF IsPolicyCall
  <1>2. /\ k = [f \in {"id", "hook", "name", "to", "at", "ok", "form", "undo", "fail"} |-> k[f]]
        /\ k.id = j.id /\ k.hook = j.hook /\ k.name = j.name /\ k.to = j.to /\ k.form = j.form
        /\ k.undo = j.undo /\ k.fail = j.fail /\ k.at = "answered" /\ k.ok = ok
    BY <1>1 DEF AnsweredCall
  <1>3. IsPolicyCall(k)
    BY <1>2 DEF IsPolicyCall
  <1> QED
    BY <1>2, <1>3

LEMMA PastGrows ==
  ASSUME PastOk(past), ServerOk(policyServer), NEW n \in DOMAIN policyServer,
         past' = [past EXCEPT ![n] = @ \cup {policyServer[n]}]
  PROVE  PastOk(past')
  <1>1. PICK p : p = policyServer[n] /\ IsPolicy(p)
    BY DEF ServerOk
  <1>2. past' = [past EXCEPT ![n] = @ \cup {p}]
    BY <1>1
  <1>3. DOMAIN past' = DOMAIN past /\ \A m \in DOMAIN past : past'[m] \subseteq past[m] \cup {p}
    BY <1>2
  <1> QED
    BY <1>1, <1>3 DEF PastOk

\* The server takes a call or refuses it.
LEMMA AppliesTypes ==
  ASSUME FormInv, NEW j \in jobs, Policies!ServerApplies(j), NEW ok \in BOOLEAN, ok = Policies!Legal(j),
         NEW k, k = AnsweredCall(j, ok)
  PROVE  /\ PolicyTypes' /\ j.at = "sent" /\ jobs' = (jobs \ {j}) \cup {k}
         /\ policyServer' = IF ok THEN Policies!Applied(j) ELSE policyServer
         /\ UNCHANGED <<policyDialog, deleting, latest, toasts, used>>
  <1>1. /\ j.at = "sent" /\ jobs' = (jobs \ {j}) \cup {k}
        /\ policyServer' = (IF ok THEN Policies!Applied(j) ELSE policyServer)
        /\ past' = (IF ok /\ j.name \in DOMAIN policyServer
                    THEN [past EXCEPT ![j.name] = @ \cup {policyServer[j.name]}] ELSE past)
        /\ UNCHANGED <<policyDialog, deleting, latest, toasts, used>>
    BY DEF Policies!ServerApplies, AnsweredCall
  <1>2. PolicyTypes /\ IsPolicyCall(j)
    BY DEF FormInv, PolicyTypes, CallsOk
  <1>3. IsPolicyCall(k) /\ k.id = j.id /\ k.form = j.form
    BY <1>2, AnsweredTypes
  <1>4. CallsOk(jobs', used'.changes)
    BY <1>1, <1>2, <1>3 DEF PolicyTypes, CallsOk
  <1>5. policyDialog.tab # "edit" => OffForm(jobs')
    BY <1>1, <1>2, <1>3 DEF PolicyTypes, OffForm
  <1>6. ServerOk(policyServer')
    BY <1>1, <1>2, TakenTypes DEF PolicyTypes
  <1>7. PastOk(past')
    BY <1>1, <1>2, PastGrows DEF PolicyTypes
  <1>8. PolicyTypes'
    BY <1>1, <1>2, <1>4, <1>5, <1>6, <1>7 DEF PolicyTypes
  <1> QED
    BY <1>1, <1>8

LEMMA AppliesKeeps ==
  ASSUME FormInv, NEW j \in jobs, Policies!ServerApplies(j)
  PROVE  FormInv'
  <1>1. PICK ok \in BOOLEAN : ok = Policies!Legal(j)
    BY DEF Policies!Legal
  <1>2. PICK k : k = AnsweredCall(j, ok)
    OBVIOUS
  <1>3. /\ PolicyTypes' /\ j.at = "sent" /\ jobs' = (jobs \ {j}) \cup {k}
        /\ policyServer' = (IF ok THEN Policies!Applied(j) ELSE policyServer)
        /\ UNCHANGED <<policyDialog, deleting, latest, toasts, used>>
    BY <1>1, <1>2, AppliesTypes
  <1>4. IsPolicyCall(j) /\ ServerOk(policyServer)
    BY DEF FormInv, PolicyTypes, CallsOk
  <1>5. /\ k.id = j.id /\ k.hook = j.hook /\ k.name = j.name /\ k.to = j.to /\ k.form = j.form
        /\ k.undo = j.undo /\ k.fail = j.fail /\ k.at = "answered" /\ k.ok = ok
    BY <1>2, <1>4, AnsweredTypes
  <1>6. ok /\ j.hook \in {"status", "actions", "save"} =>
            /\ j.name \in DOMAIN policyServer /\ DOMAIN policyServer' = DOMAIN policyServer
            /\ j.hook = "status" => \A n \in DOMAIN policyServer' : policyServer'[n].actions = policyServer[n].actions
            /\ j.hook = "actions" =>
                 /\ policyServer'[j.name].actions = j.to.actions /\ j.to.actions # {}
                 /\ j.to.actions \cup policyServer[j.name].actions \subseteq Grantable
    <2>1. SUFFICES ASSUME ok, j.hook \in {"status", "actions", "save"}
                   PROVE  /\ j.name \in DOMAIN policyServer /\ DOMAIN policyServer' = DOMAIN policyServer
                          /\ j.hook = "status" =>
                                \A n \in DOMAIN policyServer' : policyServer'[n].actions = policyServer[n].actions
                          /\ j.hook = "actions" =>
                                /\ policyServer'[j.name].actions = j.to.actions /\ j.to.actions # {}
                                /\ j.to.actions \cup policyServer[j.name].actions \subseteq Grantable
      OBVIOUS
    <2>2. PICK srv : srv = Policies!Applied(j) /\ srv = policyServer'
      BY <1>3, <2>1
    <2>3. Policies!Legal(j)
      BY <1>1, <2>1
    <2>4. srv = Policies!Applied(j)
      BY <2>2
    <2>5. /\ j.name \in DOMAIN policyServer /\ DOMAIN srv = DOMAIN policyServer
          /\ j.hook = "status" => \A n \in DOMAIN srv : srv[n].actions = policyServer[n].actions
          /\ j.hook = "actions" =>
                /\ srv[j.name].actions = j.to.actions /\ j.to.actions # {}
                /\ j.to.actions \cup policyServer[j.name].actions \subseteq Grantable
      BY <1>4, <2>1, <2>3, <2>4, TakenTypes
    <2> QED
      BY <2>2, <2>5
  <1>7. FormOk(policyServer', policyDialog', jobs', latest', toasts', used')
    <2>1. SUFFICES ASSUME Mounted(policyDialog, used), NEW r \in policyDialog.row
                   PROVE  /\ OwnCalls(r, policyServer', jobs', latest', toasts')
                          /\ ~Saved(jobs') => FormTrue(policyServer'[r.name].actions, policyDialog.actions, jobs', toasts')
      BY <1>3 DEF FormOk
    <2>2. /\ OwnCalls(r, policyServer, jobs, latest, toasts)
          /\ ~Saved(jobs) => FormTrue(policyServer[r.name].actions, policyDialog.actions, jobs, toasts)
      BY <2>1 DEF FormInv, FormOk
    <2>3. /\ j.hook \in {"status", "actions", "save"}
          /\ j.hook # "status" => j.name = r.name /\ latest[j.hook] = j.id
          /\ r.name \in DOMAIN policyServer
      BY <2>2 DEF OwnCalls
    <2>4. OwnCalls(r, policyServer', jobs', latest', toasts')
      BY <1>3, <1>5, <1>6, <2>2, <2>3 DEF OwnCalls
    <2>5. Saved(jobs) => Saved(jobs')
      BY <1>3 DEF Saved
    <2>6. ASSUME ~Saved(jobs')
          PROVE  FormTrue(policyServer'[r.name].actions, policyDialog.actions, jobs', toasts')
      <3>1. FormTrue(policyServer[r.name].actions, policyDialog.actions, jobs, toasts)
        BY <2>2, <2>5, <2>6
      <3>2. CASE j.hook # "actions"
        <4>1. policyServer'[r.name].actions = policyServer[r.name].actions
          <5>1. CASE j.hook = "status"
            BY <1>3, <1>6, <2>3, <5>1
          <5>2. CASE j.hook = "save"
            <6>1. ~ok
              BY <1>3, <1>5, <2>6, <5>2 DEF Saved
            <6> QED
              BY <1>3, <6>1
          <5> QED
            BY <2>3, <3>2, <5>1, <5>2
        <4> QED
          BY <1>3, <1>5, <3>1, <3>2, <4>1 DEF FormTrue
      <3>3. CASE j.hook = "actions"
        <4>1. \A i \in jobs : i.hook = "actions" => i = j
          BY <2>2, <2>3, <3>3 DEF OwnCalls, FormInv, PolicyTypes, CallsOk
        <4>2. CallTrue(j, policyServer[r.name].actions, policyDialog.actions)
          BY <3>1, <3>3 DEF FormTrue
        <4>3. /\ j.to.actions = policyDialog.actions
              /\ Back(j.fail, policyServer[r.name].actions) \/ Lawful(policyDialog.actions, policyServer[r.name].actions)
              /\ \A u \in j.undo : u.to.actions = policyServer[r.name].actions /\ u.now.actions = policyServer[r.name].actions
          BY <1>3, <4>2 DEF CallTrue
        <4>4. CASE ok
          <5>1. /\ policyServer'[r.name].actions = policyDialog.actions
                /\ policyDialog.actions \cup policyServer[r.name].actions \subseteq Grantable
            BY <1>6, <2>3, <3>3, <4>3, <4>4
          <5>2. policyServer[r.name].actions # {}
            BY <1>4, <2>3 DEF ServerOk, IsPolicy
          <5>3. CallTrue(k, policyServer'[r.name].actions, policyDialog.actions)
            BY <1>5, <4>3, <4>4, <5>1, <5>2 DEF CallTrue, Lawful
          <5>4. \A t \in toasts : t.form = "edit" => NoticeTrue(t, policyServer'[r.name].actions)
            BY <3>1, <5>1 DEF FormTrue, NoticeTrue, Lawful
          <5> QED
            BY <1>3, <1>5, <3>3, <4>1, <5>3, <5>4 DEF FormTrue
        <4>5. CASE ~ok
          <5>1. policyServer' = policyServer
            BY <1>3, <4>5
          <5>2. ~Lawful(policyDialog.actions, policyServer[r.name].actions)
            <6>1. SUFFICES ASSUME Lawful(policyDialog.actions, policyServer[r.name].actions) PROVE Policies!Legal(j)
              BY <1>1, <4>5
            <6>2. PICK pname, to, q, p : pname = r.name /\ to = j.to /\ q = policyServer[pname] /\ p = Policies!Over(to, q)
              OBVIOUS
            <6>3. DOMAIN to = {"actions"}
              BY <1>4, <3>3, <6>2 DEF IsPolicyCall
            <6>4. p.actions = to.actions
              BY <6>2, <6>3 DEF Policies!Over
            <6> QED
              BY <2>3, <3>3, <4>3, <6>1, <6>2, <6>4 DEF Policies!Legal, Lawful
          <5>3. CallTrue(k, policyServer[r.name].actions, policyDialog.actions)
            BY <1>5, <4>3, <4>5, <5>2 DEF CallTrue
          <5> QED
            BY <1>3, <1>5, <3>1, <3>3, <4>1, <5>1, <5>3 DEF FormTrue
        <4> QED
          BY <4>4, <4>5
      <3> QED
        BY <3>2, <3>3
    <2> QED
      BY <1>3, <2>4, <2>6
  <1> QED
    BY <1>3, <1>7 DEF FormInv

\* A failure leaves the fields alone or puts them back.
LEMMA FailsTypes ==
  ASSUME PolicyTypes, NEW j \in jobs, Policies!Fails(j), UNCHANGED <<policyServer, past, deleting, latest, toasts>>,
         UsedOk(used'), used'.changes = used.changes
  PROVE  /\ PolicyTypes' /\ jobs' = jobs \ {j}
         /\ policyDialog'.tab = policyDialog.tab /\ policyDialog'.row = policyDialog.row
         /\ policyDialog'.fresh = policyDialog.fresh
         /\ j.form # policyDialog.tab \/ j.fail = {} \/ ~Policies!Heard(j) => policyDialog' = policyDialog
         /\ j.form = policyDialog.tab /\ j.fail # {} /\ Policies!Heard(j) => \E f \in j.fail : policyDialog'.actions = f.actions
  <1>1. PICK form, fields : form = j.form /\ fields = j.fail
    OBVIOUS
  <1>2. PICK d : d = Policies!Set(form, fields)
    OBVIOUS
  <1>3. jobs' = jobs \ {j} /\ policyDialog' = IF Policies!Heard(j) THEN d ELSE policyDialog
    BY <1>1, <1>2 DEF Policies!Fails
  <1>4. DialogOk(policyDialog) /\ \A f \in fields : IsFormSet(f)
    BY <1>1 DEF PolicyTypes, CallsOk, IsPolicyCall
  <1>5. /\ DialogOk(d) /\ d.tab = policyDialog.tab /\ d.row = policyDialog.row /\ d.fresh = policyDialog.fresh
        /\ fields = {} \/ policyDialog.tab # form => d = policyDialog
        /\ fields # {} /\ policyDialog.tab = form => \E f \in fields : d.actions = f.actions
    BY <1>2, <1>4, SetForm
  <1>6. /\ DialogOk(policyDialog') /\ policyDialog'.tab = policyDialog.tab /\ policyDialog'.row = policyDialog.row
        /\ policyDialog'.fresh = policyDialog.fresh
    BY <1>3, <1>4, <1>5
  <1>7. CallsOk(jobs', used'.changes) /\ (policyDialog.tab # "edit" => OffForm(jobs'))
    BY <1>3 DEF PolicyTypes, CallsOk, OffForm
  <1>8. PolicyTypes'
    BY <1>6, <1>7 DEF PolicyTypes
  <1> QED
    BY <1>1, <1>3, <1>5, <1>6, <1>8

LEMMA RefusedKeeps ==
  ASSUME FormInv, NEW j \in jobs, Policies!Refused(j)
  PROVE  FormInv'
  <1>1. /\ j.at = "answered" /\ ~j.ok /\ Policies!Fails(j)
        /\ UNCHANGED <<policyServer, past, deleting, latest, toasts, used>>
    BY DEF Policies!Refused
  <1>2. PolicyTypes /\ IsPolicyCall(j) /\ UsedOk(used')
    BY <1>1 DEF FormInv, PolicyTypes, CallsOk
  <1>3. /\ PolicyTypes' /\ jobs' = jobs \ {j}
        /\ policyDialog'.tab = policyDialog.tab /\ policyDialog'.row = policyDialog.row
        /\ policyDialog'.fresh = policyDialog.fresh
        /\ j.form # policyDialog.tab \/ j.fail = {} \/ ~Policies!Heard(j) => policyDialog' = policyDialog
        /\ j.form = policyDialog.tab /\ j.fail # {} /\ Policies!Heard(j) => \E f \in j.fail : policyDialog'.actions = f.actions
    BY <1>1, <1>2, FailsTypes
  <1>4. FormOk(policyServer', policyDialog', jobs', latest', toasts', used')
    <2>1. SUFFICES ASSUME Mounted(policyDialog, used), NEW r \in policyDialog.row
                   PROVE  /\ OwnCalls(r, policyServer, jobs', latest, toasts)
                          /\ ~Saved(jobs') => FormTrue(policyServer[r.name].actions, policyDialog'.actions, jobs', toasts)
      BY <1>1, <1>3 DEF FormOk, Mounted
    <2>2. /\ OwnCalls(r, policyServer, jobs, latest, toasts)
          /\ ~Saved(jobs) => FormTrue(policyServer[r.name].actions, policyDialog.actions, jobs, toasts)
      BY <2>1 DEF FormInv, FormOk
    <2>3. OwnCalls(r, policyServer, jobs', latest, toasts)
      BY <1>3, <2>2 DEF OwnCalls
    <2>4. Saved(jobs) => Saved(jobs')
      BY <1>1, <1>3 DEF Saved
    <2>5. ASSUME ~Saved(jobs') PROVE FormTrue(policyServer[r.name].actions, policyDialog'.actions, jobs', toasts)
      <3>1. FormTrue(policyServer[r.name].actions, policyDialog.actions, jobs, toasts)
        BY <2>2, <2>4, <2>5
      <3>2. CASE j.hook # "actions"
        <4>1. policyDialog' = policyDialog
          BY <1>2, <1>3, <2>1, <3>2 DEF IsPolicyCall, Mounted
        <4> QED
          BY <1>3, <3>1, <3>2, <4>1 DEF FormTrue
      <3>3. CASE j.hook = "actions"
        <4>1. \A i \in jobs' : i.hook # "actions"
          BY <1>2, <1>3, <2>2, <3>3 DEF OwnCalls, PolicyTypes, CallsOk
        <4>2. Policies!Heard(j) /\ j.form = "edit" /\ policyDialog.tab = "edit"
          BY <2>1, <2>2, <3>3 DEF OwnCalls, Policies!Heard, Mounted
        <4>3. Back(j.fail, policyServer[r.name].actions)
          BY <1>1, <3>1, <3>3 DEF FormTrue, CallTrue
        <4>4. policyDialog'.actions = policyServer[r.name].actions
          BY <1>3, <4>2, <4>3 DEF Back
        <4> QED
          BY <3>1, <4>1, <4>4 DEF FormTrue
      <3> QED
        BY <3>2, <3>3
    <2> QED
      BY <2>3, <2>5
  <1> QED
    BY <1>3, <1>4 DEF FormInv

LEMMA FormLost ==
  ASSUME FormInv, NEW j \in jobs, Policies!RequestLost(j)
  PROVE  FormInv'
  <1>1. Policies!Step("faults") /\ Policies!Fails(j) /\ UNCHANGED <<policyServer, past, deleting, latest, toasts>>
    BY DEF Policies!RequestLost
  <1>2. UsedOk(used') /\ used'.changes = used.changes /\ used'.faults = used.faults + 1 /\ used.faults \in Nat
    BY <1>1, StepCounts DEF FormInv, PolicyTypes, UsedOk
  <1>3. PolicyTypes'
    BY <1>1, <1>2, FailsTypes DEF FormInv
  <1>4. used'.faults # 0
    BY <1>2
  <1> QED
    BY <1>3, <1>4 DEF FormInv, FormOk, Mounted

\* Toasts that a success raises.
Raises(j, us) == {Policies!Toast(j.id, j.hook, j.name, u, j.form) : u \in us}

LEMMA RaisedNotices ==
  ASSUME NEW j, IsPolicyCall(j), NEW us, us \subseteq j.undo
  PROVE  \A t \in Raises(j, us) :
            /\ IsNotice(t) /\ t.hook = j.hook /\ t.name = j.name /\ t.form = j.form
            /\ \E u \in j.undo : t.undo = u
  <1>1. SUFFICES ASSUME NEW t \in Raises(j, us)
                 PROVE  /\ IsNotice(t) /\ t.hook = j.hook /\ t.name = j.name /\ t.form = j.form
                        /\ \E u \in j.undo : t.undo = u
    OBVIOUS
  <1>2. PICK u \in us : t = Policies!Toast(j.id, j.hook, j.name, u, j.form)
    BY DEF Raises
  <1>3. /\ t = [f \in {"id", "hook", "name", "undo", "form"} |-> t[f]]
        /\ t.hook = j.hook /\ t.name = j.name /\ t.form = j.form /\ t.undo = u
    BY <1>2 DEF Policies!Toast
  <1>4. IsFormUndo(j.hook, u)
    BY <1>2 DEF IsPolicyCall
  <1>5. j.hook \in {"actions", "status"} /\ IsFormSet(u.now) /\ (j.hook # "actions" => j.form # "edit")
    BY <1>4 DEF IsFormUndo, IsPolicyCall
  <1>6. IsNotice(t)
    BY <1>3, <1>4, <1>5 DEF IsNotice
  <1> QED
    BY <1>2, <1>3, <1>6

LEMMA SuccessTypes ==
  ASSUME FormInv, NEW j \in jobs, Policies!Succeeds(j)
  PROVE  /\ PolicyTypes' /\ UNCHANGED <<policyServer, past, used>>
         /\ policyDialog'.tab = "none" \/
                /\ policyDialog' = policyDialog /\ jobs' = jobs \ {j}
                /\ \E us : toasts' = toasts \cup Raises(j, us) /\ us \subseteq j.undo
                /\ ~(Policies!Heard(j) /\ j.hook = "save")
                /\ j.hook \notin {"save", "create"} => latest' = latest
  <1>1. PICK us, rest : us = (IF Policies!Heard(j) THEN j.undo ELSE {}) /\ rest = jobs \ {j}
    OBVIOUS
  <1>2. PICK raised : raised = toasts \cup Raises(j, us)
    OBVIOUS
  <1> DEFINE closes == j.hook = "save" \/ (j.hook = "create" /\ policyDialog.tab = "create")
             gone   == Policies!Heard(j) /\ closes /\ policyDialog.tab = "edit"
  <1>3. /\ j.at = "answered" /\ j.ok
        /\ policyDialog' = IF Policies!Heard(j) /\ closes THEN Policies!NoDialog ELSE policyDialog
        /\ jobs' = IF gone THEN Policies!Unmounted(rest) ELSE rest
        /\ toasts' = IF gone THEN Policies!Unmounted(raised) ELSE raised
        /\ latest' = IF Policies!Heard(j) /\ j.hook \in {"save", "create"} THEN Policies!Reset(latest) ELSE latest
        /\ deleting' = {} \/ deleting' = deleting
        /\ UNCHANGED <<policyServer, past, used>>
    BY <1>1, <1>2 DEF Policies!Succeeds, Raises
  <1>4. PolicyTypes /\ IsPolicyCall(j) /\ us \subseteq j.undo
    BY <1>1 DEF FormInv, PolicyTypes, CallsOk
  <1>5. CallsOk(rest, used.changes) /\ (policyDialog.tab # "edit" => OffForm(rest))
    BY <1>1, <1>4 DEF PolicyTypes, CallsOk, OffForm
  <1>6. NoticesOk(raised) /\ (policyDialog.tab # "edit" => OffForm(raised))
    BY <1>2, <1>4, RaisedNotices DEF PolicyTypes, NoticesOk, OffForm
  <1>7. DOMAIN latest' = PolicyHooks
    BY <1>3, <1>4 DEF PolicyTypes, Policies!Reset
  <1>8. CASE Policies!Heard(j) /\ closes
    <2>1. DialogOk(policyDialog') /\ policyDialog'.tab = "none"
      <3>1. PICK d : d = Policies!NoDialog
        OBVIOUS
      <3>2. DialogOk(d) /\ d.tab = "none"
        BY <3>1 DEF DialogOk, Policies!NoDialog
      <3> QED
        BY <1>3, <1>8, <3>1, <3>2
    <2>2. CallsOk(jobs', used'.changes) /\ NoticesOk(toasts') /\ OffForm(jobs') /\ OffForm(toasts')
      <3>1. CASE policyDialog.tab = "edit"
        BY <1>3, <1>5, <1>6, <1>8, <3>1, UnmountedCalls, UnmountedNotices
      <3>2. CASE policyDialog.tab # "edit"
        BY <1>3, <1>5, <1>6, <3>2
      <3> QED
        BY <3>1, <3>2
    <2>3. PolicyTypes'
      BY <1>3, <1>4, <1>7, <2>1, <2>2 DEF PolicyTypes
    <2> QED
      BY <1>3, <2>1, <2>3
  <1>9. CASE ~(Policies!Heard(j) /\ closes)
    <2>1. policyDialog' = policyDialog /\ jobs' = rest /\ toasts' = raised
      BY <1>3, <1>9
    <2>2. PolicyTypes'
      BY <1>3, <1>4, <1>5, <1>6, <1>7, <2>1 DEF PolicyTypes
    <2> QED
      BY <1>1, <1>2, <1>3, <1>4, <1>9, <2>1, <2>2
  <1> QED
    BY <1>8, <1>9

LEMMA SuccessKeeps ==
  ASSUME FormInv, NEW j \in jobs, Policies!Succeeds(j)
  PROVE  FormInv'
  <1>1. /\ PolicyTypes' /\ UNCHANGED <<policyServer, past, used>>
        /\ policyDialog'.tab = "none" \/
                /\ policyDialog' = policyDialog /\ jobs' = jobs \ {j}
                /\ \E us : toasts' = toasts \cup Raises(j, us) /\ us \subseteq j.undo
                /\ ~(Policies!Heard(j) /\ j.hook = "save")
                /\ j.hook \notin {"save", "create"} => latest' = latest
    BY SuccessTypes
  <1>2. j.at = "answered" /\ j.ok
    BY DEF Policies!Succeeds
  <1>3. PolicyTypes /\ IsPolicyCall(j)
    BY DEF FormInv, PolicyTypes, CallsOk
  <1>4. CASE policyDialog'.tab = "none"
    BY <1>1, <1>4 DEF FormInv, FormOk, Mounted
  <1>5. CASE policyDialog'.tab # "none"
    <2>1. SUFFICES ASSUME Mounted(policyDialog, used), NEW r \in policyDialog.row
                   PROVE  /\ OwnCalls(r, policyServer, jobs', latest', toasts')
                          /\ ~Saved(jobs') => FormTrue(policyServer[r.name].actions, policyDialog.actions, jobs', toasts')
      BY <1>1, <1>5 DEF FormInv, FormOk
    <2>2. /\ OwnCalls(r, policyServer, jobs, latest, toasts)
          /\ ~Saved(jobs) => FormTrue(policyServer[r.name].actions, policyDialog.actions, jobs, toasts)
      BY <2>1 DEF FormInv, FormOk
    <2>3. PICK us : toasts' = toasts \cup Raises(j, us) /\ us \subseteq j.undo
      BY <1>1, <1>5
    <2>4. \A t \in Raises(j, us) : /\ t.hook = j.hook /\ t.name = j.name /\ t.form = j.form
                                   /\ \E u \in j.undo : t.undo = u
      BY <1>3, <2>3, RaisedNotices
    <2>5. j.hook \in {"status", "actions"}
      BY <1>1, <1>5, <2>2 DEF OwnCalls, Policies!Heard
    <2>6. jobs' = jobs \ {j} /\ latest' = latest
      BY <1>1, <1>5, <2>5
    <2>7. j.hook = "status" => j.form # "edit"
      BY <1>3 DEF IsPolicyCall
    <2>8. OwnCalls(r, policyServer, jobs', latest', toasts')
      BY <2>2, <2>3, <2>4, <2>5, <2>6, <2>7 DEF OwnCalls
    <2>9. Saved(jobs) => Saved(jobs')
      BY <2>5, <2>6 DEF Saved
    <2>10. ASSUME ~Saved(jobs') PROVE FormTrue(policyServer[r.name].actions, policyDialog.actions, jobs', toasts')
      <3>1. FormTrue(policyServer[r.name].actions, policyDialog.actions, jobs, toasts)
        BY <2>2, <2>9, <2>10
      <3>2. CASE j.hook = "status"
        BY <2>3, <2>4, <2>6, <2>7, <3>1, <3>2 DEF FormTrue
      <3>3. CASE j.hook = "actions"
        <4>1. \A i \in jobs' : i.hook # "actions"
          BY <1>3, <2>2, <2>6, <3>3 DEF OwnCalls, PolicyTypes, CallsOk
        <4>2. /\ policyDialog.actions = policyServer[r.name].actions
              /\ \A u \in j.undo : Lawful(u.to.actions, policyServer[r.name].actions) /\ u.now.actions = u.to.actions
          BY <1>2, <3>1, <3>3 DEF FormTrue, CallTrue
        <4>3. \A t \in toasts' : t.form = "edit" => NoticeTrue(t, policyServer[r.name].actions)
          BY <2>3, <2>4, <3>1, <4>2 DEF FormTrue, NoticeTrue
        <4> QED
          BY <4>1, <4>2, <4>3 DEF FormTrue
      <3> QED
        BY <2>5, <3>2, <3>3
    <2> QED
      BY <2>8, <2>10
  <1> QED
    BY <1>4, <1>5

LEMMA OthersKeep ==
  ASSUME FormInv, NEW n, Policies!OthersToggle(n)
  PROVE  FormInv'
  <1>1. /\ n \in DOMAIN policyServer /\ Policies!Step("others")
        /\ policyServer' = [policyServer EXCEPT ![n].active = ~@]
        /\ past' = [past EXCEPT ![n] = @ \cup {policyServer[n]}]
        /\ UNCHANGED <<policyDialog, deleting, jobs, latest, toasts>>
    BY DEF Policies!OthersToggle
  <1>2. UsedOk(used') /\ used'.changes = used.changes /\ used'.others = used.others + 1 /\ used.others \in Nat
    BY <1>1, StepCounts DEF FormInv, PolicyTypes, UsedOk
  <1>3. ServerOk(policyServer')
    <2>1. PICK p, q : p = policyServer[n] /\ q = [p EXCEPT !.active = ~@]
      OBVIOUS
    <2>2. IsPolicy(p) /\ ServerOk(policyServer)
      BY <1>1, <2>1 DEF FormInv, PolicyTypes, ServerOk
    <2>3. IsPolicy(q)
      BY <2>1, <2>2 DEF IsPolicy
    <2>4. policyServer' = [policyServer EXCEPT ![n] = q]
      BY <1>1, <2>1
    <2> QED
      BY <1>1, <2>2, <2>3, <2>4 DEF ServerOk
  <1>4. PastOk(past')
    BY <1>1, PastGrows DEF FormInv, PolicyTypes
  <1>5. PolicyTypes'
    BY <1>1, <1>2, <1>3, <1>4 DEF FormInv, PolicyTypes
  <1>6. used'.others # 0
    BY <1>2
  <1> QED
    BY <1>5, <1>6 DEF FormInv, FormOk, Mounted

LEMMA FormNext ==
  ASSUME FormInv, [Policies!Next]_(Policies!policyVars)
  PROVE  FormInv'
  <1>1. CASE UNCHANGED Policies!policyVars
    BY <1>1, QuietStep DEF Policies!policyVars
  <1>2. CASE Policies!Next
    <2>1. CASE \E f \in Policies!Filters : \/ Policies!setFilter(f) \/ Policies!ServerLists(f) \/ Policies!ReceiveList(f)
                                           \/ Policies!ListFails(f)
      BY <2>1, QuietSteps
    <2>2. CASE \E r \in Policies!Cards : Policies!setDeletingPolicy(r)
      BY <2>2, QuietSteps
    <2>3. CASE \E t \in toasts : Policies!ToastEnds(t)
      BY <2>3, QuietSteps
    <2>4. CASE Policies!CancelDelete \/ Policies!Retry
      BY <2>4, QuietSteps
    <2>5. CASE \E n \in Policies!Names : Policies!HoldersArrive(n)
      BY <2>5, QuietSteps
    <2>6. CASE Policies!openCreateForm \/ Policies!setActiveTab
      BY <2>6, ShowSteps
    <2>7. CASE \E r \in Policies!Cards : Policies!openView(r) \/ Policies!openEditForm(r)
      BY <2>7, ShowSteps
    <2>8. CASE \/ Policies!CloseView \/ Policies!requestClose \/ Policies!DiscardConfirmed \/ Policies!DiscardCancelled
      BY <2>8, CloseSteps
    <2>9. CASE \E x \in Texts : Policies!setText(x)
      BY <2>9, CloseSteps
    <2>10. CASE \E a \in Policies!actionOptions : Policies!handleActionsChange(a)
      BY <2>10, ClickSends
    <2>11. CASE \E t \in Policies!resourceTypeOptions : Policies!handleResourceTypeChange(t)
      BY <2>11, TypeSteps
    <2>12. CASE Policies!handleSubmit
      BY <2>12, SubmitSends
    <2>13. CASE \E n \in Policies!Names : \E v \in past[n] : Policies!Rollback(v)
      BY <2>13, OtherSends
    <2>14. CASE Policies!handleDeleteConfirm
      BY <2>14, OtherSends
    <2>15. CASE \E r \in Policies!Cards : Policies!handleToggleActive(r)
      BY <2>15, OtherSends
    <2>16. CASE \E t \in toasts : Policies!Undo(t)
      BY <2>16, UndoSends
    <2>17. CASE \E j \in jobs : Policies!ServerApplies(j)
      BY <2>17, AppliesKeeps
    <2>18. CASE \E j \in jobs : Policies!Succeeds(j)
      BY <2>18, SuccessKeeps
    <2>19. CASE \E j \in jobs : Policies!Refused(j)
      BY <2>19, RefusedKeeps
    <2>20. CASE \E j \in jobs : Policies!RequestLost(j)
      BY <2>20, FormLost
    <2>21. CASE \E n \in Policies!Names : Policies!OthersToggle(n)
      BY <2>21, OthersKeep
    <2> QED
      BY <1>2, <2>1, <2>2, <2>3, <2>4, <2>5, <2>6, <2>7, <2>8, <2>9, <2>10, <2>11, <2>12, <2>13, <2>14, <2>15,
         <2>16, <2>17, <2>18, <2>19, <2>20, <2>21 DEF Policies!Next
  <1> QED
    BY <1>1, <1>2

\* Whatever is toggled, refused, saved and undone under the open editor, and while
\* other policies' statuses change: once nothing is under way it shows the actions
\* that the server has (usePolicyFormState.ts, which saves them one by one and
\* shows each before it is saved), but for the cases FormMatchesServer leaves out.
THEOREM EditorShowsPolicy == PagesSpec => []FormMatchesServer
  <1>1. PagesInit => (mounted = "policies" => FormInv)
    BY FormInit DEF PagesInit
  <1>2. (mounted = "policies" => FormInv) /\ [PagesNext]_pagesVars => (mounted = "policies" => FormInv)'
    BY PoliciesSteps, FormNext
  <1>3. FormInv => Policies!FormMatchesServer
    <2>1. SUFFICES ASSUME FormInv, Policies!Quiet, policyDialog.tab = "edit", policyDialog.fresh,
                          NEW r \in policyDialog.row
                   PROVE  policyDialog.actions = policyServer[r.name].actions
      BY DEF Policies!FormMatchesServer
    <2>2. jobs = {} /\ Mounted(policyDialog, used)
      BY <2>1 DEF Policies!Quiet, Mounted
    <2>3. FormTrue(policyServer[r.name].actions, policyDialog.actions, jobs, toasts)
      BY <2>1, <2>2 DEF FormInv, FormOk, Saved
    <2> QED
      BY <2>2, <2>3 DEF FormTrue
  <1>4. (mounted = "policies" => FormInv) => FormMatchesServer
    BY <1>3 DEF FormMatchesServer
  <1> QED
    BY <1>1, <1>2, <1>4, PTL DEF PagesSpec
=============================================================================
