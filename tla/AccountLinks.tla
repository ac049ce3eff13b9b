------------------------------ MODULE AccountLinks ------------------------------
(***************************************************************************)
(* The signed-out pages: sign in, sign up, ask for a reset link, and the   *)
(* three pages an e-mailed link opens (verify the account, set a new       *)
(* password, confirm a deletion).  A link's one-time token is read from    *)
(* the address once, kept in memory and removed from the address bar.      *)
(*                                                                         *)
(* The server keeps one status per link; a second device may redeem a link *)
(* or ask for a newer one, links age, and every answer may be lost.        *)
(***************************************************************************)
EXTENDS Naturals, FiniteSets

CONSTANTS
    Emails,   \* what the visitor may type as an address
    Tokens    \* the one-time links of this page

VARIABLES
    page,        \* the page in this tab, "left" after a redirect
    url,         \* the token in the address bar, {} when there is none
    token,       \* the token the page read when it was opened, or ""
    manualToken, \* the reset form's hand-typed token, or ""
    email,       \* the address field
    secret,      \* the password pair: "weak", "mismatch" or "good"
    call,        \* the page's own mutation
    resend,      \* the resend form's mutation
    cooling,     \* the resend or lockout countdown runs
    status,      \* what the server knows of each link
    registered   \* the addresses sign-up requests registered

linkVars == << page, url, token, manualToken, email, secret, call, resend,
               cooling, status, registered >>

LinkPages == {"verify", "reset", "delete"}
Pages == LinkPages \cup {"login", "signup", "request"}
Phases == {"idle", "pending", "success", "error"}
Answers == {"success", "dead", "refused", "throttled", "net"}

(* A mutation that was never called, and one that was just sent.           *)
Idle == [phase |-> "idle", answer |-> {}, shown |-> {}, email |-> "", token |-> "",
         blamed |-> ""]
Sent(e, t) == [Idle EXCEPT !.phase = "pending", !.email = e, !.token = t]

---------------------------------------------------------------------------
(* What the pages show.                                                    *)

(* The token a reset form submits: the link's, else the typed one.         *)
ResetToken == IF token # "" THEN token ELSE manualToken

(* Only the backend's code for a dead link replaces a form by the panel    *)
(* that sends the visitor away; every other error keeps it usable.         *)
AnyError(c) == c.phase = "error"
isDeadLinkError(c) == c.phase = "error" /\ c.shown = {"dead"}

DeadPanel == page \in {"reset", "delete"} /\ isDeadLinkError(call)

(* The resend form sits on the verify page and on the sign-up receipt.     *)
ResendShown == page = "verify" \/ (page = "signup" /\ call.phase = "success")

---------------------------------------------------------------------------
(* The visitor.                                                            *)

(* The sign-in and sign-up fields stay editable while their request runs;  *)
(* the request form and the resend form lock theirs.                       *)
typeEmail(e) ==
    /\ page \in {"login", "signup", "request", "verify"}
    /\ page = "signup" => call.phase # "success"
    /\ page = "request" => call.phase \notin {"pending", "success"}
    /\ page = "verify" => resend.phase # "pending"
    /\ e # email
    /\ email' = e
    /\ UNCHANGED << page, url, token, manualToken, secret, call, resend,
                    cooling, status, registered >>

typePassword(s) ==
    /\ page \in {"signup", "reset"}
    /\ call.phase # "success" /\ ~DeadPanel
    /\ s # secret
    /\ secret' = s
   
    /\ UNCHANGED << page, url, token, manualToken, email, call, resend, cooling,
                    status, registered >>

typeToken(t) ==
    /\ page = "reset" /\ token = "" /\ call.phase # "success" /\ ~DeadPanel
    /\ status[t] # "none" /\ t # manualToken
    /\ manualToken' = t
    /\ UNCHANGED << page, url, token, email, secret, call, resend, cooling,
                    status, registered >>

(* The checks before a sign-up or a reset is sent.  A form that fails one  *)
(* says so beside the field, and sends nothing.                            *)
Complaint == (page = "signup" /\ email = "") \/ secret \in {"weak", "mismatch"}

Submit(t) ==
    /\ ~Complaint
    /\ call' = Sent(email, t)
    /\ UNCHANGED << page, url, token, manualToken, email, secret, resend, cooling,
                    status, registered >>

submitSignup ==
    /\ page = "signup" /\ call.phase \in {"idle", "error"}
    /\ Submit("")

submitReset ==
    /\ page = "reset" /\ call.phase \in {"idle", "error"} /\ ~DeadPanel
    /\ Submit(ResetToken)

(* Asking for a reset link, from the form or from the panel that replaces  *)
(* it after a success; a running cool-down blocks both.                    *)
submitRequest ==
    /\ page = "request" /\ call.phase # "pending" /\ ~cooling
    /\ call' = Sent(email, "")
    /\ UNCHANGED << page, url, token, manualToken, email, secret, resend,
                    cooling, status, registered >>

(* Signing in, blocked while the server's lockout counts down.             *)
submitLogin ==
    /\ page = "login" /\ call.phase # "pending" /\ ~cooling
    /\ call' = Sent(email, "")
    /\ UNCHANGED << page, url, token, manualToken, email, secret, resend,
                    cooling, status, registered >>

(* A link is redeemed by a click, never by opening the page.  The verify   *)
(* button is spent by any failure, the delete button only by a dead link.  *)
handleVerify ==
    /\ page = "verify" /\ token # "" /\ call.phase = "idle"
    /\ call' = Sent(email, token)
    /\ UNCHANGED << page, url, token, manualToken, email, secret, resend,
                    cooling, status, registered >>

handleConfirm ==
    /\ page = "delete" /\ token # "" /\ call.phase \in {"idle", "error"}
    /\ ~DeadPanel
    /\ call' = Sent(email, token)
    /\ UNCHANGED << page, url, token, manualToken, email, secret, resend,
                    cooling, status, registered >>

(* The resend form: a countdown blocks it, its answer starts one.          *)
resendEmail ==
    /\ ResendShown /\ resend.phase # "pending" /\ ~cooling
    /\ resend' = Sent(email, "")
    /\ UNCHANGED << page, url, token, manualToken, email, secret, call,
                    cooling, status, registered >>

(* useCooldown reaches zero.                                               *)
CooldownEnds ==
    /\ cooling
    /\ cooling' = FALSE
    /\ UNCHANGED << page, url, token, manualToken, email, secret, call,
                    resend, status, registered >>

(* A page is opened: the token leaves the address bar for memory.          *)
Opened(p, t) ==
    /\ page' = p
    /\ token' = t
    /\ url' = {}
    /\ manualToken' = "" /\ email' = "" /\ secret' = "weak"
    /\ call' = Idle /\ resend' = Idle
    /\ cooling' = FALSE

(* A reload opens the page again with what the address bar still holds.    *)
Reload ==
    /\ page \in LinkPages
    /\ Opened(page, IF url = {} THEN "" ELSE CHOOSE t \in url : TRUE)
    /\ UNCHANGED << status, registered >>

(* A second link of the same page followed in this tab only changes the    *)
(* fragment: nothing is mounted again, and useState keeps its first token. *)
FollowLink(t) ==
    /\ page \in LinkPages
    /\ status[t] # "none"
    /\ url # {t}
    /\ url' = {t}
    /\ UNCHANGED << page, token, manualToken, email, secret, call, resend,
                    cooling, status, registered >>

---------------------------------------------------------------------------
(* The server, as these pages meet it.                                     *)

(* What it may answer to the pending request, and the link's status after: *)
(* a reset refuses a used link and a rejected password alike; a deletion   *)
(* whose store fails is reported as a dead link, though the link is kept.  *)
Outcomes(c) ==
    LET s == IF c.token = "" THEN "none" ELSE status[c.token]
        spent == IF s = "live" THEN {<<"success", "used", "">>} ELSE {}
        kept == {<<"throttled", s, "">>}
    IN CASE page = "reset" ->
              kept \cup spent \cup
              (IF s \in {"expired", "none"} THEN {<<"dead", s, "link">>}
                                            ELSE {<<"refused", s, "">>})
         [] page = "delete" ->
              kept \cup spent \cup
              (IF s = "live" THEN {<<"dead", s, "store">>} ELSE {<<"dead", s, "link">>})
         [] page = "verify" ->
              kept \cup spent \cup
              (IF s = "live" THEN {} ELSE {<<"refused", s, "">>})
         [] page = "signup" -> kept \cup {<<"success", s, "">>, <<"refused", s, "">>}
         [] OTHER -> kept \cup {<<"success", s, "">>, <<"refused", s, "">>}

Serve ==
    /\ call.phase = "pending" /\ call.answer = {}
    /\ \E o \in Outcomes(call) :
         /\ call' = [call EXCEPT !.answer = {o[1]}, !.blamed = o[3]]
         /\ status' = IF call.token = "" THEN status
                      ELSE [status EXCEPT ![call.token] = o[2]]
         /\ registered' = IF page = "signup" /\ o[1] = "success"
                          THEN registered \cup {call.email} ELSE registered
    /\ UNCHANGED << page, url, token, manualToken, email, secret, resend,
                    cooling >>

(* Elsewhere: a link ages, is redeemed, or a newer one is sent (which, for *)
(* a reset, retires the older).                                            *)
LinkChanges(t, s) ==
    /\ status[t] = "live" /\ s \in {"used", "expired"}
    /\ status' = [status EXCEPT ![t] = s]
    /\ UNCHANGED << page, url, token, manualToken, email, secret, call,
                    resend, cooling, registered >>

NewLink(t) ==
    /\ page \in LinkPages
    /\ status[t] = "none"
    /\ status' = [u \in Tokens |->
                    CASE u = t -> "live"
                      [] page = "reset" /\ u # t /\ status[u] = "live" -> "used"
                      [] OTHER -> status[u]]
    /\ UNCHANGED << page, url, token, manualToken, email, secret, call,
                    resend, cooling, registered >>

---------------------------------------------------------------------------
(* The answers reach the page, or are lost.                                *)

(* What each mutation's own callbacks do with its success or its error.    *)
Settled(answer) ==
    /\ page' = IF answer = "success" /\ page \in {"login", "verify", "delete"}
               THEN "left" ELSE page
    /\ secret' = IF answer = "success" /\ page \in {"signup", "reset"}
                 THEN "weak" ELSE secret
    /\ cooling' = \/ cooling
                  \/ page = "request" /\ answer = "success"
                  \/ page = "login" /\ answer = "throttled"

Receive ==
    /\ call.phase = "pending"
    /\ \E a \in call.answer \cup {"net"} :
         /\ call' = [call EXCEPT !.phase = IF a = "success" THEN "success" ELSE "error",
                                 !.shown = {a}, !.answer = {}]
         /\ Settled(a)
    /\ UNCHANGED << url, token, manualToken, email, resend, status, registered >>

(* The resend form starts its countdown on the server's yes, not on the    *)
(* click.                                                                  *)
ReceiveResend ==
    /\ resend.phase = "pending" /\ ResendShown
    /\ \E a \in {"success", "throttled", "net"} :
         /\ resend' = [resend EXCEPT !.phase = IF a = "success" THEN "success" ELSE "error",
                                     !.shown = {a}]
         /\ cooling' = (cooling \/ a = "success")
    /\ UNCHANGED << page, url, token, manualToken, email, secret, call,
                    status, registered >>

---------------------------------------------------------------------------
Init ==
    /\ page \in Pages
    /\ url = {} /\ manualToken = "" /\ email = "" /\ secret = "weak"
    /\ call = Idle /\ resend = Idle /\ cooling = FALSE /\ registered = {}
    /\ IF page \in LinkPages
       THEN \E t \in Tokens :
              /\ token = t
              /\ status = [u \in Tokens |-> IF u = t THEN "live" ELSE "none"]
       ELSE token = "" /\ status = [u \in Tokens |-> "none"]

Next ==
    \/ \E e \in Emails : typeEmail(e)
    \/ \E s \in {"weak", "mismatch", "good"} : typePassword(s)
    \/ \E t \in Tokens : typeToken(t) \/ FollowLink(t) \/ NewLink(t)
    \/ \E t \in Tokens, s \in {"used", "expired"} : LinkChanges(t, s)
    \/ submitSignup \/ submitReset \/ submitRequest \/ submitLogin
    \/ handleVerify \/ handleConfirm \/ resendEmail
    \/ CooldownEnds \/ Reload \/ Serve \/ Receive \/ ReceiveResend

Spec == Init /\ [][Next]_linkVars

---------------------------------------------------------------------------
(* Every variable holds a value of its kind.                               *)
TypeOK ==
    /\ page \in Pages \cup {"left"}
    /\ url \subseteq Tokens /\ Cardinality(url) <= 1
    /\ token \in Tokens \cup {""} /\ manualToken \in Tokens \cup {""}
    /\ email \in Emails \cup {""}
    /\ secret \in {"weak", "mismatch", "good"}
    /\ call.phase \in Phases /\ resend.phase \in Phases
    /\ call.answer \subseteq Answers /\ call.shown \subseteq Answers
    /\ cooling \in BOOLEAN
    /\ status \in [Tokens -> {"none", "live", "used", "expired"}]
    /\ registered \subseteq Emails

(* A page gives a link up (the "link expired" panel, which has no way back *)
(* to the form) only when the link it submitted can no longer be redeemed, *)
(* or when the server itself called it dead after its store failed: a lost *)
(* answer, a lockout or a rejected password never costs a live link.       *)
LiveLinksStayUsable ==
    DeadPanel => call.token = "" \/ status[call.token] # "live" \/ call.blamed = "store"

(* VerifyAccountButton.tsx:62-64, "a failed attempt can only fail the same *)
(* way again, so disable rather than leave it clickable".                  *)
FailedVerifyIsFinal ==
    page = "verify" /\ call.phase = "error" => status[call.token] # "live"

(* VerificationEmailRequestForm.tsx:20-22, the field is hidden after       *)
(* sign-up "so it cannot be edited, which would resend to a different      *)
(* address than the one just registered".                                  *)
ResendsToRegistered ==
    page = "signup" /\ resend.phase = "pending" => resend.email = call.email

(* PasswordResetConfirmPage.tsx:18-20, the token is removed from the       *)
(* address bar: "copied URLs and screenshots no longer retain it".         *)
TokenLeavesTheUrl == page \in LinkPages => url = {}

(* ConfirmDeleteAccountButton.tsx:18-21, the dead-link code means that the *)
(* token "never existed, already expired, or was already redeemed".        *)
DeadIsDead == DeadPanel /\ call.token # "" => status[call.token] # "live"
=============================================================================
