----------------------------- MODULE SsoSession -----------------------------
(***************************************************************************)
(* The session of a browser at the SSO cell: an auth cookie with a token   *)
(* that expires, and a refresh cookie with a handle, whose row holds the   *)
(* refresh token of Cognito.  Every use of a handle replaces it.  The      *)
(* pages of the browser share the cookies; each of their fetches refreshes *)
(* on its own when it meets a 401.                                         *)
(***************************************************************************)
EXTENDS Naturals, Sequences, FiniteSets

CONSTANTS
  Fetches,     \* fetches that can be in flight at once, over all pages
  MaxHandles   \* bound on the refresh handles that are made

ASSUME SsoAssumption == MaxHandles \in Nat \ {0}

VARIABLES
  authCookie,    \* "none", "live" (a token that is valid) or "stale"
  refreshCookie, \* the handle, 0 if there is none
  session,       \* per handle made: its login, and whether its row is there
  fetch,         \* the fetches
  logout,        \* the logout in flight
  ssoPage,          \* "in", or "login": the user was sent to the login page
  left,          \* logins whose logout was answered
  atOnce,         \* logins with two requests on one handle at once, or a lost answer
  broken         \* logins with a refresh that failed on its way

ssoVars == <<authCookie, refreshCookie, session, fetch, logout, ssoPage, left, atOnce, broken>>

Waiting == [pc |-> "none", handle |-> 0, next |-> 0]
NoLogout == [pc |-> "none", handle |-> 0]

SsoInit ==
  /\ authCookie = "none" /\ refreshCookie = 0 /\ session = <<>>
  /\ fetch = [f \in Fetches |-> Waiting] /\ logout = NoLogout
  /\ ssoPage = "login" /\ left = {} /\ atOnce = {} /\ broken = {}

FetchAt(f, pc) == fetch[f].pc = pc
FetchTo(f, pc) == fetch' = [fetch EXCEPT ![f].pc = pc]
FetchEnds(f) == fetch' = [fetch EXCEPT ![f] = Waiting]

ServerSteps == {"get", "cognito", "put", "remove", "answer"}
LoginOf(h) == session[h].login
LoginsMade == {session[h].login : h \in DOMAIN session}

(* putByHandle of a fresh handle *)
PutHandle(l) ==
  /\ Len(session) < MaxHandles
  /\ session' = Append(session, [login |-> l, row |-> TRUE])

RemoveByHandle(h) == session' = [session EXCEPT ![h].row = FALSE]

-----------------------------------------------------------------------------
(* oauth/callback: Cognito's tokens, a new handle, both cookies, back to the page *)
Login ==
  /\ ssoPage = "login"
  /\ PutHandle(Cardinality(LoginsMade) + 1)
  /\ authCookie' = "live" /\ refreshCookie' = Len(session) + 1 /\ ssoPage' = "in"
  /\ UNCHANGED <<fetch, logout, left, atOnce, broken>>

TokenAges ==
  /\ authCookie = "live" /\ authCookie' = "stale"
  /\ UNCHANGED <<refreshCookie, session, fetch, logout, ssoPage, left, atOnce, broken>>

(* A page's request with a token that is not valid is answered 401. *)
Meets401(f) ==
  /\ ssoPage = "in" /\ FetchAt(f, "none") /\ authCookie # "live"
  /\ FetchTo(f, "401")
  /\ UNCHANGED <<authCookie, refreshCookie, session, logout, ssoPage, left, atOnce, broken>>

(* oauth/refresh is sent with the cookie of that moment. *)
SendRefresh(f) ==
  /\ FetchAt(f, "401")
  /\ IF refreshCookie = 0
     THEN FetchTo(f, "refused") /\ UNCHANGED atOnce
     ELSE /\ fetch' = [fetch EXCEPT ![f] = [pc |-> "get", handle |-> refreshCookie, next |-> 0]]
          /\ atOnce' = IF \/ logout.handle = refreshCookie
                         \/ \E g \in Fetches : fetch[g].handle = refreshCookie
                      THEN atOnce \union {LoginOf(refreshCookie)} ELSE atOnce
  /\ UNCHANGED <<authCookie, refreshCookie, session, logout, ssoPage, left, broken>>

GetByHandle(f) ==
  /\ FetchAt(f, "get")
  /\ FetchTo(f, IF session[fetch[f].handle].row THEN "cognito" ELSE "refused")
  /\ UNCHANGED <<authCookie, refreshCookie, session, logout, ssoPage, left, atOnce, broken>>

(* Cognito refuses, as it does, too, where the row would be past its time. *)
CognitoAnswers(f) ==
  /\ FetchAt(f, "cognito")
  /\ FetchTo(f, "put") \/ FetchTo(f, "refused")
  /\ UNCHANGED <<authCookie, refreshCookie, session, logout, ssoPage, left, atOnce, broken>>

PutNext(f) ==
  /\ FetchAt(f, "put") /\ PutHandle(LoginOf(fetch[f].handle))
  /\ fetch' = [fetch EXCEPT ![f].pc = "remove", ![f].next = Len(session) + 1]
  /\ UNCHANGED <<authCookie, refreshCookie, logout, ssoPage, left, atOnce, broken>>

RemoveOld(f) ==
  /\ FetchAt(f, "remove") /\ RemoveByHandle(fetch[f].handle)
  /\ FetchTo(f, "answer")
  /\ UNCHANGED <<authCookie, refreshCookie, logout, ssoPage, left, atOnce, broken>>

(* The cookies of the answer are set; the request is tried once more. *)
RefreshAnswered(f) ==
  /\ FetchAt(f, "answer")
  /\ authCookie' = "live" /\ refreshCookie' = fetch[f].next
  /\ fetch' = [fetch EXCEPT ![f] = [Waiting EXCEPT !.pc = "retry"]]
  /\ UNCHANGED <<session, logout, ssoPage, left, atOnce, broken>>

(* The answer does not arrive: the fetch rejects, and nobody is sent anywhere. *)
AnswerLost(f) ==
  /\ fetch[f].pc \in ServerSteps
  /\ atOnce' = atOnce \union (IF FetchAt(f, "answer") THEN {LoginOf(fetch[f].handle)} ELSE {})
  /\ broken' = broken \union {LoginOf(fetch[f].handle)}
  /\ FetchEnds(f)
  /\ UNCHANGED <<authCookie, refreshCookie, session, logout, ssoPage, left>>

(* A call of the table rejects on the server. *)
RefreshFails(f) ==
  /\ fetch[f].pc \in ServerSteps \ {"answer"}
  /\ broken' = broken \union {LoginOf(fetch[f].handle)}
  /\ fetch' = [fetch EXCEPT ![f] = [Waiting EXCEPT !.pc = "refused"]]
  /\ UNCHANGED <<authCookie, refreshCookie, session, logout, ssoPage, left, atOnce>>

(* The retry, or the first answer if there was no refresh; still 401 is onUnauthorized. *)
FetchDone(f) ==
  /\ FetchAt(f, "retry") \/ FetchAt(f, "refused")
  /\ ssoPage' = IF FetchAt(f, "retry") /\ authCookie = "live" THEN ssoPage ELSE "login"
  /\ FetchEnds(f)
  /\ UNCHANGED <<authCookie, refreshCookie, session, logout, left, atOnce, broken>>

-----------------------------------------------------------------------------
SendLogout ==
  /\ ssoPage = "in" /\ logout.pc = "none" /\ refreshCookie # 0
  /\ logout' = [pc |-> "sent", handle |-> refreshCookie]
  /\ atOnce' = IF \E f \in Fetches : fetch[f].handle = refreshCookie
              THEN atOnce \union {LoginOf(refreshCookie)} ELSE atOnce
  /\ UNCHANGED <<authCookie, refreshCookie, session, fetch, ssoPage, left, broken>>

(* removeByHandle; a plausible bug is to clear the cookies only. *)
LogoutKeepsRow ==
  /\ logout.pc = "sent"
  /\ logout' = [logout EXCEPT !.pc = "removed"]
  /\ UNCHANGED <<authCookie, refreshCookie, session, fetch, ssoPage, left, atOnce, broken>>

LogoutRemoves ==
  /\ logout.pc = "sent"
  /\ RemoveByHandle(logout.handle)
  /\ logout' = [logout EXCEPT !.pc = "removed"]
  /\ UNCHANGED <<authCookie, refreshCookie, fetch, ssoPage, left, atOnce, broken>>

LogoutAnswered ==
  /\ logout.pc = "removed"
  /\ authCookie' = "none" /\ refreshCookie' = 0 /\ ssoPage' = "login"
  /\ left' = left \union {LoginOf(logout.handle)}
  /\ logout' = NoLogout
  /\ UNCHANGED <<session, fetch, atOnce, broken>>

(* A logout whose fetch fails goes to the login page like any other. *)
LogoutLost ==
  /\ logout.pc # "none"
  /\ logout' = NoLogout /\ ssoPage' = "login"
  /\ atOnce' = atOnce \union {LoginOf(logout.handle)}
  /\ UNCHANGED <<authCookie, refreshCookie, session, fetch, left, broken>>

SsoNext ==
  \/ Login \/ TokenAges
  \/ SendLogout \/ LogoutRemoves \/ LogoutAnswered \/ LogoutLost
  \/ \E f \in Fetches :
       \/ Meets401(f) \/ SendRefresh(f) \/ GetByHandle(f) \/ CognitoAnswers(f) \/ PutNext(f)
       \/ RemoveOld(f) \/ RefreshAnswered(f) \/ AnswerLost(f) \/ RefreshFails(f) \/ FetchDone(f)

SsoSpec == SsoInit /\ [][SsoNext]_ssoVars

-----------------------------------------------------------------------------
SsoTypeOK ==
  /\ authCookie \in {"none", "live", "stale"} /\ refreshCookie \in {0} \union DOMAIN session
  /\ \A h \in DOMAIN session : session[h].row \in BOOLEAN
  /\ left \union atOnce \union broken \subseteq LoginsMade /\ ssoPage \in {"in", "login"}
  /\ \A f \in Fetches : fetch[f].handle \in {0} \union DOMAIN session

(* The handle in the browser's cookie has its row, when no request is on its   *)
(* way: a refresh that fails at any point, at Cognito or at the table, leaves  *)
(* the handle it came with.  The exceptions are two requests on one handle at  *)
(* once, and an answer that was lost.                                          *)
HandleIsLive ==
  (refreshCookie # 0 /\ logout.pc = "none" /\ \A f \in Fetches : fetch[f].handle = 0) =>
    session[refreshCookie].row \/ LoginOf(refreshCookie) \in atOnce

(* A logout ends the session: no handle of its login is left that could be     *)
(* refreshed, unless a refresh raced with it or with another, or failed.       *)
LogoutEndsSession ==
  \A h \in DOMAIN session :
    LoginOf(h) \in left \ (atOnce \union broken) => ~session[h].row

(* A session is there while its browser holds the handle and gone once it has *)
(* logged out.                                                                 *)
SessionHolds == HandleIsLive /\ LogoutEndsSession
=============================================================================
