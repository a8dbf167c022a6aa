------------------------------ MODULE McpLogin ------------------------------
(***************************************************************************)
(* How the agent's settings log in to an MCP server (mcp-oauth-flow.ts):   *)
(* the pending states in localStorage, the one popup window that every     *)
(* login opens under the same name, the callback page in it, whose effect  *)
(* runs twice under React's StrictMode, the messages to the opener, and    *)
(* the tokens in IndexedDB.                                                *)
(***************************************************************************)
EXTENDS Naturals, Sequences

CONSTANTS
  McpServers,
  SiteOf,         \* what each server answers to the discovery: see Discovered
  AuthServers,    \* the authorization servers whose metadata can be had
  Logins,         \* the runs of startOAuth: bounds their number
  MaxReloads,     \* bounds how often the user reloads the callback page
  NoLogin

ASSUME McpLoginAssumption == MaxReloads \in Nat /\ NoLogin \notin Logins

VARIABLES
  mlogin,      \* per login: its server, who waits for it, and how that one stands
  pendingOf,   \* the logins whose state is in localStorage
  popup,       \* the window: the login it shows, where it is, how many were opened
  effects,     \* the two runs of the callback page's effect
  notified,    \* notifiedRef of the callback page
  spent,       \* the logins whose code the token endpoint has redeemed
  mail,        \* the messages on their way to the opener: done or not
  mtoken,      \* per server: the login that its token came from, or NoLogin
  loggedIn,    \* tokenStatus of the editor
  reloads

loginVars == <<mlogin, pendingOf, popup, effects, notified, spent, mail, mtoken, loggedIn, reloads>>

EffectRuns == {1, 2}
NoRuns == [r \in EffectRuns |-> "none"]
Unused == [server |-> NoLogin, by |-> "button", stage |-> "idle", win |-> 0]
Shut == [login |-> NoLogin, at |-> "closed", number |-> 0]

McpLoginInit ==
  /\ mlogin = [l \in Logins |-> Unused] /\ pendingOf = {}
  /\ popup = Shut /\ effects = NoRuns /\ notified = FALSE
  /\ spent = {} /\ mail = <<>> /\ reloads = 0
  /\ mtoken = [s \in McpServers |-> NoLogin] /\ loggedIn = [s \in McpServers |-> FALSE]

(* A site: the document under the well-known path, the one at its root, the one     *)
(* that the header of its 401 points to, and what a plain GET answers.  Each is     *)
(* <<>> where there is no answer, or <<the authorization servers that it names>>.   *)
WellKnown(site) == IF site.path # <<>> THEN site.path ELSE site.root
NamesLive(doc) == doc # <<>> /\ doc[1] # <<>> /\ doc[1][1] \in AuthServers

(* discoverFrom401; discoverFromConfig: the well-known documents, then the server. *)
Discovered401(site) == NamesLive(IF site.header # <<>> THEN site.header ELSE WellKnown(site))
Discovered(site) ==
  \/ NamesLive(WellKnown(site))
  \/ IF site.refuses THEN Discovered401(site) ELSE NamesLive(site.answer)

ServerOf(l) == mlogin[l].server
TokenOf(l) == mtoken[ServerOf(l)]

-----------------------------------------------------------------------------
(* The editor *)

(* The next run of startOAuth *)
Fresh(l) == mlogin[l] = Unused /\ l = CHOOSE x \in Logins : mlogin[x] = Unused

(* popup.closed: as soon as the page has called window.close *)
Gone == popup.at \in {"closing", "closed"}

(* startOAuth, once the discovery has found the server's endpoints: the state is  *)
(* kept, and the window of that name is opened, or sent to the new page if it is  *)
(* open: what its old page was doing ends.                                        *)
Opens(l, s, by) ==
  LET number == IF Gone THEN popup.number + 1 ELSE popup.number
  IN  /\ Fresh(l)
      /\ mlogin' = [mlogin EXCEPT ![l] = [server |-> s, by |-> by, stage |-> "waits", win |-> number]]
      /\ pendingOf' = pendingOf \union {l}
      /\ popup' = [login |-> l, at |-> "consent", number |-> number]
      /\ effects' = NoRuns /\ notified' = FALSE

(* handleLogin *)
LogIn(l, s) ==
  /\ ~loggedIn[s] /\ Discovered(SiteOf[s]) /\ Opens(l, s, "button")
  /\ UNCHANGED <<spent, mail, mtoken, loggedIn, reloads>>

(* window.open gave nothing; the state stays. *)
Blocks(l, s) ==
  /\ Fresh(l) /\ ~loggedIn[s]
  /\ mlogin' = [mlogin EXCEPT ![l] = [Unused EXCEPT !.server = s, !.stage = "failed"]]
  /\ pendingOf' = pendingOf \union {l}
  /\ UNCHANGED <<popup, effects, notified, spent, mail, mtoken, loggedIn, reloads>>

(* runDiscovery: the server answers 401 to a list; mcpRequest drops the token that *)
(* is there by then, whichever it sent, and the login follows.                     *)
DiscoveryAsks(l, s) ==
  /\ SiteOf[s].refuses /\ Discovered401(SiteOf[s])
  /\ Opens(l, s, "discovery") /\ mtoken' = [mtoken EXCEPT ![s] = NoLogin]
  /\ UNCHANGED <<spent, mail, loggedIn, reloads>>

(* A call of the service worker meets a 401, or the token comes to its end. *)
TokenDropped(s) ==
  /\ mtoken[s] # NoLogin /\ mtoken' = [mtoken EXCEPT ![s] = NoLogin]
  /\ UNCHANGED <<mlogin, pendingOf, popup, effects, notified, spent, mail, loggedIn, reloads>>

(* handleLogout *)
LogOut(s) ==
  /\ loggedIn[s]
  /\ loggedIn' = [loggedIn EXCEPT ![s] = FALSE] /\ mtoken' = [mtoken EXCEPT ![s] = NoLogin]
  /\ UNCHANGED <<mlogin, pendingOf, popup, effects, notified, spent, mail, reloads>>

(* The next message settles every login that waits, for handler does not look at  *)
(* whose it is.  handleLogin then looks for a token of its own server;            *)
(* runDiscovery takes the server for logged in.                                   *)
Delivered ==
  LET done == Head(mail)
      told == {l \in Logins : mlogin[l].stage = "waits"}
      by(how, s) == \E l \in told : mlogin[l].by = how /\ ServerOf(l) = s
  IN  /\ mail # <<>> /\ mail' = Tail(mail)
      /\ mlogin' = [l \in Logins |->
           IF l \in told THEN [mlogin[l] EXCEPT !.stage = IF done THEN "done" ELSE "failed"]
           ELSE mlogin[l]]
      /\ loggedIn' = [s \in McpServers |->
           CASE done /\ by("discovery", s) -> TRUE
             [] done /\ by("button", s) -> mtoken[s] # NoLogin
             [] OTHER -> loggedIn[s]]
      /\ UNCHANGED <<pendingOf, popup, effects, notified, spent, mtoken, reloads>>

(* The timer of a login finds its window closed. *)
Cancelled(l) ==
  /\ mlogin[l].stage = "waits"
  /\ Gone \/ popup.number # mlogin[l].win
  /\ mlogin' = [mlogin EXCEPT ![l].stage = "failed"]
  /\ UNCHANGED <<pendingOf, popup, effects, notified, spent, mail, mtoken, loggedIn, reloads>>

-----------------------------------------------------------------------------
(* The window *)

(* The window goes, and its scripts with it. *)
Closes ==
  /\ popup.at # "closed" /\ popup' = [popup EXCEPT !.at = "closed"] /\ effects' = NoRuns
  /\ UNCHANGED <<mlogin, pendingOf, notified, spent, mail, mtoken, loggedIn, reloads>>

(* The authorization server sends the window back with a code, or without one: the *)
(* page then shows "Missing code or state" and tells nobody.                       *)
Consents(l) ==
  /\ popup.login = l /\ popup.at = "consent"
  /\ \E at \in {"arrived", "stuck"} : popup' = [popup EXCEPT !.at = at]
  /\ UNCHANGED <<mlogin, pendingOf, effects, notified, spent, mail, mtoken, loggedIn, reloads>>

(* A run ends: the first to do so tells the opener and closes the window.  A        *)
(* plausible bug: a failure is only shown.                                          *)
TellQuietly(r, done) ==
  /\ effects' = [effects EXCEPT ![r] = "over"] /\ notified' = TRUE
  /\ IF notified \/ ~done THEN UNCHANGED <<mail, popup>>
     ELSE mail' = Append(mail, done) /\ popup' = [popup EXCEPT !.at = "closing"]
Tell(r, done) ==
  /\ effects' = [effects EXCEPT ![r] = "over"] /\ notified' = TRUE
  /\ IF notified THEN UNCHANGED <<mail, popup>>
     ELSE mail' = Append(mail, done) /\ popup' = [popup EXCEPT !.at = "closing"]

(* The effect, twice in a development build: the second run finds the state in      *)
(* exchangeInFlight.  Without a pending state it fails.                             *)
Mounted(l) ==
  /\ popup.login = l /\ popup.at = "arrived"
  /\ IF l \in pendingOf
     THEN /\ \E second \in {"none", "polls"} :
               effects' = [r \in EffectRuns |-> IF r = 1 THEN "posts" ELSE second]
          /\ popup' = [popup EXCEPT !.at = "callback"]
          /\ UNCHANGED <<notified, mail>>
     ELSE Tell(1, FALSE)
  /\ UNCHANGED <<mlogin, pendingOf, spent, mtoken, loggedIn, reloads>>

Reload ==
  /\ popup.at = "callback" /\ reloads < MaxReloads
  /\ reloads' = reloads + 1 /\ popup' = [popup EXCEPT !.at = "arrived"]
  /\ effects' = NoRuns /\ notified' = FALSE
  /\ UNCHANGED <<mlogin, pendingOf, spent, mail, mtoken, loggedIn>>

(* The token endpoint redeems a code once. *)
Redeems(l) ==
  /\ popup.login = l /\ effects[1] = "posts"
  /\ effects' = [effects EXCEPT ![1] = IF l \in spent THEN "refused" ELSE "granted"]
  /\ spent' = spent \union {l}
  /\ UNCHANGED <<mlogin, pendingOf, popup, notified, mail, mtoken, loggedIn, reloads>>

(* The answer is a token: it is saved under the server of the pending state, which *)
(* is then cleared.                                                                *)
Saves(l) ==
  /\ popup.login = l /\ effects[1] = "granted"
  /\ mtoken' = [mtoken EXCEPT ![ServerOf(l)] = l] /\ pendingOf' = pendingOf \ {l}
  /\ Tell(1, TRUE)
  /\ UNCHANGED <<mlogin, spent, loggedIn, reloads>>

(* The answer is invalid_grant, or the duplicate run wakes up: a token of the       *)
(* server will do, whichever login it came from.                                    *)
SettlesFor(l) ==
  \E r \in EffectRuns :
    /\ popup.login = l /\ effects[r] \in {"refused", "polls"} /\ TokenOf(l) # NoLogin
    /\ pendingOf' = pendingOf \ {l} /\ Tell(r, TRUE)
    /\ UNCHANGED <<mlogin, spent, mtoken, loggedIn, reloads>>

(* The endpoint fails or refuses, or the duplicate run has waited five seconds; the *)
(* state stays.                                                                     *)
GivesUp(l) ==
  \E r \in EffectRuns :
    /\ popup.login = l /\ effects[r] \in {"posts", "granted", "refused", "polls"}
    /\ effects[r] = "refused" => TokenOf(l) = NoLogin
    /\ Tell(r, FALSE)
    /\ UNCHANGED <<mlogin, pendingOf, spent, mtoken, loggedIn, reloads>>

-----------------------------------------------------------------------------
McpLoginNext ==
  \/ \E l \in Logins, s \in McpServers : LogIn(l, s) \/ Blocks(l, s) \/ DiscoveryAsks(l, s)
  \/ \E s \in McpServers : TokenDropped(s) \/ LogOut(s)
  \/ Delivered \/ Closes \/ Reload
  \/ \E l \in Logins :
       Cancelled(l) \/ Consents(l) \/ Mounted(l) \/ Redeems(l) \/ Saves(l) \/ SettlesFor(l) \/ GivesUp(l)

(* The page in the window runs on, its requests are answered or given up, messages *)
(* arrive and the timers fire; the user and the authorization server owe nothing.  *)
McpLoginFairness ==
  /\ WF_loginVars(Delivered) /\ WF_loginVars(\E l \in Logins : Cancelled(l))
  /\ WF_loginVars(\E l \in Logins : Mounted(l))
  /\ WF_loginVars(\E l \in Logins : SettlesFor(l) \/ GivesUp(l))

McpLoginSpec == McpLoginInit /\ [][McpLoginNext]_loginVars /\ McpLoginFairness

-----------------------------------------------------------------------------
McpLoginTypeOK ==
  /\ pendingOf \subseteq Logins /\ spent \subseteq Logins
  /\ popup.login \in Logins \union {NoLogin}
  /\ popup.at \in {"closed", "closing", "consent", "stuck", "arrived", "callback"}
  /\ \A l \in Logins : mlogin[l].stage \in {"idle", "waits", "done", "failed"}
  /\ \A s \in McpServers : mtoken[s] \in Logins \union {NoLogin} /\ loggedIn[s] \in BOOLEAN

(* Whatever the window comes to once the callback page is in it, each login that   *)
(* the editor waits for is settled, also one whose window was taken over, reloaded *)
(* or closed, unless the window is sent to another login's page.                   *)
LoginSettles ==
  \A l \in Logins :
    popup.at = "callback" /\ mlogin[l].stage = "waits"
      ~> mlogin[l].stage # "waits" \/ popup.at = "consent"

(* The editor is told of a login that is done only while the login's server has a  *)
(* token, and a token is stored under the server whose endpoint has redeemed it.   *)
DoneHasToken ==
  [][/\ \A n \in 1..Len(mail') :
          n > Len(mail) /\ mail'[n] => mtoken'[ServerOf(popup.login)] # NoLogin
     /\ \A s \in McpServers :
          mtoken'[s] \notin {mtoken[s], NoLogin} =>
            mtoken'[s] \in spent /\ mlogin[mtoken'[s]].server = s]_loginVars

(* A login ends, and ends well only with a token. *)
LoginEndsWell == LoginSettles /\ DoneHasToken
=============================================================================
