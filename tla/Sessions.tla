------------------------------ MODULE Sessions ------------------------------
(***************************************************************************)
(* Signed-in sessions from the browser to the table refresh_tokens:         *)
(* AuthService.login, refresh and logout with AuthController's cookie       *)
(* (core/auth), and the browser side, apps/web/src/lib/api-client.ts with   *)
(* the session boundary, the login page and useAuth.logout.                 *)
(*                                                                          *)
(* One browser: the refresh cookie belongs to all its tabs, an access token *)
(* to one tab.  A call is a request to /auth that the API handles in        *)
(* several awaits while the tab waits, reloads, or other calls run.  Rows   *)
(* of refresh_tokens are numbered in the order they are inserted.           *)
(***************************************************************************)
EXTENDS Accounts

CONSTANTS Tabs, Calls,
          People,      \* the users who sign in with this browser
          MaxTokens,   \* bound on the rows of refresh_tokens
          NoTab        \* the tab of a call whose page is gone

ASSUME SessionsAssumption ==
  MaxTokens \in Nat /\ IsFiniteSet(Calls) /\ NoTab \notin Tabs /\ People \subseteq Users

VARIABLES tok,      \* refresh_tokens
          used,     \* how many rows it has
          cookie,   \* sidpro_refresh_session: a token, or 0
          tab,      \* what a tab keeps in memory
          call,     \* the calls to /auth that run
          quiet,    \* nothing went wrong yet, and no two calls overlapped
          ended     \* ghost: the tokens whose logout has been answered

sessionVars == <<tok, used, cookie, tab, call, quiet, ended>>
vars == <<accountVars, sessionVars>>

Token == 1 .. MaxTokens
NoToken == [user |-> NoUser, live |-> FALSE, expired |-> FALSE, parent |-> 0, root |-> 0]
TokenType == [user : Users \cup {NoUser}, live : BOOLEAN, expired : BOOLEAN,
              parent : 0 .. MaxTokens, root : 0 .. MaxTokens]

\* mount: the page has just been loaded and its effect is still to run; user: whose
\* access token the tab holds; waiting: who waits for the refresh of this tab
\* (refreshPromise), the page that loads or requests that met a 401.
TabType == [page : {"login", "admin"}, mount : BOOLEAN, user : Users \cup {NoUser},
            waiting : SUBSET {"load", "request"}]
LoginPage == [page |-> "login", mount |-> TRUE, user |-> NoUser, waiting |-> {}]

\* known: how many tokens there were at the lookup; seen: the rows that the update
\* which revokes them has in its snapshot; alarm: reuse was detected.
Idle == [op |-> "none", step |-> "idle", tab |-> NoTab, cookie |-> 0, user |-> NoUser,
         child |-> 0, known |-> 0, seen |-> {}, alarm |-> FALSE]
SessionCallType ==
  [op : {"none", "login", "refresh", "logout"},
   step : {"idle", "lookup", "revokeOne", "revokeAll", "revoking", "rotate", "issue", "revoke",
           "audit", "done", "failed"},
   tab : Tabs \cup {NoTab}, cookie : 0 .. MaxTokens, user : Users \cup {NoUser},
   child : 0 .. MaxTokens, known : 0 .. MaxTokens, seen : SUBSET Token, alarm : BOOLEAN]

TypeOK ==
  /\ AccountsTypeOK
  /\ tok \in [Token -> TokenType]
  /\ used \in 0 .. MaxTokens
  /\ cookie \in 0 .. MaxTokens
  /\ tab \in [Tabs -> TabType]
  /\ call \in [Calls -> SessionCallType]
  /\ quiet \in BOOLEAN
  /\ ended \in SUBSET Token

SessionsInit ==
  /\ tok = [k \in Token |-> NoToken]
  /\ used = 0
  /\ cookie = 0
  /\ tab = [t \in Tabs |-> LoginPage]
  /\ call = [c \in Calls |-> Idle]
  /\ quiet = TRUE
  /\ ended = {}

-----------------------------------------------------------------------------
(* The browser.                                                            *)
Refreshing(t) == \E c \in Calls : call[c].tab = t /\ call[c].op = "refresh"
Busy(t) == \E c \in Calls : call[c].tab = t /\ call[c].op \in {"login", "logout"}

\* No call runs but the refresh that this one, a refresh of the same tab, would join.
Alone(t, op) ==
  \A d \in Calls : call[d] = Idle \/ (op = "refresh" /\ call[d].op = op /\ call[d].tab = t)

\* The bound on tokens: a call that may need a new one starts while there is room.
Room == used + Cardinality({c \in Calls : call[c].op \in {"login", "refresh"} /\ call[c].child = 0}) < MaxTokens

Send(c, t, op, step, u) ==
  /\ call[c] = Idle
  /\ op # "logout" => Room
  /\ call' = [call EXCEPT ![c] = [Idle EXCEPT !.op = op, !.step = step, !.tab = t,
                                              !.cookie = cookie, !.user = u]]
  /\ quiet' = (quiet /\ Alone(t, op))

MutRefreshAccessToken(c, t, who, page) ==
  /\ tab' = [tab EXCEPT ![t] = [page EXCEPT !.waiting = @ \cup {who}]]
  /\ Send(c, t, "refresh", IF cookie = 0 THEN "failed" ELSE "lookup", NoUser)
  /\ UNCHANGED <<tok, used, cookie, ended>>

\* refreshAccessToken: whoever needs a token joins the refresh of this tab, or starts
\* one with the cookie of the moment.  The API refuses a call without a cookie at once.
RefreshAccessToken(c, t, who, page) ==
  /\ tab' = [tab EXCEPT ![t] = [page EXCEPT !.waiting = @ \cup {who}]]
  /\ IF Refreshing(t)
       THEN UNCHANGED <<call, quiet>>
       ELSE Send(c, t, "refresh", IF cookie = 0 THEN "failed" ELSE "lookup", NoUser)
  /\ UNCHANGED <<tok, used, cookie, ended>>

\* A page is loaded again: the memory of the tab is gone, and so is its interest in the
\* calls under way.
Orphaned(t) == [c \in Calls |-> IF call[c].tab = t THEN [call[c] EXCEPT !.tab = NoTab] ELSE call[c]]
Reload(t) ==
  /\ ~tab[t].mount
  /\ tab' = [tab EXCEPT ![t] = [LoginPage EXCEPT !.page = tab[t].page]]
  /\ call' = Orphaned(t)
  /\ quiet' = (quiet /\ call' = call)
  /\ UNCHANGED <<tok, used, cookie, ended>>

\* AdminSessionBoundary and the login page synchronize the profile: without an access
\* token in memory they refresh.
Mount(c, t) ==
  /\ tab[t].mount
  /\ RefreshAccessToken(c, t, "load", [tab[t] EXCEPT !.mount = FALSE])

\* requestWithAuthRetry: a request whose token is older than 15 minutes when it arrives.
RequestUnauthorized(c, t) ==
  /\ tab[t].page = "admin" /\ tab[t].user # NoUser
  /\ RefreshAccessToken(c, t, "request", tab[t])

\* The form of the login page; Busy is its disabled button.
SubmitLogin(c, t, u) ==
  /\ tab[t].page = "login" /\ ~tab[t].mount /\ ~Busy(t)
  /\ Send(c, t, "login", "lookup", u)
  /\ UNCHANGED <<tok, used, cookie, tab, ended>>

SubmitLogout(c, t) ==
  /\ tab[t].page = "admin" /\ tab[t].user # NoUser /\ ~Busy(t)
  /\ Send(c, t, "logout", IF cookie = 0 THEN "audit" ELSE "revoke", tab[t].user)
  /\ UNCHANGED <<tok, used, cookie, tab, ended>>

-----------------------------------------------------------------------------
(* The API.                                                                *)
Step(c, step) == call' = [call EXCEPT ![c].step = step]
Rest == UNCHANGED <<tok, used, cookie, tab, quiet, ended>>

Create(u, parent) ==
  /\ used' = used + 1
  /\ tok' = [k \in Token |->
       IF k = used + 1
         THEN [user |-> u, live |-> TRUE, expired |-> FALSE, parent |-> parent,
               root |-> IF parent = 0 THEN k ELSE tok[parent].root]
         ELSE IF k = parent THEN [tok[k] EXCEPT !.live = FALSE] ELSE tok[k]]

\* login finds the account active; deleted_at is not looked at.
LoginFindUser(c) ==
  /\ call[c].op = "login" /\ call[c].step = "lookup"
  /\ Step(c, IF userStatus[call[c].user] = "active" THEN "issue" ELSE "failed")
  /\ Rest

IssueTokens(c) ==
  /\ call[c].step = "issue"
  /\ Create(call[c].user, 0)
  /\ call' = [call EXCEPT ![c].step = "audit", ![c].child = used + 1]
  /\ UNCHANGED <<cookie, tab, quiet, ended>>

\* refresh reads the row with its user and decides on what it read.
FoundStep(k) ==
  LET u == tok[k].user IN
  IF ~tok[k].live THEN "revokeAll"
  ELSE IF tok[k].expired THEN "revokeOne"
  ELSE IF userStatus[u] # "active" \/ deleted[u] THEN "revokeAll"
  ELSE "rotate"

RefreshFindToken(c) ==
  /\ call[c].op = "refresh" /\ call[c].step = "lookup"
  /\ LET k == call[c].cookie IN
     call' = [call EXCEPT ![c].step = FoundStep(k), ![c].user = tok[k].user,
                          ![c].known = used, ![c].alarm = ~tok[k].live]
  /\ Rest

RevokeExpired(c) ==
  /\ call[c].step = "revokeOne"
  /\ tok' = [tok EXCEPT ![call[c].cookie].live = FALSE]
  /\ Step(c, "failed")
  /\ UNCHANGED <<used, cookie, tab, quiet, ended>>

\* The transaction: only the call that turns the row from live to revoked gets a new
\* one.  The loser reads the row again, which is not expired, and raises the alarm.
Rotate(c) ==
  /\ call[c].step = "rotate"
  /\ IF tok[call[c].cookie].live
       THEN /\ Create(call[c].user, call[c].cookie)
            /\ call' = [call EXCEPT ![c].step = "audit", ![c].child = used + 1]
       ELSE /\ call' = [call EXCEPT ![c].step = "revokeAll", ![c].alarm = TRUE]
            /\ UNCHANGED <<tok, used>>
  /\ UNCHANGED <<cookie, tab, quiet, ended>>

MutRevokeAllStart(c) ==
  /\ call[c].step = "revokeAll"
  /\ call' = [call EXCEPT ![c].step = "revoking", ![c].seen = {call[c].cookie}]
  /\ Rest

\* revokeActiveRefreshTokens is one UPDATE, but under READ COMMITTED it sees the rows
\* of its snapshot only: a token that a rotation commits meanwhile is not among them.
RevokeAllStart(c) ==
  /\ call[c].step = "revokeAll"
  /\ call' = [call EXCEPT ![c].step = "revoking",
                          ![c].seen = {k \in Token : tok[k].user = call[c].user /\ tok[k].live}]
  /\ Rest

RevokeAllEnd(c) ==
  /\ call[c].step = "revoking"
  /\ tok' = [k \in Token |-> IF k \in call[c].seen THEN [tok[k] EXCEPT !.live = FALSE] ELSE tok[k]]
  /\ call' = [call EXCEPT ![c].step = "failed", ![c].seen = {}]
  /\ UNCHANGED <<used, cookie, tab, quiet, ended>>

MutLogoutRevoke(c) == call[c].step = "revoke" /\ Step(c, "audit") /\ Rest

LogoutRevoke(c) ==
  /\ call[c].step = "revoke"
  /\ LET k == call[c].cookie IN
     tok' = IF tok[k].user = call[c].user THEN [tok EXCEPT ![k].live = FALSE] ELSE tok
  /\ Step(c, "audit")
  /\ UNCHANGED <<used, cookie, tab, quiet, ended>>

\* The audit row comes last; when it cannot be written the call fails, done as it is.
Audit(c) ==
  /\ call[c].step = "audit"
  /\ \/ Step(c, "done") /\ quiet' = quiet
     \/ Step(c, "failed") /\ quiet' = FALSE
  /\ UNCHANGED <<tok, used, cookie, tab, ended>>

-----------------------------------------------------------------------------
(* The answer.  The browser stores its cookie before the page sees it.      *)
CookieAfter(c) == IF call[c].op = "logout" THEN 0 ELSE call[c].child

MutSignedIn(c, t) == [tab[t] EXCEPT !.page = "admin", !.user = call[c].user]

\* setAuthSession; a refresh gets there when the profile (/auth/me) has come too, and
\* all who wait for it go on.
SignedIn(c, t) == [tab[t] EXCEPT !.page = "admin", !.user = call[c].user,
                                 !.waiting = IF call[c].op = "refresh" THEN {} ELSE @]

\* A refresh that came to nothing.  handleUnauthorized loads the login page anew; the
\* boundary routes to it and leaves the memory of the tab as it is.
Refused(t) == IF "request" \in tab[t].waiting THEN LoginPage
              ELSE [tab[t] EXCEPT !.page = "login", !.waiting = {}]

\* useAuth.logout clears the memory whatever the answer is, and routes to the login page.
LoggedOut(t) == [LoginPage EXCEPT !.waiting = tab[t].waiting]

PageAfter(c, t, ok) ==
  IF call[c].op = "logout" THEN LoggedOut(t)
  ELSE IF ok THEN SignedIn(c, t)
  ELSE IF call[c].op = "refresh" THEN Refused(t)
  ELSE tab[t]

\* ok: the page sees a success; stored: the browser has taken the cookie.  A page that
\* is loaded anew leaves its other calls behind.
Deliver(c, ok, stored) ==
  LET t == call[c].tab
      reload == t # NoTab /\ ~ok /\ call[c].op = "refresh" /\ "request" \in tab[t].waiting
  IN /\ cookie' = IF stored THEN CookieAfter(c) ELSE cookie
     /\ tab' = IF t = NoTab THEN tab ELSE [tab EXCEPT ![t] = PageAfter(c, t, ok)]
     /\ call' = [IF reload THEN Orphaned(t) ELSE call EXCEPT ![c] = Idle]
     /\ ended' = IF stored /\ quiet /\ call[c].op = "logout" /\ call[c].cookie # 0
                     /\ tok[call[c].cookie].user = call[c].user
                   THEN ended \cup {call[c].cookie} ELSE ended
     /\ UNCHANGED <<tok, used>>

Answer(c) ==
  /\ call[c].step = "done" /\ call[c].tab # NoTab
  /\ Deliver(c, TRUE, TRUE)
  /\ quiet' = quiet

\* A refusal leaves the cookie, dead as it may be, in the browser.
Refuse(c) ==
  /\ call[c].step = "failed"
  /\ Deliver(c, FALSE, FALSE)
  /\ quiet' = (quiet /\ (call[c].op = "refresh" => call[c].cookie = 0))

\* The answer is lost, or the profile that should follow it, or the page is gone.
LoseAnswer(c) ==
  /\ call[c].step = "done"
  /\ \E stored \in BOOLEAN :
       /\ stored => call[c].tab = NoTab \/ call[c].op = "refresh"
       /\ Deliver(c, FALSE, stored)
  /\ quiet' = FALSE

\* Seven days: a live row is out of date (of a revoked one nobody asks), and the cookie with it unless it is set to live longer.
Expire(k) ==
  /\ tok[k].live /\ ~tok[k].expired
  /\ tok' = [tok EXCEPT ![k].expired = TRUE]
  /\ \/ cookie = k /\ cookie' = 0 /\ quiet' = quiet
     \/ cookie' = cookie /\ quiet' = (quiet /\ cookie # k)
  /\ UNCHANGED <<used, tab, call, ended>>

-----------------------------------------------------------------------------
TabStep(t) ==
  \/ Reload(t)
  \/ \E c \in Calls : Mount(c, t) \/ RequestUnauthorized(c, t) \/ SubmitLogout(c, t)
  \/ \E c \in Calls, u \in People : SubmitLogin(c, t, u)

ApiStep(c) ==
  \/ LoginFindUser(c) \/ IssueTokens(c)
  \/ RefreshFindToken(c) \/ RevokeExpired(c) \/ Rotate(c) \/ RevokeAllStart(c) \/ RevokeAllEnd(c)
  \/ LogoutRevoke(c) \/ Audit(c)
  \/ Answer(c) \/ Refuse(c) \/ LoseAnswer(c)

SessionsNext == (\E t \in Tabs : TabStep(t)) \/ (\E c \in Calls : ApiStep(c)) \/ (\E k \in Token : Expire(k))

Init == AccountsInit /\ SessionsInit
Next == (SessionsNext /\ UNCHANGED accountVars) \/ (AccountsNext /\ UNCHANGED sessionVars)
Spec == Init /\ [][Next]_vars

\* The API finishes what it has begun, and an answer comes or is found to be lost.
CallsRunOn == \A c \in Calls : WF_vars(ApiStep(c) /\ UNCHANGED accountVars)

-----------------------------------------------------------------------------
(* Properties.                                                             *)
\* A token is rotated at most once, however many tabs present it together, and what
\* has been rotated is not live: one login has one live token (auth.service.ts:547).
OneLivePerLogin ==
  /\ \A j, k \in Token : tok[j].parent = tok[k].parent /\ tok[j].parent # 0 => j = k
  /\ \A j, k \in Token : tok[j].live /\ tok[k].live /\ tok[j].root = tok[k].root => j = k

\* When a call has detected reuse and answers, no token of the user that existed when
\* it looked is live any more, whatever was rotated or issued in the meantime
\* (auth.service.ts:525, :576).
AlarmEndsSessions ==
  \A c \in Calls : call[c].alarm /\ call[c].step = "failed" =>
    \A k \in 1 .. call[c].known : tok[k].user = call[c].user => ~tok[k].live

\* As long as calls came one at a time and every answer arrived, no refresh is taken
\* for reuse: the shared refresh of a tab (api-client.ts:83) and the cookie that each
\* answer replaces keep a browser from presenting a token twice.
NoFalseAlarm == quiet => \A c \in Calls : ~call[c].alarm

\* In such a browser a logout that was answered leaves nothing live of the login that
\* its cookie came from (auth.service.ts:617).
LogoutEndsLogin ==
  quiet => \A k \in ended, j \in Token : tok[j].root = tok[k].root => ~tok[j].live

\* Whoever waits for a refresh is answered: with a token or by the login page.
WaitersAnswered == \A t \in Tabs : tab[t].waiting # {} ~> tab[t].waiting = {}

\* What rotation and the detection of reuse promise, however many calls run.
RotationSound == TypeOK /\ OneLivePerLogin /\ AlarmEndsSessions
=============================================================================
