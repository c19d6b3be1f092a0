-------------------------- MODULE BrowserSessions --------------------------
(* The api-client of the web clients on top of Sessions: the tabs of one    *)
(* browser share a cookie jar; in each tab one request refreshes for all    *)
(* that find the access token expired, and a failed refresh signs out.      *)
EXTENDS Sessions

CONSTANTS
  Tabs,
  Requests,   \* the requests the pages make
  Logouts,    \* those that may be the logout button's
  TabOf,      \* the tab of each request
  User,       \* who uses the browser
  NoCall,
  MaxFaults   \* bound on failures of the server, answers lost on the way and
              \* logouts of all devices

ASSUME BrowserBounds ==
  User \in Users /\ NoCall \notin Calls /\ MaxFaults \in Nat /\ MaxTokens > 0
ASSUME TabsAssumption == Logouts \subseteq Requests /\ TabOf \in [Requests -> Tabs]

VARIABLES
  jar,        \* the auth cookies of the browser
  page,       \* whether a tab shows the login page
  refreshing, \* isRefreshing of each tab
  req,        \* where each request is; the waiting ones are the tab's queue
  faults,
  crossed,    \* history: a tab's session call met one of another tab, or a sign-out a refresh
  alarmed     \* history: a token that had been rotated came back

browser == <<jar, page, refreshing, req>>
vars    == <<sessions, browser, faults, crossed, alarmed>>

Places == {"new", "sent", "waiting", "refreshing", "signing-out", "leaving", "settled"}

(* A request may refresh once (_retry), and was sent with a valid access    *)
(* token or without one.                                                    *)
Request == [at : Places, first : BOOLEAN, auth : BOOLEAN, call : Calls \cup {NoCall}]

At(place)  == [at |-> place, first |-> TRUE, auth |-> FALSE, call |-> NoCall]
SentAgain  == [at |-> "sent", first |-> FALSE, auth |-> TRUE, call |-> NoCall]

Of(b)   == {r \in Requests : TabOf[r] = b}
NoJar   == [refresh |-> NoToken, access |-> FALSE, until |-> 0]
Cookie  == IF jar.until < now THEN NoToken ELSE jar.refresh

(* setAuthCookies, of a login and of a refresh.                             *)
JarOf(t) == [refresh |-> t, access |-> TRUE, until |-> now + Ttl]

(* The user has logged in and opened the tabs.                              *)
BrowserInit ==
  /\ now = 0
  /\ tokens = <<FirstToken(User, 1)>> /\ revoked = {} /\ replaced = {}
  /\ call = [c \in Calls |-> Idle]
  /\ ended = {} /\ overlapped = {} /\ forked = {}
  /\ jar = JarOf(1)
  /\ page = [b \in Tabs |-> "app"]
  /\ refreshing = [b \in Tabs |-> FALSE]
  /\ req = [r \in Requests |-> At("new")]
  /\ faults = 0
  /\ crossed = FALSE
  /\ alarmed = FALSE

Fault == faults < MaxFaults /\ faults' = faults + 1
ServerIdle == UNCHANGED <<sessions, alarmed>>

Moves(r, place) == req' = [req EXCEPT ![r] = At(place)]

(* fetch: the page sends the cookie it has; the call is the API's to serve. *)
FreeCall == CHOOSE c \in Calls : call[c].at = "idle"

Fetch(r, kind, place) ==
  /\ \E c \in Calls : call[c].at = "idle"
  /\ Start(FreeCall, kind, Cookie)
  /\ req' = [req EXCEPT ![r] = [At(place) EXCEPT !.call = FreeCall]]
  /\ crossed' = (crossed \/ \E c \in Calls : call[c].at # "idle" /\
       ~(kind = "refresh" /\ \E q \in Of(TabOf[r]) : req[q].at = "refreshing" /\ req[q].call = c))
  /\ UNCHANGED <<now, table, past, alarmed>>

SignOut(r) == Fetch(r, "logout", "signing-out")

-----------------------------------------------------------------------------
(* request() of api-client.ts.                                              *)

Send(r) ==
  /\ req[r].at = "new" /\ page[TabOf[r]] = "app"
  /\ req' = [req EXCEPT ![r].at = "sent", ![r].auth = jar.access]
  /\ UNCHANGED <<jar, page, refreshing, faults, crossed>> /\ ServerIdle

(* The API answers what the page asked for, or an error that is not 401 or 403. *)
Accepted(r) ==
  /\ req[r].at = "sent" /\ req[r].auth
  /\ Moves(r, "settled")
  /\ UNCHANGED <<jar, page, refreshing, faults, crossed>> /\ ServerIdle

Forbidden(r) ==
  /\ req[r].at = "sent" /\ req[r].auth
  /\ SignOut(r)
  /\ UNCHANGED <<jar, page, refreshing, faults>>

(* Faulty variant of Unauthorized: each request refreshes for itself.       *)
UnauthorizedAlone(r) ==
  /\ req[r].at = "sent" /\ ~req[r].auth
  /\ IF req[r].first
     THEN Fetch(r, "refresh", "refreshing") /\ refreshing' = [refreshing EXCEPT ![TabOf[r]] = TRUE]
     ELSE SignOut(r) /\ UNCHANGED refreshing
  /\ UNCHANGED <<jar, page, faults>>

Unauthorized(r) ==
  /\ req[r].at = "sent" /\ ~req[r].auth
  /\ \/ /\ req[r].first /\ refreshing[TabOf[r]]
        /\ Moves(r, "waiting")
        /\ UNCHANGED <<refreshing, crossed>> /\ ServerIdle
     \/ /\ req[r].first /\ ~refreshing[TabOf[r]]
        /\ Fetch(r, "refresh", "refreshing")
        /\ refreshing' = [refreshing EXCEPT ![TabOf[r]] = TRUE]
     \/ ~req[r].first /\ SignOut(r) /\ UNCHANGED refreshing
  /\ UNCHANGED <<jar, page, faults>>

OfOtherDevice(c) == call[c].token = NoToken /\ call[c].families # {}

AnswerTo(r, answers) == req[r].call \in Calls /\ call[req[r].call].at \in answers

Hears(r) == Answered(req[r].call) /\ UNCHANGED <<now, table, past, alarmed>>

Waiters(r) == {q \in Of(TabOf[r]) : req[q].at = "waiting"}

(* Faulty variant of Refreshed: only the one that refreshed is sent again.  *)
RefreshedOne(r) ==
  /\ req[r].at = "refreshing" /\ AnswerTo(r, {"refreshed"})
  /\ Hears(r)
  /\ jar' = JarOf(call[req[r].call].token)
  /\ refreshing' = [refreshing EXCEPT ![TabOf[r]] = FALSE]
  /\ req' = [req EXCEPT ![r] = SentAgain]
  /\ UNCHANGED <<page, faults, crossed>>

(* The waiting requests and the one that refreshed are sent once more.      *)
Refreshed(r) ==
  /\ req[r].at = "refreshing" /\ AnswerTo(r, {"refreshed"})
  /\ Hears(r)
  /\ jar' = JarOf(call[req[r].call].token)
  /\ refreshing' = [refreshing EXCEPT ![TabOf[r]] = FALSE]
  /\ req' = [q \in Requests |->
               IF q \in Waiters(r) \cup {r} THEN SentAgain ELSE req[q]]
  /\ UNCHANGED <<page, faults, crossed>>

(* The waiting requests fail, and the tab signs out; isRefreshing stays set *)
(* until it has, so that more requests may join the queue.                  *)
RefreshFails(r) ==
  /\ req[r].at = "refreshing" /\ AnswerTo(r, {"refused", "failed"})
  /\ LET c == req[r].call
     IN call' = [call EXCEPT ![c] = Begun("logout", Cookie)]
  /\ req' = [q \in Requests |-> CASE q = r -> [req[r] EXCEPT !.at = "signing-out"]
                                  [] q \in Waiters(r) -> At("settled")
                                  [] OTHER -> req[q]]
  /\ crossed' = (crossed \/ \E c \in Calls \ {req[r].call} : call[c].at # "idle")
  /\ UNCHANGED <<jar, page, refreshing, faults, now, table, past, alarmed>>

(* The page is replaced, with all its requests, by the login page, or by    *)
(* the start page if the proxy still sees a cookie.                         *)
Replaced(b) ==
  /\ page' = [page EXCEPT ![b] = IF jar'.refresh = NoToken THEN "login" ELSE "app"]
  /\ refreshing' = [refreshing EXCEPT ![b] = FALSE]
  /\ req' = [q \in Requests |->
               IF q \in Of(b) /\ req[q].at # "new" THEN At("settled") ELSE req[q]]

SignedOut(r) ==
  /\ req[r].at = "signing-out" /\ AnswerTo(r, {"done", "failed"})
  /\ Hears(r)
  /\ jar' = IF call[req[r].call].at = "done" THEN NoJar ELSE jar
  /\ Replaced(TabOf[r])
  /\ UNCHANGED <<faults, crossed>>

(* The logout button leaves for the login page without loading it anew.     *)
ClickLogout(r) ==
  /\ r \in Logouts /\ req[r].at = "new" /\ page[TabOf[r]] = "app"
  /\ Fetch(r, "logout", "leaving")
  /\ UNCHANGED <<jar, page, refreshing, faults>>

LoggedOut(r) ==
  /\ req[r].at = "leaving" /\ AnswerTo(r, {"done", "failed"})
  /\ Hears(r)
  /\ jar' = IF call[req[r].call].at = "done" THEN NoJar ELSE jar
  /\ page' = [page EXCEPT ![TabOf[r]] = IF jar'.refresh = NoToken THEN "login" ELSE "app"]
  /\ Moves(r, "settled")
  /\ UNCHANGED <<refreshing, faults, crossed>>

-----------------------------------------------------------------------------
(* An answer gets lost: the page sees the call fail while the API serves it. *)
AnswerLost(r) ==
  /\ req[r].at \in {"refreshing", "signing-out", "leaving"} /\ req[r].call \in Calls
  /\ Fault
  /\ CASE req[r].at = "refreshing" ->
            /\ \E c \in Calls : call[c].at = "idle"
            /\ call' = [call EXCEPT ![FreeCall] = Begun("logout", Cookie)]
            /\ req' = [q \in Requests |->
                         CASE q = r -> [req[r] EXCEPT !.at = "signing-out", !.call = FreeCall]
                           [] q \in Waiters(r) -> At("settled")
                           [] OTHER -> req[q]]
            /\ UNCHANGED <<page, refreshing>>
       [] req[r].at = "signing-out" -> jar' = jar /\ Replaced(TabOf[r]) /\ UNCHANGED call
       [] req[r].at = "leaving" ->
            /\ Moves(r, "settled")
            /\ UNCHANGED <<page, refreshing, call>>
  /\ UNCHANGED <<jar, now, table, past, crossed, alarmed>>

(* The answer to a page that is gone: the browser still sets its cookies,   *)
(* or has cut the connection.                                               *)
Unheard(c) ==
  /\ call[c].at \in Answers /\ ~\E r \in Requests : req[r].call = c
  /\ Answered(c)
  /\ \/ jar' = jar
     \/ call[c].at = "refreshed" /\ jar' = JarOf(call[c].token)
     \/ call[c].at = "done" /\ ~OfOtherDevice(c) /\ jar' = NoJar
  /\ UNCHANGED <<now, table, past, page, refreshing, req, faults, crossed, alarmed>>

(* The user logs out of all devices on another one.                         *)
LogOutAll ==
  /\ Fault
  /\ \E c \in Calls : call[c].at = "idle"
  /\ RevokeUser(FreeCall, User)
  /\ UNCHANGED <<browser, crossed, alarmed>>

LogIn(b) ==
  /\ page[b] = "login"
  /\ Login(User)
  /\ jar' = JarOf(Len(tokens) + 1)
  /\ page' = [page EXCEPT ![b] = "app"]
  /\ UNCHANGED <<refreshing, req, faults, crossed, alarmed>>

(* The proxy lets a tab with a refresh cookie in.                           *)
Visit(b) ==
  /\ page[b] = "login" /\ Cookie # NoToken
  /\ page' = [page EXCEPT ![b] = "app"]
  /\ UNCHANGED <<jar, refreshing, req, faults, crossed>> /\ ServerIdle

AccessExpires ==
  /\ jar.access
  /\ jar' = [jar EXCEPT !.access = FALSE]
  /\ UNCHANGED <<page, refreshing, req, faults, crossed>> /\ ServerIdle

DayPasses ==
  /\ Tick
  /\ jar' = [jar EXCEPT !.access = FALSE]
  /\ UNCHANGED <<page, refreshing, req, faults, crossed, alarmed>>

-----------------------------------------------------------------------------
(* The API serves a call; at the bound of the table it can only fail.       *)
Api(c) ==
  /\ \/ Serve(c)
     \/ call[c].at = "insert" /\ Len(tokens) = MaxTokens /\ Fails(c)
  /\ alarmed' = (alarmed \/ /\ call[c].at = "refresh" /\ call'[c].at = "reuse"
                            /\ call[c].token \in replaced)
  /\ UNCHANGED <<browser, faults, crossed>>

ApiFails(c) ==
  /\ Fault /\ ServeFails(c)
  /\ UNCHANGED <<browser, crossed, alarmed>>

Client(r) ==
  \/ Accepted(r) \/ Unauthorized(r) \/ Refreshed(r) \/ RefreshFails(r)
  \/ SignedOut(r) \/ LoggedOut(r)

Work == (\E c \in Calls : Api(c) \/ Unheard(c)) \/ (\E r \in Requests : Client(r))

Next ==
  \/ Work
  \/ \E r \in Requests : Send(r) \/ Forbidden(r) \/ ClickLogout(r) \/ AnswerLost(r)
  \/ \E c \in Calls : ApiFails(c)
  \/ \E b \in Tabs : LogIn(b) \/ Visit(b)
  \/ LogOutAll \/ AccessExpires \/ DayPasses

Spec == BrowserInit /\ [][Next]_vars

-----------------------------------------------------------------------------
TypeOK ==
  /\ SessionsTypeOK
  /\ jar \in [refresh : 0 .. MaxTokens, access : BOOLEAN, until : Nat]
  /\ page \in [Tabs -> {"app", "login"}]
  /\ refreshing \in [Tabs -> BOOLEAN]
  /\ req \in [Requests -> Request]
  /\ faults \in 0 .. MaxFaults
  /\ crossed \in BOOLEAN /\ alarmed \in BOOLEAN

(* A tab does not accuse itself: a token that was rotated comes back, and   *)
(* the whole family is revoked, only if calls of two tabs crossed, a tab    *)
(* signed out during a refresh, or something failed.                        *)
NoFalseAlarm == alarmed => crossed \/ faults > 0

(* Whoever waits for a refresh has somebody in the tab to end the wait: a   *)
(* request that refreshes, or one whose refresh failed and that is about to *)
(* replace the page (a late one joins a queue that is then dropped,         *)
(* api-client.ts:58).                                                       *)
WaitersAreHeard ==
  \A r \in Requests : req[r].at = "waiting" =>
    \E q \in Of(TabOf[r]) : req[q].at \in {"refreshing", "signing-out"}
=============================================================================
