----------------------- MODULE BrowserSessionsProofs -----------------------
(* Proofs about the api-client on top of Sessions, for any number of tabs,  *)
(* requests, calls, tokens and faults.                                      *)
EXTENDS BrowserSessions, SessionsProofs

Flights == {"refreshing", "signing-out", "leaving"}

InFlight(r) == req[r].at \in Flights
Busy(c)     == call[c].at # "idle"

-----------------------------------------------------------------------------
(* What the browser does is one of three things to the sessions.            *)

Begins(c, place, t) ==
  /\ call' = [call EXCEPT ![c] = Begun(place, t)]
  /\ UNCHANGED <<now, table, past>>

LEMMA BeginKeeps ==
  ASSUME SessionsInv, NEW c \in Calls, NEW place \in {"refresh", "logout"},
         NEW t \in 0 .. MaxTokens, Begins(c, place, t)
  PROVE  SessionsInv'
<1>1. /\ call' \in [Calls -> Call]
      /\ \A d \in Calls : d # c => call'[d] = call[d]
      /\ call'[c].at = place /\ call'[c].families = {} /\ call'[c].rows = {}
  BY DEF SessionsInv, TypeInv, SessionsTypeOK, Begins, Call, Stations, Begun, Answers
<1>2. RowsInv' /\ FamilyKeepsExpiry' /\ Ids' = Ids
  BY SameRows DEF SessionsInv, TypeInv, table, Begins
<1>3. SessionsTypeOK'
  BY <1>1, <1>2 DEF SessionsInv, TypeInv, SessionsTypeOK, table, Begins
<1>4. FamiliesInv'
  BY <1>1, <1>2 DEF SessionsInv, TypeInv, FamiliesInv, Begins, past
<1>5. LiveInv' /\ EndInv'
  <2>1. ~Rotates(c)' /\ call'[c].at # "revoking"
    BY <1>1 DEF Rotates
  <2>. QED
    BY <1>1, <2>1, QuietKeeps DEF SessionsInv, Begins, table
<1>. QED
  BY <1>2, <1>3, <1>4, <1>5 DEF SessionsInv, TypeInv

LEMMA ServerKeeps ==
  ASSUME SessionsInv, [SessionsNext]_sessions
  PROVE  SessionsInv'
BY TypeStep, ProtocolStep DEF SessionsInv

LEMMA HearingKeeps ==
  ASSUME SessionsInv, NEW c \in Calls, Answered(c), UNCHANGED <<now, table, past>>
  PROVE  SessionsInv'
BY ServerKeeps DEF SessionsNext, AnyRequest

LEMMA FreeIsFree ==
  ASSUME \E c \in Calls : call[c].at = "idle"
  PROVE  FreeCall \in Calls /\ call[FreeCall].at = "idle"
BY DEF FreeCall

LEMMA CookieTyped ==
  ASSUME TypeOK
  PROVE  Cookie \in 0 .. MaxTokens
BY SessionBounds DEF TypeOK, Cookie, NoToken

LEMMA Fetched ==
  ASSUME TypeOK, NEW r \in Requests, NEW kind \in {"refresh", "logout"}, NEW place \in Flights,
         Fetch(r, kind, place)
  PROVE  /\ FreeCall \in Calls /\ call[FreeCall].at = "idle"
         /\ Begins(FreeCall, kind, Cookie)
         /\ req' \in [Requests -> Request]
         /\ req'[r].at = place /\ req'[r].call = FreeCall
         /\ \A q \in Requests \ {r} : req'[q] = req[q]
         /\ alarmed' = alarmed
<1>1. FreeCall \in Calls /\ call[FreeCall].at = "idle"
  BY FreeIsFree DEF Fetch
<1>. DEFINE x == [At(place) EXCEPT !.call = FreeCall]
<1>2. At(place) \in Request /\ At(place).at = place
  BY DEF At, Request, Places, Flights
<1>3. x \in Request /\ x.at = place /\ x.call = FreeCall
  BY <1>1, <1>2 DEF Request
<1>4. req' = [req EXCEPT ![r] = x]
  BY DEF Fetch
<1>. HIDE DEF x
<1>5. /\ req' \in [Requests -> Request]
      /\ req'[r].at = place /\ req'[r].call = FreeCall
      /\ \A q \in Requests \ {r} : req'[q] = req[q]
  BY <1>3, <1>4 DEF TypeOK
<1>. QED
  BY <1>1, <1>5 DEF Fetch, Start, Begins

LEMMA CrossedTyped ==
  ASSUME TypeOK, NEW r \in Requests, NEW kind, NEW place, Fetch(r, kind, place)
  PROVE  crossed' \in BOOLEAN
<1>. DEFINE Met == \E c \in Calls : call[c].at # "idle" /\
                     ~(kind = "refresh" /\ \E q \in Of(TabOf[r]) :
                                             req[q].at = "refreshing" /\ req[q].call = c)
<1>1. crossed' = (crossed \/ Met)
  BY DEF Fetch
<1>2. Met \in BOOLEAN
  OBVIOUS
<1>. HIDE DEF Met
<1>. QED
  BY <1>1, <1>2 DEF TypeOK

LEMMA LostTyped ==
  ASSUME TypeOK, NEW r \in Requests, AnswerLost(r), req[r].at = "refreshing"
  PROVE  /\ FreeCall \in Calls /\ call[FreeCall].at = "idle"
         /\ Begins(FreeCall, "logout", Cookie)
         /\ req' = [q \in Requests |->
                     CASE q = r -> [req[r] EXCEPT !.at = "signing-out", !.call = FreeCall]
                       [] q \in Waiters(r) -> At("settled")
                       [] OTHER -> req[q]]
         /\ UNCHANGED <<page, refreshing>>
BY FreeIsFree DEF AnswerLost, Begins

(* Every step keeps what SessionsProofs shows of the API.                   *)
LEMMA SessionsKept ==
  ASSUME TypeOK, SessionsInv, [Next]_vars
  PROVE  SessionsInv'
<1>. USE DEF Flights
<1>1. CASE UNCHANGED sessions
  BY <1>1, ServerKeeps
<1>2. ASSUME NEW c \in Calls, Api(c) \/ ApiFails(c)
      PROVE  SessionsInv'
  BY <1>2, ServerKeeps DEF Api, ApiFails, SessionsNext, ServeFails
<1>3. ASSUME NEW c \in Calls, Unheard(c)
      PROVE  SessionsInv'
  BY <1>3, HearingKeeps DEF Unheard
<1>4. ASSUME NEW r \in Requests, Forbidden(r) \/ Unauthorized(r) \/ ClickLogout(r)
      PROVE  SessionsInv'
  <2>1. CASE UNCHANGED sessions
    BY <2>1, <1>1
  <2>2. ASSUME NEW kind \in {"refresh", "logout"}, NEW place \in Flights, Fetch(r, kind, place)
        PROVE  SessionsInv'
    BY <2>2, Fetched, CookieTyped, BeginKeeps
  <2>. QED
    BY <1>4, <2>1, <2>2 DEF Forbidden, Unauthorized, ClickLogout, SignOut, ServerIdle
<1>5. ASSUME NEW r \in Requests, Refreshed(r) \/ SignedOut(r) \/ LoggedOut(r)
      PROVE  SessionsInv'
  BY <1>5, HearingKeeps DEF Refreshed, SignedOut, LoggedOut, Hears, AnswerTo
<1>6. ASSUME NEW r \in Requests, RefreshFails(r)
      PROVE  SessionsInv'
  BY <1>6, CookieTyped, BeginKeeps DEF RefreshFails, AnswerTo, Begins
<1>7. ASSUME NEW r \in Requests, AnswerLost(r)
      PROVE  SessionsInv'
  <2>1. CASE req[r].at = "refreshing"
    BY <1>7, <2>1, LostTyped, CookieTyped, BeginKeeps
  <2>2. CASE req[r].at # "refreshing"
    BY <1>1, <1>7, <2>2 DEF AnswerLost, sessions
  <2>. QED
    BY <2>1, <2>2
<1>8. CASE LogOutAll
  <2>1. FreeCall \in Calls /\ RevokeUser(FreeCall, User)
    BY <1>8, FreeIsFree DEF LogOutAll
  <2>. QED
    BY <2>1, ServerKeeps, BrowserBounds DEF SessionsNext
<1>9. ASSUME NEW b \in Tabs, LogIn(b)
      PROVE  SessionsInv'
  BY <1>9, ServerKeeps, BrowserBounds DEF LogIn, SessionsNext
<1>10. CASE DayPasses
  BY <1>10, ServerKeeps DEF DayPasses, SessionsNext
<1>11. ASSUME NEW r \in Requests, Send(r) \/ Accepted(r)
       PROVE  SessionsInv'
  BY <1>1, <1>11 DEF Send, Accepted, ServerIdle
<1>12. CASE AccessExpires \/ \E b \in Tabs : Visit(b)
  BY <1>1, <1>12 DEF AccessExpires, Visit, ServerIdle
<1>13. CASE UNCHANGED vars
  BY <1>1, <1>13 DEF vars
<1>. QED
  BY <1>2, <1>3, <1>4, <1>5, <1>6, <1>7, <1>8, <1>9, <1>10, <1>11, <1>12, <1>13
     DEF Next, Work, Client

-----------------------------------------------------------------------------
(* How the requests move.                                                   *)

LEMMA PlacedRequest ==
  ASSUME NEW place \in Places
  PROVE  At(place) \in Request /\ At(place).at = place /\ At(place).call = NoCall
BY DEF At, Request

LEMMA SentRequest == SentAgain \in Request /\ SentAgain.at = "sent" /\ SentAgain.call = NoCall
BY DEF SentAgain, Request, Places

LEMMA Moved ==
  ASSUME TypeOK, NEW r \in Requests, NEW place \in Places, Moves(r, place)
  PROVE  /\ req' \in [Requests -> Request]
         /\ req'[r].at = place /\ req'[r].call = NoCall
         /\ \A q \in Requests \ {r} : req'[q] = req[q]
BY PlacedRequest DEF Moves, TypeOK

LEMMA Sent ==
  ASSUME TypeOK, NEW r \in Requests, Send(r)
  PROVE  /\ req' \in [Requests -> Request]
         /\ req'[r].at = "sent" /\ req'[r].call = req[r].call
         /\ \A q \in Requests \ {r} : req'[q] = req[q]
BY DEF Send, TypeOK, Request, Places

(* A refresh that succeeded sends all that waited for it.                   *)
LEMMA SentAll ==
  ASSUME TypeOK, NEW r \in Requests, Refreshed(r)
  PROVE  /\ req' \in [Requests -> Request]
         /\ req'[r].at = "sent" /\ req'[r].call = NoCall
         /\ \A q \in Requests \ {r} :
              \/ req'[q] = req[q] /\ (TabOf[q] = TabOf[r] => req[q].at # "waiting")
              \/ req'[q].at = "sent" /\ req'[q].call = NoCall /\ req[q].at = "waiting"
                 /\ TabOf[q] = TabOf[r]
BY SentRequest DEF Refreshed, TypeOK, Waiters, Of

(* A refresh that failed drops them, and its own request signs out.         *)
LEMMA Dropped ==
  ASSUME TypeOK, NEW r \in Requests, NEW c \in Calls \cup {NoCall}, NEW x \in Request,
         x.at = "signing-out", x.call = c,
         req' = [q \in Requests |-> CASE q = r -> x
                                      [] q \in Waiters(r) -> At("settled")
                                      [] OTHER -> req[q]],
         req[r].at = "refreshing"
  PROVE  /\ req' \in [Requests -> Request]
         /\ req'[r].at = "signing-out" /\ req'[r].call = c
         /\ \A q \in Requests \ {r} :
              \/ req'[q] = req[q] /\ (TabOf[q] = TabOf[r] => req[q].at # "waiting")
              \/ req'[q].at = "settled" /\ req'[q].call = NoCall /\ req[q].at = "waiting"
                 /\ TabOf[q] = TabOf[r]
<1>1. At("settled") \in Request /\ At("settled").at = "settled" /\ At("settled").call = NoCall
  BY PlacedRequest DEF Places
<1>2. r \notin Waiters(r)
  BY DEF Waiters
<1>3. \A q \in Requests : /\ q = r => req'[q] = x
                          /\ q # r /\ q \in Waiters(r) => req'[q] = At("settled")
                          /\ q # r /\ q \notin Waiters(r) => req'[q] = req[q]
  BY <1>2
<1>4. \A q \in Requests : q \in Waiters(r) <=> TabOf[q] = TabOf[r] /\ req[q].at = "waiting"
  BY DEF Waiters, Of
<1>. QED
  BY <1>1, <1>3, <1>4 DEF TypeOK

LEMMA DroppedByAnswer ==
  ASSUME TypeOK, NEW r \in Requests, RefreshFails(r)
  PROVE  /\ req' \in [Requests -> Request]
         /\ req[r].call \in Calls
         /\ req'[r].at = "signing-out" /\ req'[r].call = req[r].call
         /\ \A q \in Requests \ {r} :
              \/ req'[q] = req[q] /\ (TabOf[q] = TabOf[r] => req[q].at # "waiting")
              \/ req'[q].at = "settled" /\ req'[q].call = NoCall /\ req[q].at = "waiting"
                 /\ TabOf[q] = TabOf[r]
<1>. DEFINE x == [req[r] EXCEPT !.at = "signing-out"]
<1>1. x \in Request /\ x.at = "signing-out" /\ x.call = req[r].call /\ req[r].call \in Calls
  BY DEF TypeOK, Request, Places, RefreshFails, AnswerTo
<1>2. /\ req[r].at = "refreshing"
      /\ req' = [q \in Requests |-> CASE q = r -> x
                                      [] q \in Waiters(r) -> At("settled")
                                      [] OTHER -> req[q]]
  BY DEF RefreshFails
<1>. HIDE DEF x
<1>. QED
  BY <1>1, <1>2, Dropped

LEMMA DroppedByLoss ==
  ASSUME TypeOK, NEW r \in Requests, AnswerLost(r), req[r].at = "refreshing"
  PROVE  /\ req' \in [Requests -> Request]
         /\ FreeCall \in Calls
         /\ req'[r].at = "signing-out" /\ req'[r].call = FreeCall
         /\ \A q \in Requests \ {r} :
              \/ req'[q] = req[q] /\ (TabOf[q] = TabOf[r] => req[q].at # "waiting")
              \/ req'[q].at = "settled" /\ req'[q].call = NoCall /\ req[q].at = "waiting"
                 /\ TabOf[q] = TabOf[r]
<1>. DEFINE x == [req[r] EXCEPT !.at = "signing-out", !.call = FreeCall]
<1>1. FreeCall \in Calls
  BY LostTyped
<1>2. x \in Request /\ x.at = "signing-out" /\ x.call = FreeCall
  BY <1>1 DEF TypeOK, Request, Places
<1>3. req' = [q \in Requests |-> CASE q = r -> x
                                   [] q \in Waiters(r) -> At("settled")
                                   [] OTHER -> req[q]]
  BY LostTyped
<1>. HIDE DEF x
<1>. QED
  BY <1>1, <1>2, <1>3, Dropped

(* The page is replaced, with whatever of it was not still to come.         *)
LEMMA ReplacedRequests ==
  ASSUME TypeOK, NEW b \in Tabs, Replaced(b)
  PROVE  /\ req' \in [Requests -> Request]
         /\ refreshing' = [refreshing EXCEPT ![b] = FALSE]
         /\ refreshing' \in [Tabs -> BOOLEAN]
         /\ page' \in [Tabs -> {"app", "login"}]
         /\ \A q \in Requests :
              \/ req'[q] = req[q] /\ (TabOf[q] = b => req[q].at = "new")
              \/ req'[q].at = "settled" /\ req'[q].call = NoCall /\ TabOf[q] = b
                 /\ req[q].at # "new"
<1>1. At("settled") \in Request /\ At("settled").at = "settled" /\ At("settled").call = NoCall
  BY PlacedRequest DEF Places
<1>2. \A q \in Requests : q \in Of(b) <=> TabOf[q] = b
  BY DEF Of
<1>. QED
  BY <1>1, <1>2 DEF Replaced, TypeOK

-----------------------------------------------------------------------------
LEMMA BrowserTyped ==
  ASSUME TypeOK, SessionsTypeOK', [Next]_vars
  PROVE  TypeOK'
<1>. USE TabsAssumption, BrowserBounds
<1>. DEFINE RestTyped == /\ page' \in [Tabs -> {"app", "login"}]
                         /\ refreshing' \in [Tabs -> BOOLEAN]
                         /\ faults' \in 0 .. MaxFaults
                         /\ crossed' \in BOOLEAN /\ alarmed' \in BOOLEAN
            JarTyped  == jar' \in [refresh : 0 .. MaxTokens, access : BOOLEAN, until : Nat]
            ReqTyped  == req' \in [Requests -> Request]
<1>1. \A t \in 0 .. MaxTokens : JarOf(t) \in [refresh : 0 .. MaxTokens, access : BOOLEAN, until : Nat]
  BY SessionBounds DEF JarOf, TypeOK, SessionsTypeOK
<1>2. NoJar \in [refresh : 0 .. MaxTokens, access : BOOLEAN, until : Nat]
  BY SessionBounds DEF NoJar, NoToken
<1>3. \A c \in Calls : call[c].token \in 0 .. MaxTokens
  BY DEF TypeOK, SessionsTypeOK, Call
<1>4. \A r \in Requests : TabOf[r] \in Tabs
  OBVIOUS
<1>5. ASSUME NEW r \in Requests, Send(r) \/ Accepted(r) \/ Forbidden(r) \/ Unauthorized(r) \/ ClickLogout(r)
      PROVE  RestTyped /\ JarTyped /\ ReqTyped
  <2>. USE DEF Flights, Places
  <2>1. JarTyped
    BY <1>5 DEF Send, Accepted, Forbidden, Unauthorized, ClickLogout, TypeOK
  <2>2. ReqTyped
    BY <1>5, Sent, Moved, Fetched DEF Accepted, Forbidden, Unauthorized, ClickLogout, SignOut
  <2>3. crossed' \in BOOLEAN
    BY <1>5, CrossedTyped DEF Send, Accepted, Forbidden, Unauthorized, ClickLogout, SignOut, TypeOK
  <2>4. UNCHANGED <<page, faults, alarmed>>
    BY <1>5 DEF Send, Accepted, Forbidden, Unauthorized, ClickLogout, SignOut, Fetch, ServerIdle
  <2>5. refreshing' \in [Tabs -> BOOLEAN]
    BY <1>5 DEF Send, Accepted, Forbidden, Unauthorized, ClickLogout, TypeOK
  <2>. QED
    BY <2>1, <2>2, <2>3, <2>4, <2>5 DEF TypeOK
<1>6. ASSUME NEW r \in Requests, Refreshed(r)
      PROVE  RestTyped /\ JarTyped /\ ReqTyped
  BY <1>1, <1>3, <1>6, SentAll DEF Refreshed, Hears, AnswerTo, TypeOK
<1>7. ASSUME NEW r \in Requests, RefreshFails(r)
      PROVE  RestTyped /\ JarTyped /\ ReqTyped
  <2>1. crossed' \in BOOLEAN
    BY <1>7 DEF RefreshFails, TypeOK
  <2>2. ReqTyped
    BY <1>7, DroppedByAnswer
  <2>. QED
    BY <1>7, <2>1, <2>2 DEF RefreshFails, TypeOK
<1>8. ASSUME NEW r \in Requests, SignedOut(r)
      PROVE  RestTyped /\ JarTyped /\ ReqTyped
  <2>1. /\ ReqTyped /\ page' \in [Tabs -> {"app", "login"}]
        /\ refreshing' \in [Tabs -> BOOLEAN]
    BY <1>4, <1>8, ReplacedRequests DEF SignedOut, TypeOK
  <2>. QED
    BY <1>2, <1>8, <2>1 DEF SignedOut, Hears, TypeOK
<1>9. ASSUME NEW r \in Requests, LoggedOut(r)
      PROVE  RestTyped /\ JarTyped /\ ReqTyped
  BY <1>2, <1>9, Moved DEF LoggedOut, Hears, TypeOK, Places
<1>10. ASSUME NEW r \in Requests, AnswerLost(r)
       PROVE  RestTyped /\ JarTyped /\ ReqTyped
  <2>1. /\ ReqTyped /\ page' \in [Tabs -> {"app", "login"}]
        /\ refreshing' \in [Tabs -> BOOLEAN]
    <3>1. CASE req[r].at = "refreshing"
      BY <1>10, <3>1, DroppedByLoss, LostTyped DEF TypeOK
    <3>2. CASE req[r].at = "signing-out"
      <4>1. Replaced(TabOf[r])
        BY <1>10, <3>2 DEF AnswerLost
      <4>. QED
        BY <1>4, <4>1, ReplacedRequests
    <3>3. CASE req[r].at = "leaving"
      <4>1. Moves(r, "settled") /\ UNCHANGED <<page, refreshing>>
        BY <1>10, <3>3 DEF AnswerLost
      <4>. QED
        BY <4>1, Moved DEF TypeOK, Places
    <3>. QED
      BY <1>10, <3>1, <3>2, <3>3 DEF AnswerLost
  <2>2. UNCHANGED <<jar, crossed, alarmed>> /\ faults' \in 0 .. MaxFaults
    BY <1>10 DEF AnswerLost, Fault, TypeOK
  <2>. QED
    BY <2>1, <2>2 DEF TypeOK
<1>11. ASSUME NEW c \in Calls, Unheard(c)
       PROVE  RestTyped /\ JarTyped /\ ReqTyped
  BY <1>1, <1>2, <1>3, <1>11 DEF Unheard, TypeOK
<1>12. ASSUME NEW c \in Calls, Api(c) \/ ApiFails(c)
       PROVE  RestTyped /\ JarTyped /\ ReqTyped
  <2>1. alarmed' \in BOOLEAN
    BY <1>12 DEF Api, ApiFails, TypeOK
  <2>2. faults' \in 0 .. MaxFaults
    BY <1>12 DEF Api, ApiFails, Fault, TypeOK
  <2>. QED
    BY <1>12, <2>1, <2>2 DEF Api, ApiFails, browser, TypeOK
<1>13. ASSUME LogOutAll
       PROVE  RestTyped /\ JarTyped /\ ReqTyped
  BY <1>13 DEF LogOutAll, Fault, browser, TypeOK
<1>14. ASSUME NEW b \in Tabs, LogIn(b)
       PROVE  RestTyped /\ JarTyped /\ ReqTyped
  <2>1. Len(tokens) + 1 \in 0 .. MaxTokens
    BY <1>14, SessionBounds DEF LogIn, Login, TypeOK, SessionsTypeOK
  <2>. QED
    BY <1>1, <1>14, <2>1 DEF LogIn, TypeOK
<1>15. ASSUME AccessExpires \/ DayPasses \/ UNCHANGED vars \/ \E b \in Tabs : Visit(b)
       PROVE  RestTyped /\ JarTyped /\ ReqTyped
  BY <1>15 DEF AccessExpires, DayPasses, Visit, ServerIdle, vars, browser, TypeOK
<1>. HIDE DEF RestTyped, JarTyped, ReqTyped
<1>16. RestTyped /\ JarTyped /\ ReqTyped
  <2>1. CASE Work
    BY <2>1, <1>5, <1>6, <1>7, <1>8, <1>9, <1>11, <1>12 DEF Work, Client
  <2>2. CASE \E r \in Requests : Send(r) \/ Forbidden(r) \/ ClickLogout(r) \/ AnswerLost(r)
    BY <2>2, <1>5, <1>10
  <2>3. CASE \E b \in Tabs : LogIn(b) \/ Visit(b)
    BY <2>3, <1>14, <1>15
  <2>. QED
    BY <2>1, <2>2, <2>3, <1>12, <1>13, <1>15 DEF Next
<1>. QED
  BY <1>16 DEF TypeOK, RestTyped, JarTyped, ReqTyped

-----------------------------------------------------------------------------
(* Whoever waits does so behind isRefreshing, which is set from the start   *)
(* of a refresh to its end or to the end of the sign-out that follows it.   *)
TabInv ==
  /\ \A r \in Requests :
       /\ InFlight(r) <=> req[r].call \in Calls
       /\ req[r].at \in {"waiting", "refreshing"} => refreshing[TabOf[r]]
  /\ \A r, q \in Requests :
       req[r].at = "refreshing" /\ req[q].at = "refreshing" /\ TabOf[r] = TabOf[q] => r = q
  /\ \A b \in Tabs : refreshing[b] =>
       \E q \in Requests : TabOf[q] = b /\ req[q].at \in {"refreshing", "signing-out"}

(* One request moves that neither begins nor ends a refresh.                *)
LEMMA OtherMoves ==
  ASSUME TypeOK, TabInv, NEW r \in Requests,
         \A q \in Requests \ {r} : req'[q] = req[q],
         UNCHANGED refreshing,
         req[r].at \notin {"refreshing", "signing-out"},
         InFlight(r)' <=> req'[r].call \in Calls,
         req'[r].at # "refreshing",
         req'[r].at = "waiting" => refreshing[TabOf[r]]
  PROVE  TabInv'
BY DEF TabInv, InFlight

LEMMA FetchesElse ==
  ASSUME TypeOK, TabInv, NEW r \in Requests, NEW place \in {"signing-out", "leaving"},
         Fetch(r, "logout", place), UNCHANGED refreshing,
         req[r].at \notin {"refreshing", "signing-out"}
  PROVE  TabInv'
<1>1. /\ \A q \in Requests \ {r} : req'[q] = req[q]
      /\ req'[r].at = place /\ req'[r].call \in Calls
  BY Fetched DEF Flights
<1>. QED
  BY <1>1, OtherMoves DEF InFlight, Flights

LEMMA BeginsRefresh ==
  ASSUME TypeOK, TabInv, NEW r \in Requests, Fetch(r, "refresh", "refreshing"),
         ~refreshing[TabOf[r]], refreshing' = [refreshing EXCEPT ![TabOf[r]] = TRUE]
  PROVE  TabInv'
<1>1. /\ \A q \in Requests \ {r} : req'[q] = req[q]
      /\ req'[r].at = "refreshing" /\ req'[r].call \in Calls
  BY Fetched DEF Flights
<1>2. TabOf \in [Requests -> Tabs] /\ refreshing \in [Tabs -> BOOLEAN]
  BY TabsAssumption DEF TypeOK
<1>3. /\ refreshing'[TabOf[r]]
      /\ \A b \in Tabs : b # TabOf[r] => refreshing'[b] = refreshing[b]
  BY <1>2
<1>4. \A q \in Requests : TabOf[q] = TabOf[r] => req[q].at # "refreshing"
  BY DEF TabInv
<1>5. \A q \in Requests :
        /\ InFlight(q)' <=> req'[q].call \in Calls
        /\ req'[q].at \in {"waiting", "refreshing"} => refreshing'[TabOf[q]]
  BY <1>1, <1>2, <1>3 DEF TabInv, InFlight, Flights
<1>6. \A p, q \in Requests :
        req'[p].at = "refreshing" /\ req'[q].at = "refreshing" /\ TabOf[p] = TabOf[q] => p = q
  BY <1>1, <1>4 DEF TabInv
<1>7. ASSUME NEW b \in Tabs, refreshing'[b]
      PROVE  \E q \in Requests : TabOf[q] = b /\ req'[q].at \in {"refreshing", "signing-out"}
  <2>1. CASE b = TabOf[r]
    BY <1>1, <2>1
  <2>2. CASE b # TabOf[r]
    <3>1. PICK q \in Requests : TabOf[q] = b /\ req[q].at \in {"refreshing", "signing-out"}
      BY <1>3, <1>7, <2>2 DEF TabInv
    <3>2. q # r
      BY <2>2, <3>1
    <3>. QED
      BY <1>1, <3>1, <3>2
  <2>. QED
    BY <2>1, <2>2
<1>. QED
  BY <1>5, <1>6, <1>7 DEF TabInv

(* A refresh, or the sign-out after it, ends for its whole tab.             *)
LEMMA TabEnds ==
  ASSUME TypeOK, TabInv, NEW b \in Tabs, refreshing' = [refreshing EXCEPT ![b] = FALSE],
         \A q \in Requests :
           \/ req'[q] = req[q] /\ (TabOf[q] = b => req[q].at \notin {"waiting", "refreshing"})
           \/ req'[q].at \in {"sent", "settled"} /\ req'[q].call = NoCall /\ TabOf[q] = b
  PROVE  TabInv'
<1>1. TabOf \in [Requests -> Tabs] /\ refreshing \in [Tabs -> BOOLEAN]
  BY TabsAssumption DEF TypeOK
<1>2. ~refreshing'[b] /\ \A d \in Tabs : d # b => refreshing'[d] = refreshing[d]
  BY <1>1
<1>3. \A q \in Requests : TabOf[q] # b => req'[q] = req[q]
  OBVIOUS
<1>4. \A q \in Requests : InFlight(q)' <=> req'[q].call \in Calls
  BY BrowserBounds DEF TabInv, InFlight, Flights
<1>5. \A q \in Requests : req'[q].at \in {"waiting", "refreshing"} =>
                            TabOf[q] # b /\ req'[q] = req[q]
  OBVIOUS
<1>6. \A q \in Requests : req'[q].at \in {"waiting", "refreshing"} => refreshing'[TabOf[q]]
  BY <1>1, <1>2, <1>5 DEF TabInv
<1>7. \A p, q \in Requests :
        req'[p].at = "refreshing" /\ req'[q].at = "refreshing" /\ TabOf[p] = TabOf[q] => p = q
  BY <1>5 DEF TabInv
<1>8. ASSUME NEW d \in Tabs, refreshing'[d]
      PROVE  \E q \in Requests : TabOf[q] = d /\ req'[q].at \in {"refreshing", "signing-out"}
  BY <1>2, <1>3, <1>8 DEF TabInv
<1>. QED
  BY <1>4, <1>6, <1>7, <1>8 DEF TabInv

(* A refresh that failed turns into a sign-out.                             *)
LEMMA TurnsIntoSignOut ==
  ASSUME TypeOK, TabInv, NEW r \in Requests, UNCHANGED refreshing,
         req'[r].at = "signing-out", req'[r].call \in Calls, req[r].at = "refreshing",
         \A q \in Requests \ {r} :
           \/ req'[q] = req[q]
           \/ req'[q].at = "settled" /\ req'[q].call = NoCall /\ req[q].at = "waiting"
  PROVE  TabInv'
<1>1. \A q \in Requests : InFlight(q)' <=> req'[q].call \in Calls
  BY BrowserBounds DEF TabInv, InFlight, Flights
<1>2. \A q \in Requests : req'[q].at \in {"waiting", "refreshing"} => req'[q] = req[q]
  OBVIOUS
<1>3. \A q \in Requests : req[q].at \in {"refreshing", "signing-out"} =>
                            req'[q].at \in {"refreshing", "signing-out"}
  OBVIOUS
<1>. QED
  BY <1>1, <1>2, <1>3 DEF TabInv

LEMMA TabStep ==
  ASSUME TypeOK, TabInv, [Next]_vars
  PROVE  TabInv'
<1>0. \A r \in Requests : TabOf[r] \in Tabs
  BY TabsAssumption
<1>1. CASE UNCHANGED <<refreshing, req>>
  BY <1>1 DEF TabInv, InFlight
<1>2. ASSUME NEW r \in Requests, Send(r)
      PROVE  TabInv'
  <2>1. req[r].at = "new" /\ UNCHANGED refreshing
    BY <1>2 DEF Send
  <2>2. req[r].call \notin Calls
    BY <2>1 DEF TabInv, InFlight, Flights
  <2>. QED
    BY <1>2, <2>1, <2>2, Sent, OtherMoves DEF InFlight, Flights
<1>3. ASSUME NEW r \in Requests, NEW place \in {"waiting", "settled"}, Moves(r, place),
             UNCHANGED refreshing, req[r].at \notin {"refreshing", "signing-out"},
             place = "waiting" => refreshing[TabOf[r]]
      PROVE  TabInv'
  <2>1. /\ req'[r].at = place /\ req'[r].call = NoCall
        /\ \A q \in Requests \ {r} : req'[q] = req[q]
    BY <1>3, Moved DEF Places
  <2>. QED
    BY <1>3, <2>1, OtherMoves, BrowserBounds DEF InFlight, Flights
<1>4. ASSUME NEW r \in Requests, Accepted(r) \/ Forbidden(r) \/ ClickLogout(r)
      PROVE  TabInv'
  BY <1>3, <1>4, FetchesElse DEF Accepted, Forbidden, ClickLogout, SignOut
<1>5. ASSUME NEW r \in Requests, Unauthorized(r)
      PROVE  TabInv'
  BY <1>3, <1>5, FetchesElse, BeginsRefresh DEF Unauthorized, SignOut
<1>6. ASSUME NEW r \in Requests, Refreshed(r)
      PROVE  TabInv'
  <2>1. req[r].at = "refreshing" /\ refreshing' = [refreshing EXCEPT ![TabOf[r]] = FALSE]
    BY <1>6 DEF Refreshed
  <2>2. \A q \in Requests \ {r} : TabOf[q] = TabOf[r] => req[q].at # "refreshing"
    BY <2>1 DEF TabInv
  <2>3. \A q \in Requests :
          \/ req'[q] = req[q] /\ (TabOf[q] = TabOf[r] => req[q].at \notin {"waiting", "refreshing"})
          \/ req'[q].at \in {"sent", "settled"} /\ req'[q].call = NoCall /\ TabOf[q] = TabOf[r]
    BY <1>6, <2>2, SentAll
  <2>. QED
    BY <1>0, <2>1, <2>3, TabEnds
<1>7. ASSUME NEW r \in Requests, RefreshFails(r)
      PROVE  TabInv'
  <2>1. req[r].at = "refreshing" /\ UNCHANGED refreshing
    BY <1>7 DEF RefreshFails
  <2>2. /\ req'[r].at = "signing-out" /\ req'[r].call \in Calls
        /\ \A q \in Requests \ {r} :
             \/ req'[q] = req[q]
             \/ req'[q].at = "settled" /\ req'[q].call = NoCall /\ req[q].at = "waiting"
    BY <1>7, DroppedByAnswer
  <2>. QED
    BY <2>1, <2>2, TurnsIntoSignOut
<1>8. ASSUME NEW b \in Tabs, Replaced(b)
      PROVE  TabInv'
  BY <1>8, ReplacedRequests, TabEnds
<1>9. ASSUME NEW r \in Requests, SignedOut(r)
      PROVE  TabInv'
  BY <1>0, <1>8, <1>9 DEF SignedOut
<1>10. ASSUME NEW r \in Requests, LoggedOut(r)
       PROVE  TabInv'
  BY <1>3, <1>10 DEF LoggedOut
<1>11. ASSUME NEW r \in Requests, AnswerLost(r)
       PROVE  TabInv'
  <2>1. CASE req[r].at = "refreshing"
    BY <1>11, <2>1, DroppedByLoss, LostTyped, TurnsIntoSignOut
  <2>2. CASE req[r].at = "signing-out"
    BY <1>0, <1>8, <1>11, <2>2 DEF AnswerLost
  <2>3. CASE req[r].at = "leaving"
    BY <1>3, <1>11, <2>3 DEF AnswerLost
  <2>. QED
    BY <1>11, <2>1, <2>2, <2>3 DEF AnswerLost
<1>12. CASE Work
  BY <1>1, <1>4, <1>5, <1>6, <1>7, <1>9, <1>10, <1>12 DEF Work, Client, Api, Unheard, browser
<1>13. CASE \E c \in Calls : ApiFails(c)
  BY <1>1, <1>13 DEF ApiFails, browser
<1>14. CASE \E b \in Tabs : LogIn(b) \/ Visit(b)
  BY <1>1, <1>14 DEF LogIn, Visit
<1>15. CASE LogOutAll \/ AccessExpires \/ DayPasses \/ UNCHANGED vars
  BY <1>1, <1>15 DEF LogOutAll, AccessExpires, DayPasses, vars, browser
<1>. QED
  BY <1>2, <1>4, <1>11, <1>12, <1>13, <1>14, <1>15 DEF Next

-----------------------------------------------------------------------------
(* While no calls have crossed and nothing has failed, one request at most  *)
(* is in flight, the API serves no other, and neither the cookie nor a call *)
(* has a token that was rotated.                                            *)
OneInFlight ==
  /\ \A r, q \in Requests : InFlight(r) /\ InFlight(q) => r = q
  /\ \A c \in Calls : Busy(c) <=> \E r \in Requests : InFlight(r) /\ req[r].call = c

FreshTokens ==
  /\ \A c \in Calls : call[c].at \in {"refresh", "refreshed"} => call[c].token \notin replaced
  /\ (\A c \in Calls : call[c].at # "refreshed") => jar.refresh \notin replaced

Undisturbed ==
  /\ ~alarmed /\ OneInFlight /\ FreshTokens
  /\ \A c \in Calls : call[c].answer # "refreshed"

CalmInv == ~crossed /\ faults = 0 => Undisturbed

(* Nothing happens to the calls, nor to the requests they are of.           *)
LEMMA NoCallMoves ==
  ASSUME Undisturbed, UNCHANGED <<call, replaced, alarmed>>,
         \A q \in Requests : /\ InFlight(q)' <=> InFlight(q)
                             /\ InFlight(q) => req'[q].call = req[q].call,
         jar'.refresh \in replaced => jar'.refresh = jar.refresh
  PROVE  Undisturbed'
<1>1. OneInFlight'
  BY DEF Undisturbed, OneInFlight, Busy
<1>2. FreshTokens'
  BY DEF Undisturbed, FreshTokens
<1>. QED
  BY <1>1, <1>2 DEF Undisturbed

(* The first call in flight.                                                *)
LEMMA FirstCall ==
  ASSUME TypeOK, TabInv, Undisturbed, NEW r \in Requests, NEW c \in Calls,
         NEW place \in {"refresh", "logout"},
         \A d \in Calls : ~Busy(d),
         Begins(c, place, Cookie), UNCHANGED <<jar, alarmed>>,
         InFlight(r)', req'[r].call = c,
         \A q \in Requests \ {r} : InFlight(q)' => InFlight(q) /\ req'[q].call = req[q].call
  PROVE  Undisturbed'
<1>1. \A q \in Requests : ~InFlight(q)
  BY DEF Undisturbed, OneInFlight, TabInv
<1>2. /\ \A d \in Calls \ {c} : call'[d] = call[d]
      /\ call'[c].at = place /\ call'[c].token = Cookie /\ call'[c].answer = "failed"
  BY DEF Begins, Begun, TypeOK, SessionsTypeOK
<1>3. OneInFlight'
  BY <1>1, <1>2 DEF OneInFlight, Busy
<1>4. jar.refresh \notin replaced /\ UNCHANGED replaced
  BY DEF Undisturbed, FreshTokens, Busy, Begins, table
<1>5. Cookie \notin replaced
  BY <1>4 DEF Cookie, NoToken, TypeOK, SessionsTypeOK, Ids
<1>6. FreshTokens'
  BY <1>2, <1>4, <1>5 DEF FreshTokens, Busy
<1>. QED
  BY <1>2, <1>3, <1>6 DEF Undisturbed

(* The only call is answered, and somebody hears it.                        *)
LEMMA LastCall ==
  ASSUME TypeOK, Undisturbed, NEW r \in Requests, InFlight(r), ~InFlight(r)',
         NEW c \in Calls, req[r].call = c, Answered(c), UNCHANGED <<replaced, alarmed>>,
         \A q \in Requests \ {r} : InFlight(q)' => InFlight(q),
         jar'.refresh \notin replaced
  PROVE  Undisturbed'
<1>1. \A q \in Requests : ~InFlight(q)'
  BY DEF Undisturbed, OneInFlight
<1>2. \A d \in Calls \ {c} : ~Busy(d)
  BY DEF Undisturbed, OneInFlight
<1>3. /\ \A d \in Calls \ {c} : call'[d] = call[d]
      /\ call'[c].at = "idle" /\ call'[c].answer = "failed"
  BY DEF Answered, Idle, Begun, TypeOK, SessionsTypeOK
<1>4. \A d \in Calls : call'[d].at = "idle"
  BY <1>2, <1>3 DEF Busy
<1>5. OneInFlight'
  BY <1>1, <1>4 DEF OneInFlight, Busy
<1>6. FreshTokens'
  BY <1>4 DEF FreshTokens
<1>. QED
  BY <1>3, <1>5, <1>6 DEF Undisturbed

LEMMA CalmFetch ==
  ASSUME TypeOK, TabInv, Undisturbed, NEW r \in Requests, NEW kind \in {"refresh", "logout"},
         NEW place \in Flights, Fetch(r, kind, place), UNCHANGED jar, ~crossed',
         kind = "refresh" => ~refreshing[TabOf[r]]
  PROVE  Undisturbed'
<1>1. \A c \in Calls : ~Busy(c)
  <2>1. kind = "refresh" => ~\E q \in Of(TabOf[r]) : req[q].at = "refreshing"
    BY DEF TabInv, Of
  <2>2. ~\E c \in Calls : call[c].at # "idle" /\
           ~(kind = "refresh" /\ \E q \in Of(TabOf[r]) : req[q].at = "refreshing" /\ req[q].call = c)
    BY DEF Fetch
  <2>. QED
    BY <2>1, <2>2 DEF Busy
<1>2. /\ FreeCall \in Calls /\ Begins(FreeCall, kind, Cookie) /\ UNCHANGED alarmed
      /\ req'[r].at = place /\ req'[r].call = FreeCall
      /\ \A q \in Requests \ {r} : req'[q] = req[q]
  BY Fetched
<1>. QED
  BY <1>1, <1>2, FirstCall DEF InFlight

LEMMA CalmRefreshFails ==
  ASSUME TypeOK, TabInv, Undisturbed, NEW r \in Requests, RefreshFails(r), ~crossed'
  PROVE  Undisturbed'
<1>. DEFINE c == req[r].call
<1>1. /\ req[r].at = "refreshing" /\ c \in Calls /\ call[c].at \in {"refused", "failed"}
      /\ call' = [call EXCEPT ![c] = Begun("logout", Cookie)]
      /\ UNCHANGED <<jar, replaced, alarmed>>
      /\ \A d \in Calls \ {c} : call[d].at = "idle"
  BY DEF RefreshFails, AnswerTo, table
<1>2. /\ req'[r].at = "signing-out" /\ req'[r].call = c
      /\ \A q \in Requests \ {r} : InFlight(q)' => InFlight(q) /\ req'[q] = req[q]
  BY DroppedByAnswer DEF InFlight, Flights
<1>3. InFlight(r) /\ InFlight(r)'
  BY <1>1, <1>2 DEF InFlight, Flights
<1>. HIDE DEF c
<1>4. /\ \A d \in Calls \ {c} : call'[d] = call[d]
      /\ call'[c].at = "logout" /\ call'[c].answer = "failed"
  BY <1>1 DEF Begun, TypeOK, SessionsTypeOK
<1>5. OneInFlight'
  BY <1>1, <1>2, <1>3, <1>4 DEF Undisturbed, OneInFlight, Busy
<1>6. FreshTokens'
  BY <1>1, <1>4 DEF Undisturbed, FreshTokens
<1>. QED
  BY <1>1, <1>4, <1>5, <1>6 DEF Undisturbed

(* What the API does to a call whose token was not rotated.                 *)
LEMMA Served ==
  ASSUME TypeOK, Undisturbed, NEW c \in Calls, Api(c)
  PROVE  /\ Busy(c) /\ \A d \in Calls \ {c} : call'[d] = call[d]
         /\ call[c].at # "refreshed"
         /\ call'[c].at \notin {"idle", "refresh"} /\ call'[c].answer # "refreshed"
         /\ \/ replaced' = replaced /\ call'[c].at # "refreshed"
            \/ /\ replaced' = replaced \cup {call[c].token}
               /\ call'[c].at = "refreshed" /\ call'[c].token \notin replaced'
<1>. USE DEF Busy
<1>1. call \in [Calls -> Call] /\ call[c].answer # "refreshed"
  BY DEF TypeOK, SessionsTypeOK, Undisturbed
<1>2. ASSUME NEW place \in Stations \ {"idle", "refresh", "refreshed"}, Goes(c, place),
             Busy(c), call[c].at # "refreshed", UNCHANGED replaced
      PROVE  /\ Busy(c) /\ \A d \in Calls \ {c} : call'[d] = call[d]
             /\ call[c].at # "refreshed"
             /\ call'[c].at \notin {"idle", "refresh"} /\ call'[c].answer # "refreshed"
             /\ replaced' = replaced /\ call'[c].at # "refreshed"
  BY <1>1, <1>2 DEF Goes, Call
<1>3. CASE FindRefresh(c) \/ UpdateOld(c) \/ RevokeExpired(c) \/ FindLogout(c) \/ Fails(c)
  <2>1. /\ \E place \in Stations \ {"idle", "refresh", "refreshed"} : Goes(c, place)
        /\ Busy(c) /\ call[c].at # "refreshed" /\ UNCHANGED replaced
    BY <1>3 DEF FindRefresh, Accept, UpdateOld, RevokeExpired, FindLogout, Fails, table, Stations,
                Answers
  <2>. QED
    BY <1>2, <2>1
<1>4. CASE CommitRevocation(c, call[c].answer)
  <2>1. call[c].answer \in Stations \ {"idle", "refresh", "refreshed"}
    BY <1>1 DEF Call, Stations, Answers
  <2>. QED
    BY <1>2, <1>4, <2>1 DEF CommitRevocation
<1>5. CASE RevokeFamily(c)
  BY <1>1, <1>5 DEF RevokeFamily, Snapshot, table
<1>6. CASE InsertNew(c, "refreshed")
  <2>1. /\ replaced' = replaced \cup {call[c].token}
        /\ call' = [call EXCEPT ![c] = Begun("refreshed", Len(tokens) + 1)]
        /\ call[c].at = "insert" /\ call[c].token \in Ids
    BY <1>6 DEF InsertNew, Superseded, TypeOK, SessionsTypeOK
  <2>2. Len(tokens) + 1 \notin Ids /\ replaced \subseteq Ids
    BY DEF TypeOK, SessionsTypeOK, Ids
  <2>3. Len(tokens) + 1 \notin replaced'
    BY <2>1, <2>2
  <2>. QED
    BY <1>1, <2>1, <2>3 DEF Begun
<1>. QED
  BY <1>3, <1>4, <1>5, <1>6 DEF Api, Serve

LEMMA CalmServed ==
  ASSUME TypeOK, Undisturbed, NEW c \in Calls, Api(c)
  PROVE  Undisturbed'
<1>1. /\ Busy(c) /\ \A d \in Calls \ {c} : call'[d] = call[d]
      /\ call[c].at # "refreshed"
      /\ call'[c].at \notin {"idle", "refresh"} /\ call'[c].answer # "refreshed"
      /\ \/ replaced' = replaced /\ call'[c].at # "refreshed"
         \/ /\ replaced' = replaced \cup {call[c].token}
            /\ call'[c].at = "refreshed" /\ call'[c].token \notin replaced'
  BY Served
<1>2. UNCHANGED <<req, jar>>
  BY DEF Api, browser
<1>3. \A d \in Calls \ {c} : ~Busy(d)
  BY <1>1 DEF Undisturbed, OneInFlight
<1>4. OneInFlight'
  BY <1>1, <1>2 DEF Undisturbed, OneInFlight, Busy, InFlight
<1>5. FreshTokens'
  <2>1. \A d \in Calls : call'[d].at \in {"refresh", "refreshed"} =>
                           d = c /\ call'[c].token \notin replaced'
    BY <1>1, <1>3 DEF Busy
  <2>2. (\A d \in Calls : call'[d].at # "refreshed") => jar'.refresh \notin replaced'
    BY <1>1, <1>2, <1>3 DEF Undisturbed, FreshTokens, Busy
  <2>. QED
    BY <2>1, <2>2 DEF FreshTokens
<1>6. ~alarmed'
  BY DEF Api, Undisturbed, FreshTokens
<1>. QED
  BY <1>1, <1>4, <1>5, <1>6 DEF Undisturbed

LEMMA CalmHeard ==
  ASSUME TypeOK, TabInv, Undisturbed, NEW r \in Requests,
         Refreshed(r) \/ SignedOut(r) \/ LoggedOut(r)
  PROVE  Undisturbed'
<1>. DEFINE c == req[r].call
<1>1. InFlight(r) /\ c \in Calls /\ Answered(c) /\ UNCHANGED <<replaced, alarmed>>
  BY DEF Refreshed, SignedOut, LoggedOut, InFlight, Flights, AnswerTo, Hears, table
<1>2. NoToken \notin replaced
  BY DEF NoToken, TypeOK, SessionsTypeOK, Ids
<1>3. jar'.refresh \notin replaced
  <2>1. CASE Refreshed(r)
    BY <1>1, <2>1 DEF Refreshed, AnswerTo, JarOf, Undisturbed, FreshTokens
  <2>2. CASE SignedOut(r) \/ LoggedOut(r)
    <3>1. call[c].at \in {"done", "failed"} /\ jar' \in {NoJar, jar}
      BY <2>2 DEF SignedOut, LoggedOut, AnswerTo
    <3>2. \A d \in Calls : call[d].at # "refreshed"
      BY <1>1, <3>1 DEF Undisturbed, OneInFlight, Busy
    <3>. QED
      BY <1>2, <3>1, <3>2 DEF NoJar, Undisturbed, FreshTokens
  <2>. QED
    BY <2>1, <2>2
<1>4. ~InFlight(r)' /\ \A q \in Requests \ {r} : InFlight(q)' => InFlight(q)
  <2>1. CASE Refreshed(r)
    BY <2>1, SentAll DEF InFlight, Flights
  <2>2. CASE SignedOut(r)
    <3>1. TabOf[r] \in Tabs /\ Replaced(TabOf[r]) /\ req[r].at = "signing-out"
      BY <2>2, TabsAssumption DEF SignedOut
    <3>. QED
      BY <3>1, ReplacedRequests DEF InFlight, Flights
  <2>3. CASE LoggedOut(r)
    BY <2>3, Moved DEF LoggedOut, InFlight, Flights, Places
  <2>. QED
    BY <2>1, <2>2, <2>3
<1>. HIDE DEF c
<1>. QED
  BY <1>1, <1>3, <1>4, LastCall DEF c

(* A request moves that has no call, before and after.                      *)
LEMMA CalmMove ==
  ASSUME TypeOK, TabInv, Undisturbed, NEW r \in Requests,
         \/ Send(r) \/ Accepted(r)
         \/ Unauthorized(r) /\ Moves(r, "waiting") /\ UNCHANGED call
  PROVE  Undisturbed'
<1>1. \A q \in Requests \ {r} : req'[q] = req[q]
  BY Sent, Moved DEF Accepted, Places
<1>2. ~InFlight(r) /\ ~InFlight(r)'
  BY Sent, Moved DEF Send, Accepted, Unauthorized, InFlight, Flights, Places
<1>3. \A q \in Requests : /\ InFlight(q)' <=> InFlight(q)
                          /\ InFlight(q) => req'[q].call = req[q].call
  BY <1>1, <1>2 DEF InFlight
<1>4. UNCHANGED <<jar, call>>
  BY DEF Send, Accepted, Unauthorized, ServerIdle, sessions
<1>5. UNCHANGED <<replaced, alarmed>>
  BY DEF Send, Accepted, Unauthorized, ServerIdle, Fetch, SignOut, sessions, table
<1>. QED
  BY <1>3, <1>4, <1>5, NoCallMoves

LEMMA CalmUnauthorized ==
  ASSUME TypeOK, TabInv, Undisturbed, NEW r \in Requests, Unauthorized(r), ~crossed'
  PROVE  Undisturbed'
<1>1. UNCHANGED jar
  BY DEF Unauthorized
<1>2. CASE Moves(r, "waiting") /\ UNCHANGED call
  BY <1>2, CalmMove
<1>3. CASE Fetch(r, "refresh", "refreshing") /\ ~refreshing[TabOf[r]]
  BY <1>1, <1>3, CalmFetch DEF Flights
<1>4. CASE Fetch(r, "logout", "signing-out")
  BY <1>1, <1>4, CalmFetch DEF Flights
<1>. QED
  BY <1>2, <1>3, <1>4 DEF Unauthorized, SignOut, ServerIdle, sessions

LEMMA CalmStep ==
  ASSUME TypeOK, TabInv, CalmInv, [Next]_vars
  PROVE  CalmInv'
<1>. SUFFICES ASSUME ~crossed', faults' = 0
              PROVE  Undisturbed'
  BY DEF CalmInv
<1>1. ~crossed
  BY DEF TypeOK, Next, Work, Client, Send, Accepted, Forbidden, Unauthorized, Refreshed, RefreshFails,
         SignedOut, ClickLogout, LoggedOut, AnswerLost, Unheard, LogOutAll, LogIn, Visit,
         AccessExpires, DayPasses, Api, ApiFails, SignOut, Fetch, vars
<1>2. faults = 0 /\ ~Fault
  <2>1. faults' = faults \/ Fault
    BY DEF Next, Work, Client, Send, Accepted, Forbidden, Unauthorized, Refreshed, RefreshFails,
           SignedOut, ClickLogout, LoggedOut, AnswerLost, Unheard, LogOutAll, LogIn, Visit,
           AccessExpires, DayPasses, Api, ApiFails, vars
  <2>2. faults \in Nat
    BY BrowserBounds DEF TypeOK
  <2>. QED
    BY <2>1, <2>2 DEF Fault
<1>3. Undisturbed
  BY <1>1, <1>2 DEF CalmInv
<1>4. ASSUME NEW r \in Requests, Send(r) \/ Accepted(r)
      PROVE  Undisturbed'
  BY <1>3, <1>4, CalmMove
<1>5. ASSUME NEW r \in Requests, Forbidden(r) \/ ClickLogout(r)
      PROVE  Undisturbed'
  <2>1. UNCHANGED jar /\ \E place \in Flights : Fetch(r, "logout", place)
    BY <1>5 DEF Forbidden, ClickLogout, SignOut, Flights
  <2>. QED
    BY <1>3, <2>1, CalmFetch
<1>6. ASSUME NEW r \in Requests, Client(r)
      PROVE  Undisturbed'
  BY <1>3, <1>4, <1>6, CalmUnauthorized, CalmRefreshFails, CalmHeard DEF Client
<1>7. ASSUME NEW c \in Calls, Unheard(c)
      PROVE  FALSE
  BY <1>3, <1>7 DEF Unheard, Undisturbed, OneInFlight, Busy, Answers
<1>8. ASSUME NEW b \in Tabs, LogIn(b)
      PROVE  Undisturbed'
  <2>1. /\ UNCHANGED <<call, replaced, alarmed, req>>
        /\ jar'.refresh = Len(tokens) + 1
    BY <1>8 DEF LogIn, Login, JarOf
  <2>2. Len(tokens) + 1 \notin replaced
    BY DEF TypeOK, SessionsTypeOK, Ids
  <2>. QED
    BY <1>3, <2>1, <2>2, NoCallMoves DEF InFlight
<1>9. CASE AccessExpires \/ DayPasses \/ UNCHANGED vars \/ \E b \in Tabs : Visit(b)
  <2>1. UNCHANGED <<call, replaced, alarmed, req>>
    BY <1>9 DEF AccessExpires, DayPasses, Tick, Visit, ServerIdle, vars, sessions, table, browser
  <2>2. jar'.refresh = jar.refresh
    BY <1>9 DEF AccessExpires, DayPasses, Visit, vars, browser, TypeOK
  <2>. QED
    BY <1>3, <2>1, <2>2, NoCallMoves DEF InFlight
<1>10. CASE Work
  BY <1>3, <1>6, <1>7, <1>10, CalmServed DEF Work
<1>11. CASE \E r \in Requests : Send(r) \/ Forbidden(r) \/ ClickLogout(r) \/ AnswerLost(r)
  BY <1>2, <1>4, <1>5, <1>11 DEF AnswerLost
<1>12. CASE LogOutAll \/ \E c \in Calls : ApiFails(c)
  BY <1>2, <1>12 DEF LogOutAll, ApiFails
<1>. QED
  BY <1>8, <1>9, <1>10, <1>11, <1>12 DEF Next

-----------------------------------------------------------------------------
BrowserInv == TypeOK /\ SessionsInv /\ TabInv /\ CalmInv

LEMMA BrowserStarts == BrowserInit => BrowserInv
<1>. SUFFICES ASSUME BrowserInit PROVE BrowserInv
  OBVIOUS
<1>. USE SessionBounds, BrowserBounds
<1>1. /\ tokens = <<FirstToken(User, 1)>> /\ Len(tokens) = 1 /\ Ids = {1}
      /\ FirstToken(User, 1) \in Token
  BY DEF BrowserInit, Ids, FirstToken, Token
<1>2. tokens \in Seq(Token) /\ tokens[1].family = 1
  BY <1>1 DEF FirstToken
<1>3. Idle \in Call /\ Idle.at = "idle" /\ Idle.families = {} /\ Idle.rows = {} /\ Idle.answer = "failed"
  BY DEF Idle, Begun, NoToken, Call, Stations, Answers
<1>4. \A c \in Calls : call[c] = Idle
  BY DEF BrowserInit
<1>5. SessionsTypeOK
  BY <1>1, <1>2, <1>3, <1>4 DEF BrowserInit, SessionsTypeOK
<1>6. SessionsInv
  BY <1>1, <1>2, <1>3, <1>4, <1>5
     DEF BrowserInit, SessionsInv, TypeInv, RowsInv, FamiliesInv, FamilyKeepsExpiry, LiveInv, EndInv,
         LiveIds, Rotates, FamilyOf
<1>7. At("new") \in Request /\ At("new").at = "new" /\ At("new").call = NoCall
  BY PlacedRequest DEF Places
<1>8. \A r \in Requests : req[r] = At("new")
  BY DEF BrowserInit
<1>9. jar \in [refresh : 0 .. MaxTokens, access : BOOLEAN, until : Nat]
  BY DEF BrowserInit, JarOf
<1>10. TypeOK
  <2>1. req \in [Requests -> Request]
    BY <1>7 DEF BrowserInit
  <2>2. /\ page \in [Tabs -> {"app", "login"}] /\ refreshing \in [Tabs -> BOOLEAN]
        /\ crossed \in BOOLEAN /\ alarmed \in BOOLEAN
    BY DEF BrowserInit
  <2>3. faults \in 0 .. MaxFaults
    BY DEF BrowserInit
  <2>. QED
    BY <1>5, <1>9, <2>1, <2>2, <2>3 DEF TypeOK
<1>11. TabInv
  BY <1>7, <1>8, TabsAssumption DEF BrowserInit, TabInv, InFlight, Flights
<1>12. CalmInv
  BY <1>3, <1>4, <1>7, <1>8
     DEF BrowserInit, CalmInv, Undisturbed, OneInFlight, FreshTokens, Busy, InFlight, Flights
<1>. QED
  BY <1>6, <1>10, <1>11, <1>12 DEF BrowserInv

LEMMA BrowserInductive == Spec => []BrowserInv
<1>1. BrowserInv /\ [Next]_vars => BrowserInv'
  <2>. SUFFICES ASSUME BrowserInv, [Next]_vars PROVE BrowserInv'
    OBVIOUS
  <2>1. SessionsInv'
    BY SessionsKept DEF BrowserInv
  <2>2. SessionsTypeOK'
    BY <2>1 DEF SessionsInv, TypeInv
  <2>. QED
    BY <2>1, <2>2, BrowserTyped, TabStep, CalmStep DEF BrowserInv
<1>. QED
  BY BrowserStarts, <1>1, PTL DEF Spec

-----------------------------------------------------------------------------
(* The tabs, the cookie jar and the requests stay what the client can make  *)
(* of them, whatever is lost or fails (api-client.ts).                      *)
THEOREM BrowserTypeCorrect == Spec => []TypeOK
<1>1. BrowserInv => TypeOK
  BY DEF BrowserInv
<1>. QED
  BY <1>1, BrowserInductive, PTL

(* What SessionsProofs shows for any client holds with this one: one live   *)
(* token, ended sessions, fixed lifetimes.                                  *)
THEOREM BrowserSessionsHold == Spec => [](OneLiveToken /\ EndedStaysEnded /\ FamilyKeepsExpiry)
<1>1. BrowserInv => OneLiveToken /\ EndedStaysEnded /\ FamilyKeepsExpiry
  BY DEF BrowserInv, SessionsInv, TypeInv, LiveInv, EndInv, OneLiveToken, EndedStaysEnded, OfFamily,
         LiveIds
<1>. QED
  BY <1>1, BrowserInductive, PTL

(* However many tabs there are, a browser whose calls do not cross and do   *)
(* not fail never presents a token that was rotated, so that no family is   *)
(* revoked by mistake (auth.service.ts, refreshToken).                      *)
THEOREM NoTabAccusesItself == Spec => []NoFalseAlarm
<1>1. BrowserInv => NoFalseAlarm
  BY DEF BrowserInv, TypeOK, CalmInv, Undisturbed, NoFalseAlarm
<1>. QED
  BY <1>1, BrowserInductive, PTL

(* Nobody waits for a refresh that is over: somebody in the tab still       *)
(* refreshes or signs out (api-client.ts, request).                         *)
THEOREM NobodyWaitsForNothing == Spec => []WaitersAreHeard
<1>1. BrowserInv => WaitersAreHeard
  BY TabsAssumption DEF BrowserInv, TabInv, WaitersAreHeard, Of
<1>. QED
  BY <1>1, BrowserInductive, PTL
=============================================================================
