------------------------------ MODULE Requests -----------------------------
(* The way of POST /transfers through the API and back: the answers cached  *)
(* by idempotency key, the rate limit, the API key, the handler; and the    *)
(* clients: the web form, which takes a new idempotency key after an error, *)
(* and programs, which keep theirs.  TransferTx has the handler's own steps. *)
EXTENDS RateLimit, ApiKeys

CONSTANTS
  Clients,
  Forms,      \* the clients that are web forms
  Calls,      \* the calls the API serves at one time
  KeyOf,      \* the API key each client has been or will be given
  NoClient,
  NoCall,
  MaxTries,    \* bound on the idempotency keys of a form
  MaxSends,    \* bound on the requests sent
  MaxCommands, \* bound on the calls of administrators
  MaxFaults    \* bound on the clients left in doubt, and on the keys left uncached

ASSUME ClientsAssumption == Forms \subseteq Clients /\ KeyOf \in [Clients -> Keys]
ASSUME IdentitiesAssumption == Identities = Keys
ASSUME NobodyAssumption == NoClient \notin Clients /\ NoCall \notin Calls
ASSUME ClientBounds == MaxTries \in Nat \ {0} /\ MaxSends \in Nat /\ MaxCommands \in Nat /\ MaxFaults \in Nat

VARIABLES
  cached,     \* the idempotency keys with a cached answer
  transfers,  \* how many transfers each key has
  call,       \* where each call is
  client,     \* what each client does
  sends,
  commands,
  excused,    \* history: the keys whose answer did not stay in the cache
  doubted     \* history: the clients that do not know what became of a call

counters == <<sends, commands>>
vars == <<now, limits, tenants, cached, transfers, call, client, counters, excused, doubted>>

IdempotencyKeys == Clients \X (1 .. MaxTries)

Stations == {"idle", "middleware", "limit", "key", "store", "handle", "cache"}

(* A call has its API key, its idempotency key, the tenant's row it found,  *)
(* and whether another call with its idempotency key was served meanwhile.  *)
Call   == [at : Stations, from : Clients \cup {NoClient}, try : 1 .. MaxTries, key : Keys,
           row : Rows, met : BOOLEAN]
(* A client has the number of its idempotency key, whether it has refreshed *)
(* its session for it, and the call whose answer it waits for.              *)
Client == [at : {"ready", "waiting", "done", "gone"}, try : 1 .. MaxTries,
           refreshed : BOOLEAN, call : Calls \cup {NoCall}]

Idle  == [at |-> "idle", from |-> NoClient, try |-> 1, key |-> 1, row |-> "none", met |-> FALSE]
Ready == [at |-> "ready", try |-> 1, refreshed |-> FALSE, call |-> NoCall]

IdempotencyKey(c) == <<call[c].from, call[c].try>>

Init ==
  /\ now = 0 /\ RateLimitInit /\ ApiKeysInit
  /\ cached = {} /\ transfers = [i \in IdempotencyKeys |-> 0]
  /\ call = [c \in Calls |-> Idle] /\ client = [p \in Clients |-> Ready]
  /\ sends = 0 /\ commands = 0 /\ excused = {} /\ doubted = {}

Goes(c, place) == call' = [call EXCEPT ![c].at = place]

-----------------------------------------------------------------------------
(* The clients.                                                             *)

SameKey(p) == {d \in Calls : call[d].from = p /\ call[d].try = client[p].try}

Sent(p) == [at |-> "middleware", from |-> p, try |-> client[p].try, key |-> KeyOf[p],
            row |-> "none", met |-> SameKey(p) # {}]

Send(p, c) ==
  /\ client[p].at = "ready" /\ KeyOf[p] <= tenant.key
  /\ sends < MaxSends /\ call[c].at = "idle"
  /\ call' = [d \in Calls |-> IF d = c THEN Sent(p)
                             ELSE IF d \in SameKey(p) THEN [call[d] EXCEPT !.met = TRUE]
                             ELSE call[d]]
  /\ client' = [client EXCEPT ![p].at = "waiting", ![p].call = c]
  /\ sends' = sends + 1
  /\ UNCHANGED <<now, limits, tenants, cached, transfers, commands, excused, doubted>>

(* onError: the form takes a new idempotency key, whatever the error.       *)
TriesAgain(p) ==
  CASE p \notin Forms              -> [Ready EXCEPT !.try = client[p].try]
    [] client[p].try = MaxTries    -> [client[p] EXCEPT !.at = "gone", !.call = NoCall]
    [] OTHER                       -> [Ready EXCEPT !.try = client[p].try + 1]

(* A 401 makes the web client refresh its session and send the same request *)
(* once more; a second one signs out.                                       *)
Told(p, answer) ==
  CASE answer = "created" -> [client[p] EXCEPT !.at = "done", !.call = NoCall]
    [] answer = "unauthorized" /\ ~client[p].refreshed ->
         [client[p] EXCEPT !.at = "ready", !.refreshed = TRUE, !.call = NoCall]
    [] answer = "unauthorized" /\ client[p].refreshed ->
         [client[p] EXCEPT !.at = "gone", !.call = NoCall]
    [] OTHER -> TriesAgain(p)

Waiting(c) == {p \in Clients : client[p].at = "waiting" /\ client[p].call = c}

Answer(c, answer) ==
  client' = [p \in Clients |-> IF p \in Waiting(c) THEN Told(p, answer) ELSE client[p]]

Ends(c, answer) == Answer(c, answer) /\ call' = [call EXCEPT ![c] = Idle]

LeavesInDoubt(p) == doubted' = doubted \cup {p} /\ Cardinality(doubted') <= MaxFaults
LeavesUncached(i) == excused' = excused \cup {i} /\ Cardinality(excused') <= MaxFaults

(* The answer gets lost, or the client stops waiting for it.                *)
GivesUp(p) ==
  /\ client[p].at = "waiting"
  /\ client' = [client EXCEPT ![p] = TriesAgain(p)]
  /\ LeavesInDoubt(p)
  /\ UNCHANGED <<now, limits, tenants, cached, transfers, call, counters, excused>>

-----------------------------------------------------------------------------
(* IdempotencyMiddleware, before all guards.                                *)
Middleware(c) ==
  /\ call[c].at = "middleware"
  /\ \/ IdempotencyKey(c) \in cached /\ Ends(c, "created")
     \/ IdempotencyKey(c) \notin cached /\ Goes(c, "limit") /\ UNCHANGED client
  /\ UNCHANGED <<now, limits, tenants, cached, transfers, counters, excused, doubted>>

(* RateLimitGuard; without Redis it refuses everything.                     *)
RateLimitGuard(c) ==
  /\ call[c].at = "limit"
  /\ \/ \E t \in Readings : \/ Admit(call[c].key, t) /\ Goes(c, "key") /\ UNCHANGED client
                            \/ TooMany(call[c].key, t) /\ Ends(c, "error")
     \/ Ends(c, "error") /\ UNCHANGED limits
  /\ UNCHANGED <<now, tenants, cached, transfers, counters, excused, doubted>>

(* From here on the API key and the row do not matter any more.             *)
Authorized(c) == call' = [call EXCEPT ![c].at = "handle", ![c].key = 1, ![c].row = "none"]

Judged(c, row) ==
  \/ row = "active" /\ Authorized(c) /\ UNCHANGED client
  \/ row # "active" /\ Ends(c, "unauthorized")

(* A lookup that misses and the query are one step: only an administrator's *)
(* or another call's step could come between, and may as well come before.  *)
FindKey(c) ==
  /\ call[c].at = "key"
  /\ LET k == call[c].key
     IN \/ /\ apiCache[k].row # "none"
           /\ Judged(c, apiCache[k].row)
           /\ UseCached(k)
        \/ /\ apiCache[k].row = "none"
           /\ call' = [call EXCEPT ![c].at = "store", ![c].row = RowOf(tenant, k)]
           /\ UNCHANGED <<client, apiCache>>
  /\ UNCHANGED <<now, limits, tenant, admin, unsettled, cached, transfers, counters, excused, doubted>>

StoreKey(c) ==
  /\ call[c].at = "store"
  /\ StoreRow(call[c].key, call[c].row)
  /\ Judged(c, call[c].row)
  /\ UNCHANGED <<now, limits, cached, transfers, counters, excused, doubted>>

-----------------------------------------------------------------------------
(* Faulty variant of Refuses: errors are cached like answers.               *)
RefusesForGood(c) ==
  /\ call[c].at = "handle"
  /\ Answer(c, "error") /\ Goes(c, "cache")
  /\ UNCHANGED <<now, limits, tenants, cached, transfers, counters, excused, doubted>>

(* The session is refused, or createTransfer refuses or fails.              *)
Refuses(c) ==
  /\ call[c].at = "handle"
  /\ \E answer \in {"unauthorized", "error"} : Ends(c, answer)
  /\ UNCHANGED <<now, limits, tenants, cached, transfers, counters, excused, doubted>>

(* Faulty variant of Creates: nothing makes idempotency keys unique.        *)
CreatesAnyway(c) ==
  /\ call[c].at = "handle"
  /\ transfers' = [transfers EXCEPT ![IdempotencyKey(c)] = @ + 1]
  /\ Answer(c, "created") /\ Goes(c, "cache")
  /\ UNCHANGED <<now, limits, tenants, cached, counters, excused, doubted>>

(* Faulty variant of Creates: the answer cannot be serialized.              *)
CreatesAndFails(c) ==
  /\ call[c].at = "handle" /\ transfers[IdempotencyKey(c)] = 0
  /\ transfers' = [transfers EXCEPT ![IdempotencyKey(c)] = 1]
  /\ Ends(c, "error")
  /\ UNCHANGED <<now, limits, tenants, cached, counters, excused, doubted>>

Creates(c) ==
  /\ call[c].at = "handle" /\ transfers[IdempotencyKey(c)] = 0
  /\ transfers' = [transfers EXCEPT ![IdempotencyKey(c)] = 1]
  /\ Answer(c, "created") /\ Goes(c, "cache")
  /\ UNCHANGED <<now, limits, tenants, cached, counters, excused, doubted>>

(* The commit is not acknowledged: the call answers an error.               *)
CreatesUnknowingly(c) ==
  /\ call[c].at = "handle" /\ transfers[IdempotencyKey(c)] = 0
  /\ transfers' = [transfers EXCEPT ![IdempotencyKey(c)] = 1]
  /\ Ends(c, "error")
  /\ LeavesUncached(IdempotencyKey(c))
  /\ LeavesInDoubt(call[c].from)
  /\ UNCHANGED <<now, limits, tenants, cached, counters>>

(* The unique index: "Duplicate idempotency key".                           *)
Duplicate(c) ==
  /\ call[c].at = "handle" /\ transfers[IdempotencyKey(c)] > 0
  /\ Ends(c, "error")
  /\ UNCHANGED <<now, limits, tenants, cached, transfers, counters, excused, doubted>>

(* Faulty variant of CacheAnswer: an answer of 201 is not cached.           *)
CacheNoAnswer(c) ==
  /\ call[c].at = "cache"
  /\ call' = [call EXCEPT ![c] = Idle]
  /\ UNCHANGED <<now, limits, tenants, cached, transfers, client, counters, excused, doubted>>

(* The answer is cached while it is on its way, with nobody waiting.        *)
CacheAnswer(c) ==
  /\ call[c].at = "cache"
  /\ cached' = cached \cup {IdempotencyKey(c)}
  /\ call' = [call EXCEPT ![c] = Idle]
  /\ UNCHANGED <<now, limits, tenants, transfers, client, counters, excused, doubted>>

CacheFails(c) ==
  /\ call[c].at = "cache"
  /\ call' = [call EXCEPT ![c] = Idle]
  /\ LeavesUncached(IdempotencyKey(c))
  /\ UNCHANGED <<now, limits, tenants, cached, transfers, client, counters, doubted>>

(* After 24 hours.                                                          *)
AnswerExpires(i) ==
  /\ i \in cached
  /\ cached' = cached \ {i}
  /\ LeavesUncached(i)
  /\ UNCHANGED <<now, limits, tenants, transfers, call, client, counters, doubted>>

-----------------------------------------------------------------------------
Administer(a) ==
  /\ \/ AdminReads(a) /\ commands < MaxCommands /\ commands' = commands + 1
     \/ AdminUpdates(a) /\ UNCHANGED commands
  /\ UNCHANGED <<now, limits, cached, transfers, call, client, sends, excused, doubted>>

Tick ==
  /\ Passes /\ SetsExpire /\ EntriesExpire
  /\ UNCHANGED <<cached, transfers, call, client, counters, excused, doubted>>

Serve(c) ==
  \/ Middleware(c) \/ RateLimitGuard(c) \/ FindKey(c) \/ StoreKey(c)
  \/ Refuses(c) \/ Creates(c) \/ CreatesUnknowingly(c) \/ Duplicate(c)
  \/ CacheAnswer(c) \/ CacheFails(c)

Next ==
  \/ \E p \in Clients : GivesUp(p) \/ \E c \in Calls : Send(p, c)
  \/ \E c \in Calls : Serve(c)
  \/ \E i \in IdempotencyKeys : AnswerExpires(i)
  \/ \E a \in Admins : Administer(a)
  \/ Tick

Spec == Init /\ [][Next]_vars

-----------------------------------------------------------------------------
TypeOK ==
  /\ RateLimitTypeOK /\ ApiKeysTypeOK
  /\ cached \subseteq IdempotencyKeys /\ transfers \in [IdempotencyKeys -> {0, 1}]
  /\ call \in [Calls -> Call] /\ client \in [Clients -> Client]
  /\ sends \in 0 .. MaxSends /\ commands \in 0 .. MaxCommands
  /\ excused \subseteq IdempotencyKeys /\ doubted \subseteq Clients

TransfersOf(p) == {i \in IdempotencyKeys : i[1] = p /\ transfers[i] > 0}

(* A client that means one transfer makes a second one only if it is a form *)
(* and did not learn what became of a call: its next try has another key    *)
(* (initiate-transfer-form.tsx:109).                                        *)
OneTransferMeant ==
  \A p \in Clients : Cardinality(TransfersOf(p)) > 1 => p \in Forms \cap doubted

(* A client that was told that its transfer exists is told the truth, also  *)
(* if the answer came from the cache.                                       *)
ToldTheTruth ==
  \A p \in Clients : client[p].at = "done" => transfers[<<p, client[p].try>>] = 1

(* A call that comes to the handler with a used key, and will be told that  *)
(* it is a duplicate, was served together with another one of its key, or   *)
(* the answer did not get into the cache or had expired                     *)
(* (indempotency.middleware.ts:27).                                         *)
DuplicateIsExplained ==
  \A c \in Calls : call[c].at = "handle" /\ transfers[IdempotencyKey(c)] > 0
                     => call[c].met \/ IdempotencyKey(c) \in excused

(* How stale the judgement of an API key can be, whatever calls and         *)
(* administrators overlap: a lifetime of the cache after the row changed or *)
(* after a call stored a row it had read before the change                  *)
(* (api-key.strategy.ts:34).  It is all the code keeps, and less than       *)
(* PROJECT_PLAN.md:75 and copy.ts:20 of the dashboard promise: that the old *)
(* key is invalid immediately after a rotation.                             *)
KeyJudgedByRecentRow ==
  [][\A c \in Calls :
       LET k == call[c].key
           accepted == call'[c].at = "handle"
       IN call[c].at \in {"key", "store"} /\ call'[c].at \in {"handle", "idle"}
            => accepted = (RowOf(tenant, k) = "active") \/ now < unsettled'[k] + Ttl]_vars
=============================================================================
