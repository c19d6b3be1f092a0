--------------------------- MODULE RequestsProofs --------------------------
(* Proofs about Requests and the two protocols it is made of: the rate      *)
(* limit, for any limit, window, slack and number of identities, and the    *)
(* cache of API keys, for any lifetime and any number of keys.              *)
EXTENDS Requests, FiniteSetTheorems, TLAPS

-----------------------------------------------------------------------------
(* The rate limit.                                                          *)

Recent(i) == now - (Window - Slack) < admissions[i].at

AdmittedIn(k, t) == {i \in Admissions : /\ admissions[i].identity = k
                                        /\ t - (Window - Slack) < admissions[i].at
                                        /\ admissions[i].at <= t}

(* Recent admissions are members of their set, whose size is limited.       *)
RateInv ==
  /\ RateLimitTypeOK
  /\ \A i \in Admissions : admissions[i].at <= now /\ admissions[i].score >= admissions[i].at - Slack
  /\ \A i \in Admissions : Recent(i) => i \in limiter
  /\ \A k \in Identities : Cardinality(MembersOf(k)) <= Limit
  /\ RateHolds

LEMMA WindowFacts == Limit \in Nat /\ Window \in Nat /\ Slack \in Nat /\ Slack <= Window
BY WindowAssumption

LEMMA FiniteMembers ==
  ASSUME RateLimitTypeOK
  PROVE  /\ IsFiniteSet(Admissions) /\ IsFiniteSet(limiter)
         /\ \A k : IsFiniteSet(MembersOf(k))
<1>1. Len(admissions) \in Nat
  BY DEF RateLimitTypeOK
<1>2. IsFiniteSet(Admissions)
  BY <1>1, FS_Interval DEF Admissions
<1>3. IsFiniteSet(limiter)
  BY <1>2, FS_Subset DEF RateLimitTypeOK
<1>. QED
  BY <1>2, <1>3, FS_Subset DEF MembersOf

(* Dropping what lies outside the window of a late clock keeps what is      *)
(* recent.                                                                  *)
LEMMA KeptRecent ==
  ASSUME RateInv, NEW k \in Identities, NEW t \in Readings, NEW i \in Admissions, Recent(i)
  PROVE  i \in Kept(k, t)
<1>1. i \in limiter /\ admissions[i] \in Admission
  BY DEF RateInv, RateLimitTypeOK, Admissions
<1>2. now \in Nat /\ t \in Int /\ t <= now
  BY WindowFacts DEF RateInv, RateLimitTypeOK, Readings
<1>3. /\ admissions[i].score >= admissions[i].at - Slack
      /\ now - (Window - Slack) < admissions[i].at
      /\ admissions[i].score \in Nat /\ admissions[i].at \in Nat
  BY <1>1 DEF RateInv, Recent, Admission
<1>4. ~(admissions[i].score <= t - Window)
  BY <1>2, <1>3, WindowFacts
<1>. QED
  BY <1>1, <1>4 DEF Kept, Outside

LEMMA TooManyKeeps ==
  ASSUME RateInv, NEW k \in Identities, NEW t \in Readings, TooMany(k, t), UNCHANGED now
  PROVE  RateInv'
<1>1. UNCHANGED <<admissions, now>> /\ limiter' = Kept(k, t) /\ Kept(k, t) \subseteq limiter
  BY DEF TooMany, Kept
<1>2. RateLimitTypeOK' /\ RateHolds'
  BY <1>1 DEF RateInv, RateLimitTypeOK, RateHolds, Admissions
<1>3. \A i \in Admissions : Recent(i) => i \in limiter'
  BY <1>1, KeptRecent
<1>4. \A j \in Identities : MembersOf(j)' \subseteq MembersOf(j)
  BY <1>1 DEF MembersOf
<1>5. \A j \in Identities : Cardinality(MembersOf(j)') <= Limit
  <2>. SUFFICES ASSUME NEW j \in Identities PROVE Cardinality(MembersOf(j)') <= Limit
    OBVIOUS
  <2>1. IsFiniteSet(MembersOf(j)) /\ IsFiniteSet(MembersOf(j)')
    BY <1>4, FiniteMembers, FS_Subset DEF RateInv
  <2>2. Cardinality(MembersOf(j)') <= Cardinality(MembersOf(j))
    BY <1>4, <2>1, FS_Subset
  <2>. QED
    BY <2>1, <2>2, FS_CardinalityType, WindowFacts DEF RateInv
<1>. QED
  BY <1>1, <1>2, <1>3, <1>5 DEF RateInv, Admissions, Recent

LEMMA AdmitGrows ==
  ASSUME RateInv, NEW k \in Identities, NEW t \in Readings, Admit(k, t), UNCHANGED now
  PROVE  LET n == Len(admissions) + 1
         IN /\ RateLimitTypeOK'
            /\ Admissions' = Admissions \cup {n} /\ n \notin Admissions
            /\ \A i \in Admissions : admissions'[i] = admissions[i]
            /\ admissions'[n] = [identity |-> k, score |-> t, at |-> now]
<1>. DEFINE n == Len(admissions) + 1
            x == [identity |-> k, score |-> t, at |-> now]
<1>1. admissions \in Seq(Admission) /\ Len(admissions) \in Nat /\ now \in Nat
  BY DEF RateInv, RateLimitTypeOK
<1>2. x \in Admission
  BY <1>1, WindowFacts DEF Admission, Readings
<1>3. admissions' = Append(admissions, x)
  BY DEF Admit
<1>. HIDE DEF x
<1>4. /\ admissions' \in Seq(Admission) /\ Len(admissions') = n
      /\ \A i \in 1 .. Len(admissions) : admissions'[i] = admissions[i]
      /\ admissions'[n] = x
  BY <1>1, <1>2, <1>3
<1>5. Admissions' = Admissions \cup {n} /\ n \notin Admissions
  BY <1>1, <1>4 DEF Admissions
<1>6. limiter' \subseteq Admissions'
  BY <1>5 DEF Admit, Kept, RateInv, RateLimitTypeOK
<1>. QED
  BY <1>1, <1>4, <1>5, <1>6 DEF RateLimitTypeOK, Admissions, x

LEMMA AdmitKeeps ==
  ASSUME RateInv, NEW k \in Identities, NEW t \in Readings, Admit(k, t), UNCHANGED now
  PROVE  RateInv'
<1>. DEFINE n == Len(admissions) + 1
<1>1. /\ RateLimitTypeOK'
      /\ Admissions' = Admissions \cup {n} /\ n \notin Admissions
      /\ \A i \in Admissions : admissions'[i] = admissions[i]
      /\ admissions'[n].identity = k /\ admissions'[n].score = t /\ admissions'[n].at = now
  <2>1. /\ RateLimitTypeOK' /\ Admissions' = Admissions \cup {n} /\ n \notin Admissions
        /\ \A i \in Admissions : admissions'[i] = admissions[i]
        /\ admissions'[n] = [identity |-> k, score |-> t, at |-> now]
    BY AdmitGrows
  <2>. QED
    BY <2>1
<1>2. /\ limiter' = Kept(k, t) \cup {n} /\ Kept(k, t) \subseteq limiter /\ limiter \subseteq Admissions
      /\ now' = now /\ now \in Nat
  BY DEF Admit, Kept, RateInv, RateLimitTypeOK
<1>3. /\ \A i \in limiter : admissions[i].identity # k => i \in Kept(k, t)
      /\ Cardinality(Kept(k, t) \cap MembersOf(k)) < Limit
  BY DEF Kept, Admit, HasRoom
<1>n. n \in Nat
  BY DEF RateInv, RateLimitTypeOK
<1>. HIDE DEF n
<1>4. \A i \in Admissions' : admissions'[i].at <= now /\ admissions'[i].score >= admissions'[i].at - Slack
  BY <1>1, <1>2, WindowFacts DEF RateInv, Readings
<1>5. \A i \in Admissions' : now - (Window - Slack) < admissions'[i].at => i \in limiter'
  BY <1>1, <1>2, KeptRecent DEF Recent
<1>. DEFINE Old == Kept(k, t) \cap MembersOf(k)
            New == {i \in limiter' : admissions'[i].identity = k}
<1>6. New = Old \cup {n} /\ n \notin Old
  BY <1>1, <1>2, <1>3 DEF MembersOf
<1>7. IsFiniteSet(Old) /\ IsFiniteSet(New) /\ Cardinality(New) <= Limit
  <2>1. IsFiniteSet(Old)
    <3>1. IsFiniteSet(MembersOf(k)) /\ Old \subseteq MembersOf(k)
      BY FiniteMembers DEF RateInv
    <3>. QED
      BY <3>1, FS_Subset
  <2>. HIDE DEF Old, New
  <2>2. IsFiniteSet(New) /\ Cardinality(New) = Cardinality(Old) + 1 /\ Cardinality(Old) \in Nat
    BY <1>6, <2>1, FS_AddElement, FS_CardinalityType
  <2>. QED
    BY <1>3, <2>1, <2>2, WindowFacts DEF Old
<1>8. \A j \in Identities : Cardinality({i \in limiter' : admissions'[i].identity = j}) <= Limit
  <2>. SUFFICES ASSUME NEW j \in Identities, j # k
                PROVE  Cardinality({i \in limiter' : admissions'[i].identity = j}) <= Limit
    BY <1>7
  <2>1. {i \in limiter' : admissions'[i].identity = j} = MembersOf(j)
    BY <1>1, <1>2, <1>3 DEF MembersOf
  <2>. QED
    BY <2>1 DEF RateInv
<1>9. RateHolds'
  <2>. SUFFICES ASSUME NEW j \in Identities, NEW s \in 0 .. now
                PROVE  Cardinality({i \in Admissions' : /\ admissions'[i].identity = j
                                                        /\ s - (Window - Slack) < admissions'[i].at
                                                        /\ admissions'[i].at <= s}) <= Limit
    BY <1>2 DEF RateHolds
  <2>. DEFINE In == {i \in Admissions' : /\ admissions'[i].identity = j
                                         /\ s - (Window - Slack) < admissions'[i].at
                                         /\ admissions'[i].at <= s}
  <2>1. CASE j = k /\ s = now
    <3>1. In \subseteq New
      BY <1>5, <2>1
    <3>2. IsFiniteSet(In) /\ Cardinality(In) <= Cardinality(New)
      BY <1>7, <3>1, FS_Subset
    <3>3. Cardinality(In) \in Nat /\ Cardinality(New) \in Nat
      BY <1>7, <3>2, FS_CardinalityType
    <3>. QED
      BY <1>7, <3>2, <3>3, WindowFacts
  <2>2. CASE j # k \/ s # now
    <3>1. In = AdmittedIn(j, s)
      BY <1>1, <1>2, <2>2 DEF AdmittedIn
    <3>. QED
      BY <3>1 DEF RateInv, RateHolds, AdmittedIn
  <2>. QED
    BY <2>1, <2>2
<1>. QED
  BY <1>1, <1>2, <1>4, <1>5, <1>8, <1>9 DEF RateInv, Recent, MembersOf

LEMMA TickKeeps ==
  ASSUME RateInv, Passes, SetsExpire
  PROVE  RateInv'
<1>1. /\ now' = now + 1 /\ now \in Nat /\ admissions' = admissions
      /\ limiter' \subseteq limiter /\ limiter \subseteq Admissions
      /\ Admissions' = Admissions /\ \A i \in Admissions : admissions[i].at \in Nat
  <2>1. now \in Nat /\ admissions \in Seq(Admission) /\ limiter \subseteq Admissions
    BY DEF RateInv, RateLimitTypeOK
  <2>2. \A i \in Admissions : admissions[i] \in Admission
    BY <2>1 DEF Admissions
  <2>. QED
    BY <2>1, <2>2 DEF Passes, SetsExpire, Admissions, Admission
<1>2. RateLimitTypeOK'
  BY <1>1 DEF RateInv, RateLimitTypeOK
<1>3. \A i \in Admissions : admissions[i].at <= now + 1 /\ admissions[i].score >= admissions[i].at - Slack
  BY <1>1 DEF RateInv
<1>4. \A i \in Admissions : now + 1 - (Window - Slack) < admissions[i].at => i \in limiter'
  <2>. SUFFICES ASSUME NEW i \in Admissions, now + 1 - (Window - Slack) < admissions[i].at
                PROVE  i \in limiter'
    OBVIOUS
  <2>1. i \in limiter
    BY <1>1, WindowFacts DEF RateInv, Recent
  <2>2. admissions[i].at > now + 1 - Window
    BY <1>1, WindowFacts
  <2>. QED
    BY <2>1, <2>2 DEF SetsExpire
<1>. DEFINE Left(k) == {i \in limiter' : admissions[i].identity = k}
<1>5. \A k \in Identities : IsFiniteSet(Left(k)) /\ Cardinality(Left(k)) \in Nat /\ Cardinality(Left(k)) <= Limit
  <2>. SUFFICES ASSUME NEW k \in Identities
                PROVE  /\ IsFiniteSet(Left(k)) /\ Cardinality(Left(k)) \in Nat
                       /\ Cardinality(Left(k)) <= Limit
    OBVIOUS
  <2>1. Left(k) \subseteq MembersOf(k)
    BY <1>1 DEF MembersOf
  <2>2. /\ IsFiniteSet(Left(k)) /\ Cardinality(Left(k)) <= Cardinality(MembersOf(k))
        /\ Cardinality(MembersOf(k)) \in Nat /\ Cardinality(Left(k)) \in Nat
    BY <2>1, FiniteMembers, FS_Subset, FS_CardinalityType DEF RateInv
  <2>3. Cardinality(MembersOf(k)) <= Limit
    BY DEF RateInv
  <2>. QED
    BY <2>2, <2>3, WindowFacts
<1>6. RateHolds'
  <2>. SUFFICES ASSUME NEW k \in Identities, NEW t \in 0 .. now + 1
                PROVE  Cardinality(AdmittedIn(k, t)) <= Limit
    BY <1>1 DEF RateHolds, AdmittedIn
  <2>1. CASE t \in 0 .. now
    BY <2>1 DEF RateInv, RateHolds, AdmittedIn
  <2>2. CASE t = now + 1
    <3>1. AdmittedIn(k, t) \subseteq Left(k)
      <4>. SUFFICES ASSUME NEW i \in Admissions, admissions[i].identity = k,
                           now + 1 - (Window - Slack) < admissions[i].at
                    PROVE  i \in Left(k)
        BY <1>1, <2>2, WindowFacts DEF AdmittedIn
      <4>. QED
        BY <1>4
    <3>2. /\ Cardinality(AdmittedIn(k, t)) <= Cardinality(Left(k))
          /\ Cardinality(AdmittedIn(k, t)) \in Nat
      BY <1>5, <3>1, FS_Subset, FS_CardinalityType
    <3>. QED
      BY <1>5, <3>2, WindowFacts
  <2>. QED
    BY <1>1, <2>1, <2>2
<1>7. (\A i \in Admissions : Recent(i) => i \in limiter)'
  BY <1>1, <1>4, WindowFacts DEF Recent
<1>8. (\A k \in Identities : Cardinality(MembersOf(k)) <= Limit)'
  BY <1>1, <1>5 DEF MembersOf
<1>. QED
  BY <1>1, <1>2, <1>3, <1>6, <1>7, <1>8 DEF RateInv

LEMMA RateInductive == RateLimitSpec => []RateInv
<1>1. now = 0 /\ RateLimitInit => RateInv
  <2>. SUFFICES ASSUME now = 0, RateLimitInit PROVE RateInv
    OBVIOUS
  <2>1. Admissions = {} /\ limiter = {} /\ admissions \in Seq(Admission)
    BY DEF RateLimitInit, Admissions
  <2>2. \A k \in Identities : MembersOf(k) = {} /\ \A t \in 0 .. now : AdmittedIn(k, t) = {}
    BY <2>1 DEF MembersOf, AdmittedIn
  <2>3. Cardinality({}) = 0
    BY FS_EmptySet
  <2>. QED
    <3>1. RateLimitTypeOK
      BY <2>1 DEF RateLimitTypeOK
    <3>2. RateHolds
      BY <2>2, <2>3, WindowFacts DEF RateHolds, AdmittedIn
    <3>3. \A k \in Identities : Cardinality(MembersOf(k)) <= Limit
      BY <2>2, <2>3, WindowFacts
    <3>. QED
      BY <2>1, <3>1, <3>2, <3>3 DEF RateInv
<1>2. RateInv /\ [RateLimitNext]_<<now, limits>> => RateInv'
  <2>. SUFFICES ASSUME RateInv, [RateLimitNext]_<<now, limits>> PROVE RateInv'
    OBVIOUS
  <2>1. CASE Passes /\ SetsExpire
    BY <2>1, TickKeeps
  <2>2. ASSUME NEW k \in Identities, NEW t \in Readings, Admit(k, t) \/ TooMany(k, t), UNCHANGED now
        PROVE  RateInv'
    BY <2>2, AdmitKeeps, TooManyKeeps
  <2>3. CASE UNCHANGED <<now, limits>>
    BY <2>3 DEF limits, RateInv, RateLimitTypeOK, RateHolds, Admissions, Recent, MembersOf
  <2>. QED
    BY <2>1, <2>2, <2>3 DEF RateLimitNext
<1>. QED
  BY <1>1, <1>2, PTL DEF RateLimitSpec

(* However many requests come and however the clocks of the processes       *)
(* differ, the limit holds (rate-limit.guard.ts, SLIDING_WINDOW_SCRIPT).    *)
THEOREM LimitHolds == RateLimitSpec => []RateHolds
<1>1. RateInv => RateHolds
  BY DEF RateInv
<1>. QED
  BY <1>1, RateInductive, PTL

-----------------------------------------------------------------------------
(* The cache of API keys.                                                   *)

KeysInv ==
  /\ ApiKeysTypeOK
  /\ \A k \in Keys : apiCache[k].until <= now + Ttl
  /\ \A k \in Keys : apiCache[k].row # "none" => now < apiCache[k].until
  /\ StaleEntriesExpire

LEMMA RowTyped == \A k : RowOf(tenant, k) \in Rows
BY DEF RowOf, Rows

LEMMA StoreKeeps ==
  ASSUME KeysInv, NEW k \in Keys, NEW row \in Rows, StoreRow(k, row), UNCHANGED now
  PROVE  KeysInv'
<1>1. now \in Nat /\ Ttl \in Nat \ {0} /\ UNCHANGED <<tenant, admin>>
  BY KeyBounds DEF KeysInv, ApiKeysTypeOK, StoreRow
<1>2. CASE row = "none"
  <2>1. UNCHANGED <<tenant, admin, apiCache, unsettled>>
    BY <1>2 DEF StoreRow
  <2>. QED
    BY <2>1 DEF KeysInv, ApiKeysTypeOK, StaleEntriesExpire
<1>3. CASE row # "none"
  <2>1. apiCache' = [apiCache EXCEPT ![k] = [row |-> row, until |-> now + Ttl]]
    BY <1>3 DEF StoreRow
  <2>2. /\ unsettled' \in [Keys -> Nat]
        /\ \A j \in Keys : j # k => unsettled'[j] = unsettled[j]
        /\ row # RowOf(tenant, k) => unsettled'[k] = now
    BY <1>1, <1>3 DEF StoreRow, KeysInv, ApiKeysTypeOK
  <2>3. ApiKeysTypeOK'
    <3>1. now + Ttl \in Nat /\ apiCache \in [Keys -> [row : Rows, until : Nat]]
      BY <1>1 DEF KeysInv, ApiKeysTypeOK
    <3>2. apiCache' \in [Keys -> [row : Rows, until : Nat]]
      BY <2>1, <3>1
    <3>3. /\ tenant' \in [key : Keys, active : BOOLEAN]
          /\ admin' \in [Admins -> Commands \cup {"nothing"}]
      BY <1>1 DEF KeysInv, ApiKeysTypeOK
    <3>. QED
      BY <1>1, <2>2, <3>2, <3>3 DEF ApiKeysTypeOK
  <2>4. \A j \in Keys : IF j = k THEN apiCache'[j].row = row /\ apiCache'[j].until = now + Ttl
                                 ELSE apiCache'[j] = apiCache[j]
    BY <2>1 DEF KeysInv, ApiKeysTypeOK
  <2>. QED
    BY <1>1, <2>2, <2>3, <2>4 DEF KeysInv, StaleEntriesExpire
<1>. QED
  BY <1>2, <1>3

LEMMA UpdateKeeps ==
  ASSUME KeysInv, NEW a \in Admins, AdminUpdates(a), UNCHANGED now
  PROVE  KeysInv'
<1>1. now \in Nat /\ Ttl \in Nat /\ MaxKey \in Nat \ {0}
  BY KeyBounds DEF KeysInv, ApiKeysTypeOK
<1>2. tenant' \in [key : Keys, active : BOOLEAN]
  <2>1. tenant \in [key : Keys, active : BOOLEAN]
    BY DEF KeysInv, ApiKeysTypeOK
  <2>2. admin[a] \in Commands
    BY DEF KeysInv, ApiKeysTypeOK, AdminUpdates
  <2>3. CASE admin[a] = "rotate"
    BY <1>1, <2>1, <2>3 DEF AdminUpdates, Updated, Keys
  <2>4. CASE admin[a] = "activate"
    BY <2>1, <2>4 DEF AdminUpdates, Updated
  <2>5. CASE admin[a] = "deactivate"
    BY <2>1, <2>5 DEF AdminUpdates, Updated
  <2>. QED
    BY <2>2, <2>3, <2>4, <2>5 DEF Commands
<1>3. /\ admin' \in [Admins -> Commands \cup {"nothing"}]
      /\ apiCache' = apiCache
  BY DEF AdminUpdates, KeysInv, ApiKeysTypeOK
<1>4. \A k \in Keys : unsettled'[k] = IF RowOf(tenant', k) # RowOf(tenant, k) THEN now ELSE unsettled[k]
  BY DEF AdminUpdates
<1>5. unsettled' \in [Keys -> Nat]
  BY <1>1 DEF AdminUpdates, KeysInv, ApiKeysTypeOK
<1>6. ApiKeysTypeOK'
  BY <1>1, <1>2, <1>3, <1>5 DEF KeysInv, ApiKeysTypeOK
<1>7. StaleEntriesExpire'
  BY <1>1, <1>3, <1>4 DEF KeysInv, StaleEntriesExpire
<1>. QED
  BY <1>3, <1>6, <1>7 DEF KeysInv

LEMMA ExpiryKeeps ==
  ASSUME KeysInv, Passes, EntriesExpire
  PROVE  KeysInv'
<1>1. now \in Nat /\ Ttl \in Nat /\ now' = now + 1 /\ UNCHANGED <<tenant, admin, unsettled>>
  BY KeyBounds DEF KeysInv, ApiKeysTypeOK, Passes, EntriesExpire
<1>2. ApiKeysTypeOK'
  BY <1>1 DEF EntriesExpire, KeysInv, ApiKeysTypeOK, NoEntry, Rows
<1>3. \A k \in Keys : \/ apiCache'[k] = apiCache[k] /\ now + 1 < apiCache[k].until
                      \/ apiCache'[k].row = "none" /\ apiCache'[k].until = 0
  BY <1>1 DEF EntriesExpire, NoEntry, KeysInv, ApiKeysTypeOK
<1>. QED
  BY <1>1, <1>2, <1>3 DEF KeysInv, ApiKeysTypeOK, StaleEntriesExpire

LEMMA KeysStep ==
  ASSUME KeysInv, [ApiKeysNext]_<<now, tenants>>
  PROVE  KeysInv'
<1>1. ASSUME NEW a \in Admins, AdminReads(a), UNCHANGED now
      PROVE  KeysInv'
  BY <1>1 DEF AdminReads, KeysInv, ApiKeysTypeOK, StaleEntriesExpire
<1>2. CASE UNCHANGED <<now, tenants>>
  BY <1>2 DEF tenants, KeysInv, ApiKeysTypeOK, StaleEntriesExpire
<1>. QED
  BY <1>1, <1>2, UpdateKeeps, StoreKeeps, ExpiryKeeps DEF ApiKeysNext

LEMMA KeysInductive == ApiKeysSpec => []KeysInv
<1>1. now = 0 /\ ApiKeysInit => KeysInv
  BY KeyBounds DEF ApiKeysInit, KeysInv, ApiKeysTypeOK, StaleEntriesExpire, NoEntry, Rows, Keys
<1>. QED
  BY <1>1, KeysStep, PTL DEF ApiKeysSpec

(* A cached row that a rotation or a deactivation made wrong is gone a      *)
(* lifetime later, whatever the calls have read (api-key.strategy.ts).      *)
THEOREM StaleEntriesGo == ApiKeysSpec => []StaleEntriesExpire
<1>1. KeysInv => StaleEntriesExpire
  BY DEF KeysInv
<1>. QED
  BY <1>1, KeysInductive, PTL

-----------------------------------------------------------------------------
(* The calls and the clients.                                               *)

ControlOK ==
  /\ cached \subseteq IdempotencyKeys /\ transfers \in [IdempotencyKeys -> {0, 1}]
  /\ call \in [Calls -> Call] /\ client \in [Clients -> Client]
  /\ sends \in 0 .. MaxSends /\ commands \in 0 .. MaxCommands
  /\ excused \subseteq IdempotencyKeys /\ doubted \subseteq Clients
  /\ \A c \in Calls : call[c].at # "idle" => call[c].from \in Clients

LEMMA IdleTyped == Idle \in Call /\ Ready \in Client /\ 1 \in Keys
BY KeyBounds, ClientBounds DEF Idle, Ready, Call, Client, Keys, Stations, Rows

LEMMA KeyTyped ==
  ASSUME ControlOK, NEW c \in Calls, call[c].at # "idle"
  PROVE  IdempotencyKey(c) \in IdempotencyKeys
BY DEF ControlOK, IdempotencyKey, IdempotencyKeys, Call

LEMMA TriesAgainTyped ==
  ASSUME ControlOK, NEW p \in Clients
  PROVE  TriesAgain(p) \in Client
<1>1. client[p] \in Client
  BY DEF ControlOK
<1>2. client[p].try # MaxTries => client[p].try + 1 \in 1 .. MaxTries
  BY <1>1, ClientBounds DEF Client
<1>. QED
  BY <1>1, <1>2, IdleTyped DEF TriesAgain, Client

LEMMA AnswerTyped ==
  ASSUME ControlOK, NEW c \in Calls, NEW answer, Answer(c, answer)
  PROVE  client' \in [Clients -> Client]
<1>1. ASSUME NEW p \in Clients
      PROVE  Told(p, answer) \in Client
  <2>1. client[p] \in Client
    BY DEF ControlOK
  <2>. QED
    BY <2>1, TriesAgainTyped DEF Told, Client
<1>. QED
  BY <1>1 DEF Answer, ControlOK

LEMMA EndsTyped ==
  ASSUME ControlOK, NEW c \in Calls, NEW answer, Ends(c, answer)
  PROVE  /\ call' \in [Calls -> Call] /\ client' \in [Clients -> Client]
         /\ \A d \in Calls : call'[d].at # "idle" => call'[d].from \in Clients
BY AnswerTyped, IdleTyped DEF Ends, ControlOK, Idle

LEMMA GoesTyped ==
  ASSUME ControlOK, NEW c \in Calls, NEW place \in Stations, Goes(c, place), call[c].at # "idle"
  PROVE  /\ call' \in [Calls -> Call]
         /\ \A d \in Calls : call'[d].at # "idle" => call'[d].from \in Clients
BY DEF Goes, ControlOK, Call

LEMMA SendTyped ==
  ASSUME ControlOK, NEW p \in Clients, NEW c \in Calls, Send(p, c)
  PROVE  ControlOK'
<1>1. client[p].try \in 1 .. MaxTries /\ KeyOf[p] \in Keys
  BY ClientsAssumption DEF ControlOK, Client
<1>2. call' \in [Calls -> Call] /\ \A d \in Calls : call'[d].at # "idle" => call'[d].from \in Clients
  <2>1. /\ call' = [d \in Calls |-> call'[d]]
        /\ \A d \in Calls : call'[d] = IF d = c THEN Sent(p)
                                       ELSE IF d \in SameKey(p) THEN [call[d] EXCEPT !.met = TRUE]
                                       ELSE call[d]
    BY DEF Send
  <2>3. \A d \in Calls : call'[d] \in Call /\ (call'[d].at # "idle" => call'[d].from \in Clients)
    <3>. SUFFICES ASSUME NEW d \in Calls
                  PROVE  call'[d] \in Call /\ (call'[d].at # "idle" => call'[d].from \in Clients)
      OBVIOUS
    <3>1. CASE d = c
      <4>1. Sent(p) \in Call /\ Sent(p).from = p
        BY <1>1 DEF Sent, Call, Stations, Rows
      <4>. QED
        BY <2>1, <3>1, <4>1
    <3>2. CASE d # c
      BY <2>1, <3>2 DEF ControlOK, Call
    <3>. QED
      BY <3>1, <3>2
  <2>. QED
    BY <2>1, <2>3
<1>3. client' \in [Clients -> Client]
  <2>1. client[p] \in Client
    BY DEF ControlOK
  <2>2. [client[p] EXCEPT !.at = "waiting", !.call = c] \in Client
    BY <2>1 DEF Client
  <2>3. client' = [client EXCEPT ![p] = [client[p] EXCEPT !.at = "waiting", !.call = c]]
    BY DEF Send, ControlOK
  <2>. QED
    BY <2>2, <2>3 DEF ControlOK
<1>4. sends' \in 0 .. MaxSends
  <2>1. sends < MaxSends /\ sends' = sends + 1 /\ sends \in Nat /\ MaxSends \in Nat
    BY ClientBounds DEF Send, ControlOK
  <2>. QED
    BY <2>1
<1>. QED
  BY <1>2, <1>3, <1>4 DEF Send, ControlOK

LEMMA GivesUpTyped ==
  ASSUME ControlOK, NEW p \in Clients, GivesUp(p)
  PROVE  ControlOK'
BY TriesAgainTyped DEF GivesUp, ControlOK, counters, LeavesInDoubt

LEMMA JudgedTyped ==
  ASSUME ControlOK, NEW c \in Calls, NEW row, Judged(c, row), call[c].at # "idle"
  PROVE  /\ call' \in [Calls -> Call] /\ client' \in [Clients -> Client]
         /\ \A d \in Calls : call'[d].at # "idle" => call'[d].from \in Clients
<1>1. CASE Authorized(c) /\ UNCHANGED client
  BY <1>1, IdleTyped DEF Authorized, ControlOK, Call, Stations, Rows
<1>2. CASE Ends(c, "unauthorized")
  BY <1>2, EndsTyped
<1>. QED
  BY <1>1, <1>2 DEF Judged

LEMMA ServeTyped ==
  ASSUME ControlOK, NEW c \in Calls, Serve(c)
  PROVE  ControlOK'
<1>1. CASE Middleware(c)
  BY <1>1, EndsTyped, GoesTyped DEF Middleware, ControlOK, counters, Stations
<1>2. CASE RateLimitGuard(c)
  BY <1>2, EndsTyped, GoesTyped DEF RateLimitGuard, ControlOK, counters, Stations
<1>3. CASE FindKey(c)
  <2>1. CASE Judged(c, apiCache[call[c].key].row)
    BY <1>3, <2>1, JudgedTyped DEF FindKey, ControlOK, counters
  <2>2. CASE /\ call' = [call EXCEPT ![c].at = "store", ![c].row = RowOf(tenant, call[c].key)]
             /\ UNCHANGED client
    <3>1. call[c] \in Call /\ RowOf(tenant, call[c].key) \in Rows
      BY RowTyped DEF ControlOK
    <3>2. [call[c] EXCEPT !.at = "store", !.row = RowOf(tenant, call[c].key)] \in Call
      BY <3>1 DEF Call, Stations
    <3>3. call' = [call EXCEPT ![c] = [call[c] EXCEPT !.at = "store", !.row = RowOf(tenant, call[c].key)]]
      BY <2>2 DEF ControlOK
    <3>4. call' \in [Calls -> Call] /\ \A d \in Calls : call'[d].at # "idle" => call'[d].from \in Clients
      BY <1>3, <3>2, <3>3 DEF FindKey, ControlOK
    <3>. QED
      BY <1>3, <2>2, <3>4 DEF FindKey, ControlOK, counters
  <2>. QED
    BY <1>3, <2>1, <2>2 DEF FindKey
<1>4. CASE StoreKey(c)
  BY <1>4, JudgedTyped DEF StoreKey, ControlOK, counters
<1>5. CASE Refuses(c)
  BY <1>5, EndsTyped DEF Refuses, ControlOK, counters
<1>6. CASE Creates(c)
  <2>1. transfers' \in [IdempotencyKeys -> {0, 1}]
    BY <1>6, KeyTyped DEF Creates, ControlOK
  <2>. QED
    BY <1>6, <2>1, AnswerTyped, GoesTyped DEF Creates, ControlOK, counters, Stations
<1>7. CASE CreatesUnknowingly(c)
  <2>1. transfers' \in [IdempotencyKeys -> {0, 1}]
    BY <1>7, KeyTyped DEF CreatesUnknowingly, ControlOK
  <2>2. excused' \subseteq IdempotencyKeys /\ doubted' \subseteq Clients
    BY <1>7, KeyTyped DEF CreatesUnknowingly, ControlOK, LeavesInDoubt, LeavesUncached
  <2>. QED
    BY <1>7, <2>1, <2>2, EndsTyped DEF CreatesUnknowingly, ControlOK, counters
<1>8. CASE Duplicate(c)
  BY <1>8, EndsTyped DEF Duplicate, ControlOK, counters
<1>9. CASE CacheAnswer(c) \/ CacheFails(c)
  <2>1. call[c].at = "cache" /\ call' = [call EXCEPT ![c] = Idle]
    BY <1>9 DEF CacheAnswer, CacheFails
  <2>2. call' \in [Calls -> Call] /\ \A d \in Calls : call'[d].at # "idle" => call'[d].from \in Clients
    BY <2>1, IdleTyped DEF ControlOK, Idle
  <2>3. cached' \subseteq IdempotencyKeys /\ excused' \subseteq IdempotencyKeys
    BY <1>9, <2>1, KeyTyped DEF CacheAnswer, CacheFails, LeavesUncached, ControlOK
  <2>. QED
    BY <1>9, <2>2, <2>3 DEF CacheAnswer, CacheFails, ControlOK, counters
<1>. QED
  BY <1>1, <1>2, <1>3, <1>4, <1>5, <1>6, <1>7, <1>8, <1>9 DEF Serve

LEMMA ControlStep ==
  ASSUME ControlOK, [Next]_vars
  PROVE  ControlOK'
<1>1. ASSUME NEW i \in IdempotencyKeys, AnswerExpires(i)
      PROVE  ControlOK'
  BY <1>1 DEF AnswerExpires, LeavesUncached, ControlOK, counters
<1>2. ASSUME NEW a \in Admins, Administer(a)
      PROVE  ControlOK'
  BY <1>2, ClientBounds DEF Administer, ControlOK
<1>3. CASE Tick
  BY <1>3 DEF Tick, ControlOK, counters
<1>4. CASE UNCHANGED vars
  BY <1>4 DEF vars, ControlOK, counters
<1>. QED
  BY <1>1, <1>2, <1>3, <1>4, SendTyped, GivesUpTyped, ServeTyped DEF Next

LEMMA ControlInductive == Spec => []ControlOK
<1>1. Init => ControlOK
  BY IdleTyped, ClientBounds DEF Init, ControlOK, Idle, IdempotencyKeys
<1>. QED
  BY <1>1, ControlStep, PTL DEF Spec

-----------------------------------------------------------------------------
(* What the calls do to the limiter and to the cache of keys are steps of   *)
(* the two protocols.                                                       *)

LEMMA KeyOfCall ==
  ASSUME ControlOK, NEW c \in Calls
  PROVE  call[c].key \in Keys /\ call[c].key \in Identities /\ call[c].row \in Rows
BY IdentitiesAssumption DEF ControlOK, Call

LEMMA LimiterStep ==
  ASSUME ControlOK, [Next]_vars
  PROVE  [RateLimitNext]_<<now, limits>>
<1>1. ASSUME NEW c \in Calls, RateLimitGuard(c)
      PROVE  [RateLimitNext]_<<now, limits>>
  BY <1>1, KeyOfCall DEF RateLimitGuard, RateLimitNext
<1>2. ASSUME NEW c \in Calls, Serve(c), ~RateLimitGuard(c)
      PROVE  UNCHANGED <<now, limits>>
  BY <1>2 DEF Serve, Middleware, FindKey, StoreKey, Refuses, Creates, CreatesUnknowingly,
              Duplicate, CacheAnswer, CacheFails
<1>3. CASE Tick
  BY <1>3 DEF Tick, RateLimitNext
<1>4. ASSUME \/ \E p \in Clients : GivesUp(p) \/ \E c \in Calls : Send(p, c)
             \/ \E i \in IdempotencyKeys : AnswerExpires(i)
             \/ \E a \in Admins : Administer(a)
             \/ UNCHANGED vars
      PROVE  UNCHANGED <<now, limits>>
  BY <1>4 DEF GivesUp, Send, AnswerExpires, Administer, vars
<1>. QED
  BY <1>1, <1>2, <1>3, <1>4 DEF Next

LEMMA KeyCacheStep ==
  ASSUME ControlOK, [Next]_vars
  PROVE  [ApiKeysNext]_<<now, tenants>>
<1>1. ASSUME NEW c \in Calls, StoreKey(c)
      PROVE  [ApiKeysNext]_<<now, tenants>>
  BY <1>1, KeyOfCall DEF StoreKey, ApiKeysNext
<1>2. ASSUME NEW c \in Calls, FindKey(c)
      PROVE  UNCHANGED <<now, tenants>>
  BY <1>2 DEF FindKey, UseCached, tenants
<1>3. ASSUME NEW c \in Calls, Serve(c), ~StoreKey(c), ~FindKey(c)
      PROVE  UNCHANGED <<now, tenants>>
  BY <1>3 DEF Serve, Middleware, RateLimitGuard, Refuses, Creates, CreatesUnknowingly,
              Duplicate, CacheAnswer, CacheFails
<1>4. CASE Tick
  BY <1>4 DEF Tick, ApiKeysNext
<1>5. ASSUME NEW a \in Admins, Administer(a)
      PROVE  [ApiKeysNext]_<<now, tenants>>
  BY <1>5 DEF Administer, ApiKeysNext
<1>6. ASSUME \/ \E p \in Clients : GivesUp(p) \/ \E c \in Calls : Send(p, c)
             \/ \E i \in IdempotencyKeys : AnswerExpires(i)
             \/ UNCHANGED vars
      PROVE  UNCHANGED <<now, tenants>>
  BY <1>6 DEF GivesUp, Send, AnswerExpires, vars
<1>. QED
  BY <1>1, <1>2, <1>3, <1>4, <1>5, <1>6 DEF Next

THEOREM Implements == Spec => RateLimitSpec /\ ApiKeysSpec
<1>1. Init => now = 0 /\ RateLimitInit /\ ApiKeysInit
  BY DEF Init
<1>2. ControlOK /\ [Next]_vars => [RateLimitNext]_<<now, limits>>
  BY LimiterStep
<1>3. ControlOK /\ [Next]_vars => [ApiKeysNext]_<<now, tenants>>
  BY KeyCacheStep
<1>. QED
  BY <1>1, <1>2, <1>3, ControlInductive, PTL DEF Spec, RateLimitSpec, ApiKeysSpec

THEOREM Typed == Spec => []TypeOK
<1>1. ControlOK /\ RateInv /\ KeysInv => TypeOK
  BY DEF ControlOK, RateInv, KeysInv, TypeOK
<1>. QED
  BY <1>1, ControlInductive, Implements, RateInductive, KeysInductive, PTL

THEOREM RequestsLimited == Spec => []RateHolds
BY Implements, LimitHolds, PTL

-----------------------------------------------------------------------------
(* What API keys are judged by.                                             *)

Early == {"middleware", "limit", "key", "store"}

(* A call has a key that the tenant has or had; so a row that is missing    *)
(* belongs to a key that was replaced.                                      *)
RowsInv ==
  /\ ControlOK /\ KeysInv
  /\ \A c \in Calls : call[c].at \in Early => call[c].key <= tenant.key
  /\ \A c \in Calls : call[c].at = "store" /\ call[c].row = "none" => call[c].key < tenant.key

LEMMA TenantGrows ==
  ASSUME KeysInv, [Next]_vars
  PROVE  tenant.key \in Nat /\ tenant'.key \in Nat /\ tenant.key <= tenant'.key
<1>1. tenant \in [key : Keys, active : BOOLEAN] /\ tenant.key \in Nat
  BY KeyBounds DEF KeysInv, ApiKeysTypeOK, Keys
<1>2. ASSUME NEW a \in Admins, AdminUpdates(a)
      PROVE  tenant'.key \in {tenant.key, tenant.key + 1}
  <2>1. admin[a] \in Commands
    BY <1>2 DEF AdminUpdates, KeysInv, ApiKeysTypeOK
  <2>2. tenant' = Updated(admin[a])
    BY <1>2 DEF AdminUpdates
  <2>3. CASE admin[a] = "rotate"
    BY <1>1, <2>2, <2>3 DEF Updated
  <2>4. CASE admin[a] = "activate"
    BY <1>1, <2>2, <2>4 DEF Updated
  <2>5. CASE admin[a] = "deactivate"
    BY <1>1, <2>2, <2>5 DEF Updated
  <2>. QED
    BY <2>1, <2>3, <2>4, <2>5 DEF Commands
<1>3. ASSUME NEW c \in Calls, Serve(c)
      PROVE  UNCHANGED tenant
  BY <1>3 DEF Serve, Middleware, RateLimitGuard, FindKey, StoreKey, StoreRow, Refuses, Creates,
              CreatesUnknowingly, Duplicate, CacheAnswer, CacheFails, tenants
<1>4. ASSUME NEW a \in Admins, AdminReads(a)
      PROVE  UNCHANGED tenant
  BY <1>4 DEF AdminReads
<1>5. ASSUME \/ \E p \in Clients : GivesUp(p) \/ \E c \in Calls : Send(p, c)
             \/ \E i \in IdempotencyKeys : AnswerExpires(i)
             \/ Tick \/ UNCHANGED vars
      PROVE  UNCHANGED tenant
  BY <1>5 DEF GivesUp, Send, AnswerExpires, Tick, EntriesExpire, vars, tenants
<1>. QED
  BY <1>1, <1>2, <1>3, <1>4, <1>5 DEF Next, Administer

(* What a step does to a call that has not come to the handler.             *)
LEMMA CallMoves ==
  ASSUME ControlOK, [Next]_vars, NEW c \in Calls
  PROVE  \/ UNCHANGED <<call[c].at, call[c].key, call[c].row>>
         \/ /\ call[c].at = "idle" /\ call'[c].at = "middleware"
            /\ call'[c].key <= tenant.key /\ UNCHANGED tenant
         \/ /\ call[c].at \in {"middleware", "limit"} /\ call'[c].at \in {"limit", "key"}
            /\ call'[c].key = call[c].key
         \/ FindKey(c) \/ StoreKey(c)
         \/ call[c].at \notin {"key", "store"} /\ call'[c].at \in {"idle", "cache"}
<1>1. ASSUME NEW p \in Clients, NEW d \in Calls, Send(p, d)
      PROVE  \/ UNCHANGED <<call[c].at, call[c].key, call[c].row>>
             \/ /\ call[c].at = "idle" /\ call'[c].at = "middleware"
                /\ call'[c].key <= tenant.key /\ UNCHANGED tenant
  <2>1. KeyOf[p] <= tenant.key /\ UNCHANGED tenant /\ call[d].at = "idle"
    BY <1>1 DEF Send, tenants
  <2>2. call'[c] = IF c = d THEN Sent(p)
                   ELSE IF c \in SameKey(p) THEN [call[c] EXCEPT !.met = TRUE] ELSE call[c]
    BY <1>1 DEF Send
  <2>. QED
    BY <2>1, <2>2 DEF Sent, ControlOK, Call
<1>2. ASSUME NEW d \in Calls, d # c, Serve(d)
      PROVE  call'[c] = call[c]
  BY <1>2 DEF Serve, Middleware, RateLimitGuard, FindKey, StoreKey, Judged, Authorized, Refuses, Creates,
              CreatesUnknowingly, Duplicate, CacheAnswer, CacheFails, Goes, Ends, ControlOK
<1>3. ASSUME Serve(c), ~FindKey(c), ~StoreKey(c)
      PROVE  \/ /\ call[c].at \in {"middleware", "limit"} /\ call'[c].at \in {"limit", "key"}
                /\ call'[c].key = call[c].key
             \/ call[c].at \notin {"key", "store"} /\ call'[c].at \in {"idle", "cache"}
  <2>1. call[c] \in Call /\ call \in [Calls -> Call] /\ Idle.at = "idle"
    BY DEF ControlOK, Idle
  <2>2. CASE Middleware(c)
    BY <2>1, <2>2 DEF Middleware, Goes, Ends, Call
  <2>3. CASE RateLimitGuard(c)
    BY <2>1, <2>3 DEF RateLimitGuard, Goes, Ends, Call
  <2>4. CASE Refuses(c) \/ Creates(c) \/ CreatesUnknowingly(c) \/ Duplicate(c)
    BY <2>1, <2>4 DEF Refuses, Creates, CreatesUnknowingly, Duplicate, Goes, Ends, Call
  <2>5. CASE CacheAnswer(c) \/ CacheFails(c)
    BY <2>1, <2>5 DEF CacheAnswer, CacheFails
  <2>. QED
    BY <1>3, <2>2, <2>3, <2>4, <2>5 DEF Serve
<1>4. ASSUME \/ \E p \in Clients : GivesUp(p)
             \/ \E i \in IdempotencyKeys : AnswerExpires(i)
             \/ \E a \in Admins : Administer(a)
             \/ Tick \/ UNCHANGED vars
      PROVE  call' = call
  BY <1>4 DEF GivesUp, AnswerExpires, Administer, Tick, vars
<1>. QED
  BY <1>1, <1>2, <1>3, <1>4 DEF Next

LEMMA RowFacts ==
  ASSUME KeysInv, NEW k \in Keys
  PROVE  /\ RowOf(tenant, k) = "none" <=> k # tenant.key
         /\ RowOf(tenant, k) \in Rows
BY DEF RowOf, Rows, KeysInv, ApiKeysTypeOK

LEMMA JudgedPlace ==
  ASSUME ControlOK, NEW c \in Calls, NEW row, Judged(c, row)
  PROVE  /\ call'[c].at \in {"handle", "idle"}
         /\ (call'[c].at = "handle") = (row = "active")
<1>1. call[c] \in Call /\ call \in [Calls -> Call] /\ Idle.at = "idle"
  BY DEF ControlOK, Idle
<1>. QED
  BY <1>1 DEF Judged, Authorized, Ends, Call

LEMMA RowsStep ==
  ASSUME RowsInv, [Next]_vars
  PROVE  RowsInv'
<1>1. ControlOK' /\ KeysInv'
  BY ControlStep, KeyCacheStep, KeysStep DEF RowsInv
<1>2. tenant.key \in Nat /\ tenant'.key \in Nat /\ tenant.key <= tenant'.key
  BY TenantGrows DEF RowsInv
<1>3. ASSUME NEW c \in Calls, call'[c].at \in Early
      PROVE  /\ call'[c].key <= tenant'.key
             /\ call'[c].at = "store" /\ call'[c].row = "none" => call'[c].key < tenant'.key
  <2>1. call[c] \in Call /\ call'[c] \in Call /\ call[c].key \in Nat /\ call'[c].key \in Nat
    BY <1>1, KeyBounds DEF RowsInv, ControlOK, Call, Keys
  <2>2. CASE UNCHANGED <<call[c].at, call[c].key, call[c].row>>
    BY <1>2, <1>3, <2>1, <2>2 DEF RowsInv
  <2>3. CASE /\ call[c].at = "idle" /\ call'[c].at = "middleware"
             /\ call'[c].key <= tenant.key /\ UNCHANGED tenant
    BY <2>3
  <2>4. CASE /\ call[c].at \in {"middleware", "limit"} /\ call'[c].at \in {"limit", "key"}
             /\ call'[c].key = call[c].key
    BY <1>2, <2>1, <2>4 DEF RowsInv, Early
  <2>5. CASE FindKey(c)
    <3>1. UNCHANGED tenant /\ call[c].at = "key" /\ call[c].key \in Keys /\ call[c].key <= tenant.key
      BY <2>5, KeyOfCall DEF FindKey, RowsInv, Early
    <3>2. call' = [call EXCEPT ![c].at = "store", ![c].row = RowOf(tenant, call[c].key)]
      BY <1>3, <2>5, JudgedPlace DEF FindKey, Early, RowsInv
    <3>3. call'[c].key = call[c].key /\ call'[c].row = RowOf(tenant, call[c].key)
      BY <2>1, <3>2 DEF RowsInv, ControlOK, Call
    <3>. QED
      BY <1>2, <2>1, <3>1, <3>3, RowFacts DEF RowsInv
  <2>6. CASE StoreKey(c)
    BY <1>3, <2>6, JudgedPlace DEF StoreKey, Early, RowsInv
  <2>. QED
    BY <1>3, <2>2, <2>3, <2>4, <2>5, <2>6, CallMoves DEF Early, RowsInv
<1>. QED
  BY <1>1, <1>3 DEF RowsInv, Early

LEMMA RowsInductive == Spec => []RowsInv
<1>1. Init => RowsInv
  <2>1. Init => ControlOK
    BY IdleTyped, ClientBounds DEF Init, ControlOK, Idle, IdempotencyKeys
  <2>2. Init => KeysInv
    BY KeyBounds DEF Init, ApiKeysInit, KeysInv, ApiKeysTypeOK, StaleEntriesExpire, NoEntry, Rows, Keys
  <2>3. Init => \A c \in Calls : call[c].at = "idle"
    BY DEF Init, Idle
  <2>. QED
    BY <2>1, <2>2, <2>3 DEF RowsInv, Early
<1>. QED
  BY <1>1, RowsStep, PTL DEF Spec

(* A call is accepted or refused by a row that is no older than a lifetime  *)
(* of the cache, unless a call stored an older one (api-key.strategy.ts).   *)
THEOREM KeyJudged == Spec => KeyJudgedByRecentRow
<1>1. ASSUME RowsInv, [Next]_vars, NEW c \in Calls,
             call[c].at \in {"key", "store"}, call'[c].at \in {"handle", "idle"}
      PROVE  \/ (call'[c].at = "handle") = (RowOf(tenant, call[c].key) = "active")
             \/ now < unsettled'[call[c].key] + Ttl
  <2>1. FindKey(c) \/ StoreKey(c)
    BY <1>1, CallMoves DEF RowsInv
  <2>2. /\ call[c].key \in Keys /\ call[c].row \in Rows /\ call[c] \in Call
        /\ call \in [Calls -> Call] /\ Idle.at = "idle"
    BY KeyOfCall, <1>1 DEF RowsInv, ControlOK, Idle
  <2>3. now \in Nat /\ Ttl \in Nat \ {0}
    BY <1>1, KeyBounds DEF RowsInv, KeysInv, ApiKeysTypeOK
  <2>4. ASSUME NEW row, Judged(c, row)
        PROVE  (call'[c].at = "handle") = (row = "active")
    BY <1>1, <2>4, JudgedPlace DEF RowsInv
  <2>5. CASE FindKey(c)
    <3>1. CASE Judged(c, apiCache[call[c].key].row) /\ apiCache[call[c].key].row # "none"
      <4>1. unsettled' = unsettled
        BY <2>5 DEF FindKey
      <4>2. CASE apiCache[call[c].key].row = RowOf(tenant, call[c].key)
        BY <2>4, <3>1, <4>2
      <4>3. CASE apiCache[call[c].key].row # RowOf(tenant, call[c].key)
        <5>1. /\ apiCache[call[c].key].until <= unsettled[call[c].key] + Ttl
              /\ now < apiCache[call[c].key].until
          BY <1>1, <2>2, <3>1, <4>3 DEF RowsInv, KeysInv, StaleEntriesExpire
        <5>2. unsettled[call[c].key] \in Nat /\ apiCache[call[c].key].until \in Nat
          BY <1>1, <2>2 DEF RowsInv, KeysInv, ApiKeysTypeOK
        <5>. QED
          BY <2>3, <4>1, <5>1, <5>2
      <4>. QED
        BY <4>2, <4>3
    <3>2. CASE call' = [call EXCEPT ![c].at = "store", ![c].row = RowOf(tenant, call[c].key)]
      BY <1>1, <2>2, <3>2 DEF Call
    <3>. QED
      BY <2>5, <3>1, <3>2 DEF FindKey
  <2>6. CASE StoreKey(c)
    <3>1. call[c].at = "store" /\ StoreRow(call[c].key, call[c].row) /\ Judged(c, call[c].row)
      BY <2>6 DEF StoreKey
    <3>2. CASE call[c].row = RowOf(tenant, call[c].key)
      BY <2>4, <3>1, <3>2
    <3>3. CASE call[c].row # RowOf(tenant, call[c].key) /\ call[c].row # "none"
      BY <1>1, <2>2, <2>3, <3>1, <3>3 DEF StoreRow, RowsInv, KeysInv, ApiKeysTypeOK
    <3>4. CASE call[c].row = "none"
      <4>1. call[c].key < tenant.key /\ call[c].key \in Nat /\ tenant.key \in Nat
        BY <1>1, <2>2, <3>1, <3>4, KeyBounds DEF RowsInv, KeysInv, ApiKeysTypeOK, Keys
      <4>2. RowOf(tenant, call[c].key) = "none"
        BY <1>1, <2>2, <4>1, RowFacts DEF RowsInv
      <4>. QED
        BY <2>4, <3>1, <3>4, <4>2
    <3>. QED
      BY <3>2, <3>3, <3>4
  <2>. QED
    BY <2>1, <2>5, <2>6
<1>2. RowsInv /\ [Next]_vars =>
        [\A c \in Calls :
           LET k == call[c].key
               accepted == call'[c].at = "handle"
           IN call[c].at \in {"key", "store"} /\ call'[c].at \in {"handle", "idle"}
                => accepted = (RowOf(tenant, k) = "active") \/ now < unsettled'[k] + Ttl]_vars
  BY <1>1
<1>. QED
  BY <1>2, RowsInductive, PTL DEF Spec, KeyJudgedByRecentRow

-----------------------------------------------------------------------------
(* Answers and transfers.                                                   *)

Served == {"middleware", "limit", "key", "store", "handle"}

Proceeds(c) ==
  /\ call[c].at \in Early /\ call'[c].at \in Served \ {"middleware"}
  /\ UNCHANGED <<call[c].from, call[c].try, call[c].met>>
  /\ \A d \in Calls : d # c => call'[d] = call[d]
  /\ call[c].at = "middleware" => IdempotencyKey(c) \notin cached
  /\ UNCHANGED <<client, cached, transfers, excused, doubted>>

Leaves(c, answer) ==
  /\ call[c].at \in Served
  /\ Ends(c, answer)
  /\ answer = "created" => IdempotencyKey(c) \in cached
  /\ UNCHANGED <<cached, transfers, excused, doubted>>

LEMMA ServeEffects ==
  ASSUME ControlOK, NEW c \in Calls, Serve(c)
  PROVE  \/ Proceeds(c) \/ (\E answer : Leaves(c, answer))
         \/ Creates(c) \/ CreatesUnknowingly(c) \/ CacheAnswer(c) \/ CacheFails(c)
<1>1. call[c] \in Call /\ call \in [Calls -> Call]
  BY DEF ControlOK
<1>2. ASSUME NEW place \in Served \ {"middleware"}, Goes(c, place)
      PROVE  /\ call'[c].at = place /\ UNCHANGED <<call[c].from, call[c].try, call[c].met>>
             /\ \A d \in Calls : d # c => call'[d] = call[d]
  BY <1>1, <1>2 DEF Goes, Call
<1>3. ASSUME NEW row, Judged(c, row)
      PROVE  \/ /\ call'[c].at = "handle" /\ UNCHANGED <<call[c].from, call[c].try, call[c].met>>
                /\ \A d \in Calls : d # c => call'[d] = call[d]
                /\ UNCHANGED client
             \/ Ends(c, "unauthorized")
  BY <1>1, <1>3 DEF Judged, Authorized, Call
<1>4. CASE Middleware(c)
  BY <1>2, <1>4 DEF Middleware, Proceeds, Leaves, Served, Early
<1>5. CASE RateLimitGuard(c)
  BY <1>2, <1>5 DEF RateLimitGuard, Proceeds, Leaves, Served, Early
<1>6. CASE FindKey(c)
  <2>1. CASE Judged(c, apiCache[call[c].key].row)
    BY <1>3, <1>6, <2>1 DEF FindKey, Proceeds, Leaves, Served, Early
  <2>2. CASE call' = [call EXCEPT ![c].at = "store", ![c].row = RowOf(tenant, call[c].key)] /\ UNCHANGED client
    BY <1>1, <1>6, <2>2 DEF FindKey, Proceeds, Served, Early, Call
  <2>. QED
    BY <1>6, <2>1, <2>2 DEF FindKey
<1>7. CASE StoreKey(c)
  BY <1>3, <1>7 DEF StoreKey, Proceeds, Leaves, Served, Early
<1>8. CASE Refuses(c) \/ Duplicate(c)
  BY <1>8 DEF Refuses, Duplicate, Leaves, Served
<1>. QED
  BY <1>4, <1>5, <1>6, <1>7, <1>8 DEF Serve

KeyedTransfers ==
  /\ \A i \in IdempotencyKeys : transfers[i] > 0 =>
       \/ i \in cached \cup excused
       \/ \E c \in Calls : call[c].at = "cache" /\ IdempotencyKey(c) = i
  /\ \A i \in cached : transfers[i] = 1
  /\ \A c \in Calls : call[c].at = "cache" => transfers[IdempotencyKey(c)] = 1
  /\ \A c, d \in Calls : c # d /\ call[c].at # "idle" /\ call[d].at # "idle"
                           /\ IdempotencyKey(c) = IdempotencyKey(d) => call[c].met
  /\ \A c \in Calls : call[c].at \in Served \ {"middleware"} /\ transfers[IdempotencyKey(c)] > 0
                         => call[c].met \/ IdempotencyKey(c) \in excused

KeyedInv == ControlOK /\ KeyedTransfers

LEMMA IdleFacts == Idle.at = "idle" /\ "idle" \notin Served /\ "cache" \notin Served
BY DEF Idle, Served

LEMMA ProceedsKeyed ==
  ASSUME KeyedInv, NEW c \in Calls, Proceeds(c)
  PROVE  KeyedTransfers'
<1>1. \A d \in Calls : /\ IdempotencyKey(d)' = IdempotencyKey(d)
                       /\ call'[d].met = call[d].met
                       /\ call'[d].at = "idle" <=> call[d].at = "idle"
                       /\ call'[d].at = "cache" <=> call[d].at = "cache"
                       /\ d # c => call'[d].at = call[d].at
  BY DEF Proceeds, IdempotencyKey, Served, Early
<1>2. UNCHANGED <<cached, transfers, excused>>
  BY DEF Proceeds
<1>3. call[c].at = "middleware" /\ transfers[IdempotencyKey(c)] > 0
        => call[c].met \/ IdempotencyKey(c) \in excused
  <2>1. SUFFICES ASSUME call[c].at = "middleware", transfers[IdempotencyKey(c)] > 0,
                        IdempotencyKey(c) \notin excused
                 PROVE  call[c].met
    OBVIOUS
  <2>2. IdempotencyKey(c) \in IdempotencyKeys /\ IdempotencyKey(c) \notin cached
    BY <2>1, KeyTyped DEF KeyedInv, Proceeds
  <2>3. PICK d \in Calls : call[d].at = "cache" /\ IdempotencyKey(d) = IdempotencyKey(c)
    BY <2>1, <2>2 DEF KeyedInv, KeyedTransfers
  <2>. QED
    BY <2>1, <2>3 DEF KeyedInv, KeyedTransfers
<1>4. \A d \in Calls : call'[d].at \in Served \ {"middleware"} /\ transfers[IdempotencyKey(d)] > 0
                         => call'[d].met \/ IdempotencyKey(d) \in excused
  <2>. SUFFICES ASSUME NEW d \in Calls, call'[d].at \in Served \ {"middleware"},
                       transfers[IdempotencyKey(d)] > 0
                PROVE  call'[d].met \/ IdempotencyKey(d) \in excused
    OBVIOUS
  <2>1. CASE d = c
    BY <1>1, <1>3, <2>1 DEF KeyedInv, KeyedTransfers, Proceeds, Early, Served
  <2>2. CASE d # c
    <3>1. call[d].at \in Served \ {"middleware"} /\ call'[d].met = call[d].met
      BY <1>1, <2>2
    <3>. QED
      BY <3>1 DEF KeyedInv, KeyedTransfers
  <2>. QED
    BY <2>1, <2>2
<1>5. \A d, e \in Calls : d # e /\ call'[d].at # "idle" /\ call'[e].at # "idle"
                           /\ IdempotencyKey(d)' = IdempotencyKey(e)' => call'[d].met
  <2>. SUFFICES ASSUME NEW d \in Calls, NEW e \in Calls, d # e, call'[d].at # "idle", call'[e].at # "idle",
                       IdempotencyKey(d)' = IdempotencyKey(e)'
                PROVE  call'[d].met
    OBVIOUS
  <2>1. /\ call[d].at # "idle" /\ call[e].at # "idle" /\ call'[d].met = call[d].met
        /\ IdempotencyKey(d) = IdempotencyKey(e)
    BY <1>1
  <2>. QED
    BY <2>1 DEF KeyedInv, KeyedTransfers
<1>6. ASSUME NEW i \in IdempotencyKeys, transfers[i] > 0, i \notin cached \cup excused
      PROVE  \E d \in Calls : call'[d].at = "cache" /\ IdempotencyKey(d)' = i
  <2>1. PICK d \in Calls : call[d].at = "cache" /\ IdempotencyKey(d) = i
    BY <1>6 DEF KeyedInv, KeyedTransfers
  <2>. QED
    BY <1>1, <2>1
<1>7. \A d \in Calls : call'[d].at = "cache" => transfers[IdempotencyKey(d)] = 1
  <2>. SUFFICES ASSUME NEW d \in Calls, call'[d].at = "cache"
                PROVE  transfers[IdempotencyKey(d)] = 1
    OBVIOUS
  <2>1. call[d].at = "cache"
    BY <1>1
  <2>. QED
    BY <2>1 DEF KeyedInv, KeyedTransfers
<1>8. \A d \in Calls : IdempotencyKey(d)' = IdempotencyKey(d)
  BY <1>1
<1>9. \A i \in cached : transfers[i] = 1
  BY DEF KeyedInv, KeyedTransfers
<1>. QED
  BY <1>2, <1>4, <1>5, <1>6, <1>7, <1>8, <1>9 DEF KeyedTransfers

(* A call that ends takes nothing with it but its place.                    *)
LEMMA EndsKeyed ==
  ASSUME KeyedInv, NEW c \in Calls, call[c].at # "cache" \/ IdempotencyKey(c) \in cached' \cup excused',
         call' = [call EXCEPT ![c] = Idle],
         cached \subseteq cached', excused \subseteq excused', UNCHANGED transfers,
         \A i \in cached' : transfers[i] = 1
  PROVE  KeyedTransfers'
<1>1. \A d \in Calls : d # c => call'[d] = call[d] /\ IdempotencyKey(d)' = IdempotencyKey(d)
  BY DEF IdempotencyKey, KeyedInv, ControlOK
<1>2. call'[c].at = "idle"
  BY IdleFacts DEF KeyedInv, ControlOK
<1>3. ASSUME NEW i \in IdempotencyKeys, transfers[i] > 0, i \notin cached' \cup excused'
      PROVE  \E d \in Calls : call'[d].at = "cache" /\ IdempotencyKey(d)' = i
  <2>1. PICK d \in Calls : call[d].at = "cache" /\ IdempotencyKey(d) = i
    BY <1>3 DEF KeyedInv, KeyedTransfers
  <2>. QED
    BY <1>1, <1>3, <2>1
<1>. QED
  BY <1>1, <1>2, <1>3, IdleFacts DEF KeyedInv, KeyedTransfers

(* A call that makes a transfer is the first of its key.                    *)
LEMMA MakesKeyed ==
  ASSUME KeyedInv, NEW c \in Calls, call[c].at = "handle", transfers[IdempotencyKey(c)] = 0,
         transfers' = [transfers EXCEPT ![IdempotencyKey(c)] = 1],
         UNCHANGED cached, excused \subseteq excused',
         \/ Goes(c, "cache")
         \/ call' = [call EXCEPT ![c] = Idle] /\ IdempotencyKey(c) \in excused'
  PROVE  KeyedTransfers'
<1>1. \A d \in Calls : d # c => call'[d] = call[d] /\ IdempotencyKey(d)' = IdempotencyKey(d)
  BY DEF IdempotencyKey, KeyedInv, ControlOK, Goes
<1>2. \/ call'[c].at = "cache" /\ IdempotencyKey(c)' = IdempotencyKey(c) /\ call'[c].met = call[c].met
      \/ call'[c].at = "idle" /\ IdempotencyKey(c) \in excused'
  BY IdleFacts DEF IdempotencyKey, KeyedInv, ControlOK, Goes, Call
<1>3. /\ IdempotencyKey(c) \in IdempotencyKeys
      /\ \A i \in IdempotencyKeys : transfers'[i] = IF i = IdempotencyKey(c) THEN 1 ELSE transfers[i]
      /\ \A d \in Calls : call[d].at # "idle" => IdempotencyKey(d) \in IdempotencyKeys
      /\ cached \subseteq IdempotencyKeys
  BY KeyTyped DEF KeyedInv, ControlOK
<1>4. \A i \in IdempotencyKeys : transfers'[i] > 0 =>
        \/ i \in cached' \cup excused'
        \/ \E d \in Calls : call'[d].at = "cache" /\ IdempotencyKey(d)' = i
  <2>. SUFFICES ASSUME NEW i \in IdempotencyKeys, transfers'[i] > 0, i \notin cached' \cup excused'
                PROVE  \E d \in Calls : call'[d].at = "cache" /\ IdempotencyKey(d)' = i
    OBVIOUS
  <2>1. CASE i = IdempotencyKey(c)
    BY <1>2, <2>1
  <2>2. CASE i # IdempotencyKey(c)
    <3>1. transfers[i] > 0 /\ i \notin cached \cup excused
      BY <1>3, <2>2
    <3>2. PICK d \in Calls : call[d].at = "cache" /\ IdempotencyKey(d) = i
      BY <3>1 DEF KeyedInv, KeyedTransfers
    <3>. QED
      BY <1>1, <3>2
  <2>. QED
    BY <2>1, <2>2
<1>5. \A i \in cached' : transfers'[i] = 1
  BY <1>3 DEF KeyedInv, KeyedTransfers
<1>6. \A d \in Calls : call'[d].at = "cache" => transfers'[IdempotencyKey(d)'] = 1
  BY <1>1, <1>2, <1>3 DEF KeyedInv, KeyedTransfers
<1>7. \A d, e \in Calls : d # e /\ call'[d].at # "idle" /\ call'[e].at # "idle"
                           /\ IdempotencyKey(d)' = IdempotencyKey(e)' => call'[d].met
  BY <1>1, <1>2 DEF KeyedInv, KeyedTransfers
<1>8. \A d \in Calls : call'[d].at \in Served \ {"middleware"} /\ transfers'[IdempotencyKey(d)'] > 0
                         => call'[d].met \/ IdempotencyKey(d)' \in excused'
  <2>. SUFFICES ASSUME NEW d \in Calls, call'[d].at \in Served \ {"middleware"},
                       transfers'[IdempotencyKey(d)'] > 0
                PROVE  call'[d].met \/ IdempotencyKey(d)' \in excused'
    OBVIOUS
  <2>1. d # c /\ call'[d] = call[d] /\ IdempotencyKey(d)' = IdempotencyKey(d) /\ call[d].at # "idle"
    BY <1>1, <1>2, IdleFacts
  <2>2. CASE IdempotencyKey(d) = IdempotencyKey(c)
    BY <2>1, <2>2 DEF KeyedInv, KeyedTransfers
  <2>3. CASE IdempotencyKey(d) # IdempotencyKey(c)
    BY <1>3, <2>1, <2>3 DEF KeyedInv, KeyedTransfers
  <2>. QED
    BY <2>2, <2>3
<1>. QED
  BY <1>4, <1>5, <1>6, <1>7, <1>8 DEF KeyedTransfers

LEMMA SendKeyed ==
  ASSUME KeyedInv, NEW p \in Clients, NEW c \in Calls, Send(p, c)
  PROVE  KeyedTransfers'
<1>1. /\ call[c].at = "idle" /\ call'[c] = Sent(p)
      /\ UNCHANGED <<cached, transfers, excused>>
  BY DEF Send
<1>2. \A d \in Calls : d # c =>
        /\ call'[d].at = call[d].at
        /\ IdempotencyKey(d)' = IdempotencyKey(d)
        /\ call'[d].met = (call[d].met \/ d \in SameKey(p))
  <2>. SUFFICES ASSUME NEW d \in Calls, d # c
                PROVE  /\ call'[d].at = call[d].at
                       /\ IdempotencyKey(d)' = IdempotencyKey(d)
                       /\ call'[d].met = (call[d].met \/ d \in SameKey(p))
    OBVIOUS
  <2>1. /\ call'[d] = IF d \in SameKey(p) THEN [call[d] EXCEPT !.met = TRUE] ELSE call[d]
        /\ call[d] \in Call
    BY DEF Send, KeyedInv, ControlOK
  <2>. QED
    BY <2>1 DEF IdempotencyKey, Call
<1>3. /\ call'[c].at = "middleware" /\ IdempotencyKey(c)' = <<p, client[p].try>>
      /\ call'[c].met = (SameKey(p) # {})
  BY <1>1 DEF Sent, IdempotencyKey
<1>4. \A d \in Calls : IdempotencyKey(d) = <<p, client[p].try>> <=> d \in SameKey(p)
  BY DEF IdempotencyKey, SameKey
<1>5. ASSUME NEW i \in IdempotencyKeys, transfers[i] > 0, i \notin cached \cup excused
      PROVE  \E d \in Calls : call'[d].at = "cache" /\ IdempotencyKey(d)' = i
  <2>1. PICK d \in Calls : call[d].at = "cache" /\ IdempotencyKey(d) = i
    BY <1>5 DEF KeyedInv, KeyedTransfers
  <2>. QED
    BY <1>1, <1>2, <2>1
<1>6. \A i \in cached : transfers[i] = 1
  BY DEF KeyedInv, KeyedTransfers
<1>7. \A d \in Calls : call'[d].at = "cache" => transfers[IdempotencyKey(d)'] = 1
  BY <1>2, <1>3 DEF KeyedInv, KeyedTransfers
<1>8. \A d, e \in Calls : d # e /\ call'[d].at # "idle" /\ call'[e].at # "idle"
        /\ IdempotencyKey(d)' = IdempotencyKey(e)' => call'[d].met
  <2>. SUFFICES ASSUME NEW d \in Calls, NEW e \in Calls, d # e, call'[d].at # "idle", call'[e].at # "idle",
                       IdempotencyKey(d)' = IdempotencyKey(e)'
                PROVE  call'[d].met
    OBVIOUS
  <2>1. CASE d = c
    BY <1>2, <1>3, <1>4, <2>1
  <2>2. CASE e = c
    BY <1>2, <1>3, <1>4, <2>2
  <2>3. CASE d # c /\ e # c
    <3>1. /\ call[d].at # "idle" /\ call[e].at # "idle" /\ IdempotencyKey(d) = IdempotencyKey(e)
          /\ call[d].met => call'[d].met
      BY <1>2, <2>3
    <3>. QED
      BY <3>1 DEF KeyedInv, KeyedTransfers
  <2>. QED
    BY <2>1, <2>2, <2>3
<1>9. \A d \in Calls : call'[d].at \in Served \ {"middleware"} /\ transfers[IdempotencyKey(d)'] > 0
        => call'[d].met \/ IdempotencyKey(d)' \in excused
  <2>. SUFFICES ASSUME NEW d \in Calls, call'[d].at \in Served \ {"middleware"}, transfers[IdempotencyKey(d)'] > 0
                PROVE  call'[d].met \/ IdempotencyKey(d)' \in excused
    OBVIOUS
  <2>1. d # c
    BY <1>3
  <2>2. /\ call[d].at \in Served \ {"middleware"} /\ IdempotencyKey(d)' = IdempotencyKey(d)
        /\ call[d].met => call'[d].met
    BY <1>2, <2>1
  <2>. QED
    BY <2>2 DEF KeyedInv, KeyedTransfers
<1>. QED
  BY <1>1, <1>5, <1>6, <1>7, <1>8, <1>9 DEF KeyedTransfers

LEMMA KeyedStep ==
  ASSUME KeyedInv, [Next]_vars
  PROVE  KeyedInv'
<1>1. ControlOK'
  BY ControlStep DEF KeyedInv
<1>2. \A i \in cached : transfers[i] = 1
  BY DEF KeyedInv, KeyedTransfers
<1>3. ASSUME NEW c \in Calls, Serve(c)
      PROVE  KeyedTransfers'
  <2>1. CASE Proceeds(c)
    BY <2>1, ProceedsKeyed
  <2>2. ASSUME NEW answer, Leaves(c, answer)
        PROVE  KeyedTransfers'
    <3>1. /\ call[c].at # "cache" /\ call' = [call EXCEPT ![c] = Idle]
          /\ cached' = cached /\ excused' = excused /\ transfers' = transfers
      BY <2>2, IdleFacts DEF Leaves, Ends
    <3>. QED
      BY <1>2, <3>1, EndsKeyed
  <2>3. CASE Creates(c)
    <3>1. /\ call[c].at = "handle" /\ transfers[IdempotencyKey(c)] = 0
          /\ transfers' = [transfers EXCEPT ![IdempotencyKey(c)] = 1]
          /\ cached' = cached /\ excused' = excused /\ Goes(c, "cache")
      BY <2>3 DEF Creates
    <3>. QED
      BY <3>1, MakesKeyed
  <2>4. CASE CreatesUnknowingly(c)
    <3>1. /\ call[c].at = "handle" /\ transfers[IdempotencyKey(c)] = 0
          /\ transfers' = [transfers EXCEPT ![IdempotencyKey(c)] = 1]
          /\ cached' = cached /\ excused \subseteq excused'
          /\ call' = [call EXCEPT ![c] = Idle] /\ IdempotencyKey(c) \in excused'
      BY <2>4 DEF CreatesUnknowingly, LeavesUncached, Ends
    <3>. QED
      BY <3>1, MakesKeyed
  <2>5. CASE CacheAnswer(c)
    <3>1. /\ cached' = cached \cup {IdempotencyKey(c)} /\ excused' = excused /\ transfers' = transfers
          /\ call' = [call EXCEPT ![c] = Idle] /\ call[c].at = "cache"
      BY <2>5 DEF CacheAnswer
    <3>2. transfers[IdempotencyKey(c)] = 1
      BY <3>1 DEF KeyedInv, KeyedTransfers
    <3>. QED
      BY <1>2, <3>1, <3>2, EndsKeyed
  <2>6. CASE CacheFails(c)
    <3>1. /\ cached' = cached /\ excused' = excused \cup {IdempotencyKey(c)} /\ transfers' = transfers
          /\ call' = [call EXCEPT ![c] = Idle]
      BY <2>6 DEF CacheFails, LeavesUncached
    <3>. QED
      BY <1>2, <3>1, EndsKeyed
  <2>. QED
    BY <1>3, <2>1, <2>2, <2>3, <2>4, <2>5, <2>6, ServeEffects DEF KeyedInv
<1>4. ASSUME NEW i \in IdempotencyKeys, AnswerExpires(i)
      PROVE  KeyedTransfers'
  <2>1. /\ cached' = cached \ {i} /\ excused' = excused \cup {i}
        /\ UNCHANGED <<transfers, call>>
    BY <1>4 DEF AnswerExpires, LeavesUncached
  <2>. QED
    BY <2>1 DEF KeyedInv, KeyedTransfers, IdempotencyKey
<1>5. ASSUME \/ \E p \in Clients : GivesUp(p)
             \/ \E a \in Admins : Administer(a)
             \/ Tick \/ UNCHANGED vars
      PROVE  KeyedTransfers'
  <2>1. UNCHANGED <<cached, excused, transfers, call>>
    BY <1>5 DEF GivesUp, Administer, Tick, vars
  <2>. QED
    BY <2>1 DEF KeyedInv, KeyedTransfers, IdempotencyKey
<1>. QED
  BY <1>1, <1>3, <1>4, <1>5, SendKeyed DEF Next, KeyedInv

LEMMA KeyedInductive == Spec => []KeyedInv
<1>1. Init => KeyedInv
  <2>1. Init => ControlOK
    BY IdleTyped, ClientBounds DEF Init, ControlOK, Idle, IdempotencyKeys
  <2>2. Init => /\ cached = {} /\ \A i \in IdempotencyKeys : transfers[i] = 0
                /\ \A c \in Calls : call[c].at = "idle"
    BY DEF Init, Idle
  <2>. QED
    BY <2>1, <2>2, IdleFacts DEF KeyedInv, KeyedTransfers
<1>. QED
  BY <1>1, KeyedStep, PTL DEF Spec

(* Only a call that another one of its key overlaps, or whose answer did    *)
(* not stay cached, is told it is a duplicate (indempotency.middleware.ts). *)
THEOREM DuplicatesExplained == Spec => []DuplicateIsExplained
<1>1. KeyedInv => DuplicateIsExplained
  BY DEF KeyedInv, KeyedTransfers, DuplicateIsExplained, Served
<1>. QED
  BY <1>1, KeyedInductive, PTL

-----------------------------------------------------------------------------
(* What the clients know.                                                   *)

(* A client waits for a call of its own; one without doubts waits for each  *)
(* of its calls, and has transfers only if it is done.                      *)
ClientsKnow ==
  /\ \A p \in Clients : client[p].at = "done" => transfers[<<p, client[p].try>>] = 1
  /\ \A p \in Clients : client[p].at = "waiting" =>
       /\ client[p].call \in Calls /\ call[client[p].call].at \in Served
       /\ IdempotencyKey(client[p].call) = <<p, client[p].try>>
  /\ \A p \in Clients \ doubted, t \in 1 .. MaxTries :
       transfers[<<p, t>>] > 0 => client[p].at = "done" /\ client[p].try = t
  /\ \A c \in Calls : call[c].at \in Served /\ call[c].from \notin doubted => call[c].from \in Waiting(c)
  /\ \A p \in Clients \ Forms : client[p].try = 1
  /\ \A c \in Calls : call[c].at # "idle" /\ call[c].from \notin Forms => call[c].try = 1
  /\ \A p \in Clients \ Forms, t \in 1 .. MaxTries : transfers[<<p, t>>] > 0 => t = 1

ClientsInv == KeyedInv /\ ClientsKnow

LEMMA TriesAgainFacts ==
  ASSUME ControlOK, NEW p \in Clients
  PROVE  /\ TriesAgain(p).at \in {"ready", "gone"}
         /\ p \notin Forms => TriesAgain(p).try = client[p].try
BY DEF TriesAgain, Ready, ControlOK, Client

LEMMA ToldFacts ==
  ASSUME ControlOK, NEW p \in Clients, NEW answer
  PROVE  /\ IF answer = "created" THEN Told(p, answer).at = "done" /\ Told(p, answer).try = client[p].try
                                  ELSE Told(p, answer).at \in {"ready", "gone"}
         /\ p \notin Forms => Told(p, answer).try = client[p].try
<1>1. client[p] \in Client
  BY DEF ControlOK
<1>. QED
  BY <1>1, TriesAgainFacts DEF Told, Client

(* A call that answers tells who waits for it, and nobody else.             *)
LEMMA AnsweredKnows ==
  ASSUME ClientsInv, NEW c \in Calls, call[c].at \in Served, NEW answer, Answer(c, answer),
         call' = [call EXCEPT ![c] = Idle] \/ Goes(c, "cache"),
         UNCHANGED transfers
           \/ /\ transfers' = [transfers EXCEPT ![IdempotencyKey(c)] = 1]
              /\ answer = "created" \/ call[c].from \in doubted',
         answer = "created" => transfers'[IdempotencyKey(c)] = 1,
         doubted \subseteq doubted'
  PROVE  ClientsKnow'
<1>1. /\ ControlOK
      /\ call[c].from \in Clients /\ call[c].try \in 1 .. MaxTries
      /\ IdempotencyKey(c) = <<call[c].from, call[c].try>>
      /\ IdempotencyKey(c) \in IdempotencyKeys
  BY KeyTyped, IdleFacts DEF ClientsInv, KeyedInv, ControlOK, Call, IdempotencyKey
<1>2. \A d \in Calls : d # c => call'[d] = call[d] /\ IdempotencyKey(d)' = IdempotencyKey(d)
  BY <1>1 DEF ControlOK, Goes, IdempotencyKey
<1>3. /\ call'[c].at \notin Served
      /\ call'[c].at # "idle" => call'[c].from = call[c].from /\ call'[c].try = call[c].try
  BY <1>1, IdleFacts DEF ControlOK, Goes, Call
<1>4. \A p \in Clients : client'[p] = IF p \in Waiting(c) THEN Told(p, answer) ELSE client[p]
  BY DEF Answer
<1>5. \A p \in Clients, t \in 1 .. MaxTries :
        /\ transfers[<<p, t>>] \in {0, 1}
        /\ transfers'[<<p, t>>] = transfers[<<p, t>>]
             \/ /\ <<p, t>> = IdempotencyKey(c) /\ transfers'[<<p, t>>] = 1
                /\ answer = "created" \/ p \in doubted'
  BY <1>1 DEF ControlOK, IdempotencyKeys
<1>6. \A p \in Clients : client[p].try \in 1 .. MaxTries
  BY <1>1 DEF ControlOK, Client
<1>7. \A p \in Waiting(c) : client[p].at = "waiting" /\ IdempotencyKey(c) = <<p, client[p].try>>
  BY DEF Waiting, ClientsInv, ClientsKnow
<1>8. ASSUME NEW p \in Clients, client'[p].at = "done"
      PROVE  transfers'[<<p, client'[p].try>>] = 1
  <2>1. CASE p \in Waiting(c)
    BY <1>1, <1>4, <1>7, <1>8, <2>1, ToldFacts
  <2>2. CASE p \notin Waiting(c)
    <3>1. client'[p] = client[p] /\ transfers[<<p, client[p].try>>] = 1
      BY <1>4, <1>8, <2>2 DEF ClientsInv, ClientsKnow
    <3>. QED
      BY <1>5, <1>6, <3>1
  <2>. QED
    BY <2>1, <2>2
<1>9. ASSUME NEW p \in Clients, client'[p].at = "waiting"
      PROVE  /\ client'[p].call \in Calls /\ call'[client'[p].call].at \in Served
             /\ <<call'[client'[p].call].from, call'[client'[p].call].try>> = <<p, client'[p].try>>
  <2>1. p \notin Waiting(c) /\ client'[p] = client[p]
    BY <1>1, <1>4, <1>9, ToldFacts
  <2>2. /\ client[p].call \in Calls /\ call[client[p].call].at \in Served
        /\ IdempotencyKey(client[p].call) = <<p, client[p].try>> /\ client[p].call # c
    BY <1>9, <2>1 DEF Waiting, ClientsInv, ClientsKnow
  <2>. QED
    BY <1>2, <2>1, <2>2 DEF IdempotencyKey
<1>10. ASSUME NEW p \in Clients \ doubted', NEW t \in 1 .. MaxTries, transfers'[<<p, t>>] > 0
       PROVE  client'[p].at = "done" /\ client'[p].try = t
  <2>1. CASE transfers[<<p, t>>] > 0
    <3>1. client[p].at = "done" /\ client[p].try = t
      BY <2>1 DEF ClientsInv, ClientsKnow
    <3>. QED
      BY <1>4, <1>7, <3>1
  <2>2. CASE ~(transfers[<<p, t>>] > 0)
    <3>1. <<p, t>> = IdempotencyKey(c) /\ answer = "created"
      BY <1>5, <1>10, <2>2
    <3>2. p \in Waiting(c)
      BY <1>1, <3>1 DEF ClientsInv, ClientsKnow
    <3>. QED
      BY <1>1, <1>4, <1>7, <3>1, <3>2, ToldFacts
  <2>. QED
    BY <2>1, <2>2
<1>11. ASSUME NEW d \in Calls, call'[d].at \in Served, call'[d].from \notin doubted'
       PROVE  client'[call'[d].from].at = "waiting" /\ client'[call'[d].from].call = d /\ call'[d].from \in Clients
  <2>1. d # c /\ call'[d] = call[d]
    BY <1>2, <1>3, <1>11
  <2>2. call[d].from \in Waiting(d)
    BY <1>11, <2>1 DEF ClientsInv, ClientsKnow
  <2>. QED
    BY <1>4, <2>1, <2>2 DEF Waiting
<1>12. \A p \in Clients \ Forms : client'[p].try = 1
  BY <1>1, <1>4, ToldFacts DEF ClientsInv, ClientsKnow
<1>13. \A d \in Calls : call'[d].at # "idle" /\ call'[d].from \notin Forms => call'[d].try = 1
  BY <1>2, <1>3, IdleFacts DEF ClientsInv, ClientsKnow
<1>14. ASSUME NEW p \in Clients \ Forms, NEW t \in 1 .. MaxTries, transfers'[<<p, t>>] > 0
       PROVE  t = 1
  <2>1. CASE transfers[<<p, t>>] > 0
    BY <2>1 DEF ClientsInv, ClientsKnow
  <2>2. CASE <<p, t>> = IdempotencyKey(c)
    BY <1>1, <2>2, IdleFacts DEF ClientsInv, ClientsKnow
  <2>. QED
    BY <1>5, <1>14, <2>1, <2>2
<1>. QED
  BY <1>8, <1>9, <1>10, <1>11, <1>12, <1>13, <1>14 DEF ClientsKnow, Waiting, IdempotencyKey

(* Steps that tell nobody anything.                                         *)
LEMMA SilentKnows ==
  ASSUME ClientsInv, UNCHANGED <<client, transfers, doubted>>,
         \A c \in Calls : /\ call'[c].at \in Served <=> call[c].at \in Served
                          /\ call'[c].at # "idle" =>
                               /\ call[c].at # "idle"
                               /\ call'[c].from = call[c].from /\ call'[c].try = call[c].try
  PROVE  ClientsKnow'
<1>1. ASSUME NEW p \in Clients, client[p].at = "waiting"
      PROVE  /\ client[p].call \in Calls /\ call'[client[p].call].at \in Served
             /\ <<call'[client[p].call].from, call'[client[p].call].try>> = <<p, client[p].try>>
  <2>1. /\ client[p].call \in Calls /\ call[client[p].call].at \in Served
        /\ <<call[client[p].call].from, call[client[p].call].try>> = <<p, client[p].try>>
    BY <1>1 DEF ClientsInv, ClientsKnow, IdempotencyKey
  <2>2. call'[client[p].call].at \in Served /\ call'[client[p].call].at # "idle"
    BY <2>1, IdleFacts
  <2>. QED
    BY <2>1, <2>2
<1>2. ASSUME NEW c \in Calls, call'[c].at \in Served, call'[c].from \notin doubted
      PROVE  call'[c].from \in Waiting(c)
  <2>1. call[c].at \in Served /\ call'[c].from = call[c].from
    BY <1>2, IdleFacts
  <2>. QED
    BY <1>2, <2>1 DEF ClientsInv, ClientsKnow
<1>3. \A c \in Calls : call'[c].at # "idle" /\ call'[c].from \notin Forms => call'[c].try = 1
  BY DEF ClientsInv, ClientsKnow
<1>4. /\ \A p \in Clients : client[p].at = "done" => transfers[<<p, client[p].try>>] = 1
      /\ \A p \in Clients \ doubted, t \in 1 .. MaxTries :
           transfers[<<p, t>>] > 0 => client[p].at = "done" /\ client[p].try = t
      /\ \A p \in Clients \ Forms : client[p].try = 1
      /\ \A p \in Clients \ Forms, t \in 1 .. MaxTries : transfers[<<p, t>>] > 0 => t = 1
  BY DEF ClientsInv, ClientsKnow
<1>. QED
  BY <1>1, <1>2, <1>3, <1>4 DEF ClientsKnow, Waiting, IdempotencyKey

LEMMA GivesUpKnows ==
  ASSUME ClientsInv, NEW p \in Clients, GivesUp(p)
  PROVE  ClientsKnow'
<1>1. /\ client'[p] = TriesAgain(p) /\ \A q \in Clients : q # p => client'[q] = client[q]
      /\ doubted' = doubted \cup {p} /\ UNCHANGED <<transfers, call>> /\ client[p].at = "waiting"
  BY DEF GivesUp, LeavesInDoubt, ClientsInv, KeyedInv, ControlOK
<1>2. client'[p].at \in {"ready", "gone"} /\ (p \notin Forms => client'[p].try = client[p].try)
  BY <1>1, TriesAgainFacts DEF ClientsInv, KeyedInv
<1>3. ASSUME NEW c \in Calls, call[c].at \in Served, call[c].from \notin doubted'
      PROVE  client'[call[c].from].at = "waiting" /\ client'[call[c].from].call = c /\ call[c].from \in Clients
  <2>1. call[c].from \in Waiting(c) /\ call[c].from # p
    BY <1>1, <1>3 DEF ClientsInv, ClientsKnow
  <2>. QED
    BY <1>1, <2>1 DEF Waiting
<1>4. \A q \in Clients : client'[q].at = "done" => q # p
  BY <1>2
<1>5. \A q \in Clients : client'[q].at = "waiting" => q # p
  BY <1>2
<1>. QED
  BY <1>1, <1>2, <1>3, <1>4, <1>5 DEF ClientsInv, ClientsKnow, Waiting, IdempotencyKey

LEMMA SendKnows ==
  ASSUME ClientsInv, NEW p \in Clients, NEW c \in Calls, Send(p, c)
  PROVE  ClientsKnow'
<1>1. /\ client[p].at = "ready" /\ call[c].at = "idle" /\ call'[c] = Sent(p)
      /\ \A d \in Calls : d # c =>
           call'[d] = IF d \in SameKey(p) THEN [call[d] EXCEPT !.met = TRUE] ELSE call[d]
      /\ UNCHANGED <<transfers, doubted>>
  BY DEF Send
<1>2. /\ client'[p].at = "waiting" /\ client'[p].call = c /\ client'[p].try = client[p].try
      /\ \A q \in Clients : q # p => client'[q] = client[q]
  BY DEF Send, ClientsInv, KeyedInv, ControlOK, Client
<1>3. \A d \in Calls : d # c => /\ call'[d].at = call[d].at /\ call'[d].from = call[d].from
                                /\ call'[d].try = call[d].try
  BY <1>1 DEF ClientsInv, KeyedInv, ControlOK, Call
<1>4. /\ call'[c].at = "middleware" /\ call'[c].from = p /\ call'[c].try = client[p].try
  BY <1>1 DEF Sent
<1>5. ASSUME NEW q \in Clients, client'[q].at = "waiting"
      PROVE  /\ client'[q].call \in Calls /\ call'[client'[q].call].at \in Served
             /\ <<call'[client'[q].call].from, call'[client'[q].call].try>> = <<q, client'[q].try>>
  <2>1. CASE q = p
    BY <1>2, <1>4, <2>1 DEF Served
  <2>2. CASE q # p
    <3>1. /\ client'[q] = client[q] /\ client[q].call \in Calls /\ call[client[q].call].at \in Served
          /\ <<call[client[q].call].from, call[client[q].call].try>> = <<q, client[q].try>>
      BY <1>2, <1>5, <2>2 DEF ClientsInv, ClientsKnow, IdempotencyKey
    <3>2. client[q].call # c
      BY <1>1, <3>1, IdleFacts
    <3>. QED
      BY <1>3, <3>1, <3>2
  <2>. QED
    BY <2>1, <2>2
<1>6. ASSUME NEW d \in Calls, call'[d].at \in Served, call'[d].from \notin doubted
      PROVE  client'[call'[d].from].at = "waiting" /\ client'[call'[d].from].call = d /\ call'[d].from \in Clients
  <2>1. CASE d = c
    BY <1>2, <1>4, <2>1
  <2>2. CASE d # c
    <3>1. call[d].from \in Waiting(d) /\ call'[d].from = call[d].from
      BY <1>3, <1>6, <2>2 DEF ClientsInv, ClientsKnow
    <3>2. call[d].from # p
      BY <1>1, <3>1 DEF Waiting
    <3>. QED
      BY <1>2, <3>1, <3>2 DEF Waiting
  <2>. QED
    BY <2>1, <2>2
<1>7. ASSUME NEW d \in Calls, call'[d].at # "idle", call'[d].from \notin Forms
      PROVE  call'[d].try = 1
  <2>1. CASE d = c
    BY <1>4, <1>7, <2>1 DEF ClientsInv, ClientsKnow
  <2>2. CASE d # c
    BY <1>3, <1>7, <2>2 DEF ClientsInv, ClientsKnow
  <2>. QED
    BY <2>1, <2>2
<1>8. /\ \A q \in Clients : client'[q].at = "done" => transfers[<<q, client'[q].try>>] = 1
      /\ \A q \in Clients \ Forms : client'[q].try = 1
      /\ \A q \in Clients \ Forms, t \in 1 .. MaxTries : transfers[<<q, t>>] > 0 => t = 1
  BY <1>2 DEF ClientsInv, ClientsKnow
<1>9. \A q \in Clients \ doubted, t \in 1 .. MaxTries :
        transfers[<<q, t>>] > 0 => client'[q].at = "done" /\ client'[q].try = t
  BY <1>1, <1>2 DEF ClientsInv, ClientsKnow
<1>. QED
  BY <1>1, <1>5, <1>6, <1>7, <1>8, <1>9 DEF ClientsKnow, Waiting, IdempotencyKey

LEMMA ClientsStep ==
  ASSUME ClientsInv, [Next]_vars
  PROVE  ClientsInv'
<1>1. KeyedInv'
  BY KeyedStep DEF ClientsInv
<1>2. ASSUME NEW c \in Calls, Serve(c)
      PROVE  ClientsKnow'
  <2>1. CASE Proceeds(c)
    <3>1. /\ UNCHANGED <<client, transfers, doubted>>
          /\ \A d \in Calls : /\ call'[d].at \in Served <=> call[d].at \in Served
                              /\ call'[d].at # "idle" =>
                                   /\ call[d].at # "idle"
                                   /\ call'[d].from = call[d].from /\ call'[d].try = call[d].try
      BY <2>1 DEF Proceeds, Early, Served
    <3>. QED
      BY <3>1, SilentKnows
  <2>2. ASSUME NEW answer, Leaves(c, answer)
        PROVE  ClientsKnow'
    <3>1. answer = "created" => transfers[IdempotencyKey(c)] = 1
      BY <2>2 DEF Leaves, ClientsInv, KeyedInv, KeyedTransfers
    <3>. QED
      BY <2>2, <3>1, AnsweredKnows DEF Leaves, Ends
  <2>3. CASE Creates(c) \/ CreatesUnknowingly(c)
    <3>1. /\ call[c].at \in Served /\ IdempotencyKey(c) \in IdempotencyKeys
          /\ transfers' = [transfers EXCEPT ![IdempotencyKey(c)] = 1]
      BY <2>3, KeyTyped DEF Creates, CreatesUnknowingly, Served, ClientsInv, KeyedInv
    <3>2. transfers'[IdempotencyKey(c)] = 1
      BY <3>1 DEF ClientsInv, KeyedInv, ControlOK
    <3>3. CASE Creates(c)
      BY <3>1, <3>2, <3>3, AnsweredKnows DEF Creates
    <3>4. CASE CreatesUnknowingly(c)
      BY <3>1, <3>2, <3>4, AnsweredKnows DEF CreatesUnknowingly, Ends, LeavesInDoubt
    <3>. QED
      BY <2>3, <3>3, <3>4
  <2>4. CASE CacheAnswer(c) \/ CacheFails(c)
    <3>1. /\ UNCHANGED <<client, transfers, doubted>> /\ call[c].at = "cache"
          /\ call' = [call EXCEPT ![c] = Idle]
      BY <2>4 DEF CacheAnswer, CacheFails
    <3>2. \A d \in Calls : /\ call'[d].at \in Served <=> call[d].at \in Served
                           /\ call'[d].at # "idle" =>
                                /\ call[d].at # "idle"
                                /\ call'[d].from = call[d].from /\ call'[d].try = call[d].try
      BY <3>1, IdleFacts DEF ClientsInv, KeyedInv, ControlOK
    <3>. QED
      BY <3>1, <3>2, SilentKnows
  <2>. QED
    BY <1>2, <2>1, <2>2, <2>3, <2>4, ServeEffects DEF ClientsInv, KeyedInv
<1>3. ASSUME \/ \E i \in IdempotencyKeys : AnswerExpires(i)
             \/ \E a \in Admins : Administer(a)
             \/ Tick \/ UNCHANGED vars
      PROVE  ClientsKnow'
  <2>1. UNCHANGED <<client, transfers, doubted, call>>
    BY <1>3 DEF AnswerExpires, Administer, Tick, vars
  <2>. QED
    BY <2>1, SilentKnows
<1>. QED
  BY <1>1, <1>2, <1>3, SendKnows, GivesUpKnows DEF Next, ClientsInv

LEMMA ClientsInductive == Spec => []ClientsInv
<1>1. Init => ClientsInv
  <2>1. Init => KeyedInv
    <3>1. Init => ControlOK
      BY IdleTyped, ClientBounds DEF Init, ControlOK, Idle, IdempotencyKeys
    <3>2. Init => /\ cached = {} /\ \A i \in IdempotencyKeys : transfers[i] = 0
                  /\ \A c \in Calls : call[c].at = "idle"
      BY DEF Init, Idle
    <3>. QED
      BY <3>1, <3>2, IdleFacts DEF KeyedInv, KeyedTransfers
  <2>2. Init => /\ \A p \in Clients : client[p] = Ready
                /\ \A i \in IdempotencyKeys : transfers[i] = 0
                /\ \A c \in Calls : call[c].at = "idle"
    BY DEF Init, Idle
  <2>3. Ready.at = "ready" /\ Ready.try = 1
    BY DEF Ready
  <2>4. \A p \in Clients, t \in 1 .. MaxTries : <<p, t>> \in IdempotencyKeys
    BY DEF IdempotencyKeys
  <2>. QED
    BY <2>1, <2>2, <2>3, <2>4, IdleFacts DEF ClientsInv, ClientsKnow
<1>. QED
  BY <1>1, ClientsStep, PTL DEF Spec

(* A client that was told that its transfer exists was told the truth.      *)
THEOREM ToldTruly == Spec => []ToldTheTruth
<1>1. ClientsInv => ToldTheTruth
  BY DEF ClientsInv, ClientsKnow, ToldTheTruth
<1>. QED
  BY <1>1, ClientsInductive, PTL

(* Only a form that did not learn what became of a call makes more than one *)
(* transfer (initiate-transfer-form.tsx:109).                               *)
THEOREM OneTransfer == Spec => []OneTransferMeant
<1>1. ASSUME ClientsInv, NEW p \in Clients, p \notin Forms \cap doubted
      PROVE  ~(Cardinality(TransfersOf(p)) > 1)
  <2>0. \A i \in TransfersOf(p) : i[2] \in 1 .. MaxTries /\ i = <<p, i[2]>> /\ transfers[<<p, i[2]>>] > 0
    BY DEF TransfersOf, IdempotencyKeys
  <2>1. \E t : TransfersOf(p) \subseteq {<<p, t>>}
    <3>1. CASE p \in doubted
      <4>1. \A i \in TransfersOf(p) : i[2] = 1
        BY <1>1, <2>0, <3>1 DEF ClientsInv, ClientsKnow
      <4>. QED
        BY <2>0, <4>1
    <3>2. CASE p \notin doubted
      <4>1. \A i \in TransfersOf(p) : i[2] = client[p].try
        BY <1>1, <2>0, <3>2 DEF ClientsInv, ClientsKnow
      <4>. QED
        BY <2>0, <4>1
    <3>. QED
      BY <3>1, <3>2
  <2>2. PICK t : TransfersOf(p) \subseteq {<<p, t>>}
    BY <2>1
  <2>3. IsFiniteSet({<<p, t>>}) /\ Cardinality({<<p, t>>}) = 1
    BY FS_Singleton
  <2>4. Cardinality(TransfersOf(p)) <= 1 /\ Cardinality(TransfersOf(p)) \in Nat
    BY <2>2, <2>3, FS_Subset, FS_CardinalityType
  <2>. QED
    BY <2>4
<1>2. ClientsInv => OneTransferMeant
  BY <1>1 DEF OneTransferMeant
<1>. QED
  BY <1>2, ClientsInductive, PTL
=============================================================================
