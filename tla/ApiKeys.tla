------------------------------ MODULE ApiKeys ------------------------------
(* TenantService and ApiKeyStrategy: a tenant whose API key is rotated and  *)
(* that is switched on and off, and the rows of it that are cached.         *)
EXTENDS RequestClock

CONSTANTS
  MaxKey,     \* bound on the keys a tenant has one after the other
  Ttl,        \* how long a row stays cached
  Admins      \* the calls of administrators served at one time

ASSUME KeyBounds == MaxKey \in Nat \ {0} /\ Ttl \in Nat \ {0}

VARIABLES
  tenant,     \* its row: the number of its key, and whether it is active
  admin,      \* what each administrator's call is about to write
  apiCache,   \* the cached row for each key, with the time it expires
  unsettled   \* history: when the row for a key changed, or an old one was cached

tenants == <<tenant, admin, apiCache, unsettled>>

Keys      == 1 .. MaxKey
Rows      == {"none", "active", "inactive"}
NoEntry   == [row |-> "none", until |-> 0]
Commands  == {"rotate", "activate", "deactivate"}

ApiKeysInit ==
  /\ tenant \in [key : {1}, active : BOOLEAN]
  /\ admin = [a \in Admins |-> "nothing"]
  /\ apiCache = [k \in Keys |-> NoEntry]
  /\ unsettled = [k \in Keys |-> 0]

(* findByApiKeyHash                                                         *)
RowOf(t, k) ==
  CASE k # t.key            -> "none"
    [] k = t.key /\ t.active -> "active"
    [] OTHER                -> "inactive"

-----------------------------------------------------------------------------
(* rotateTenantApiKey, toggleTenantActivation and softDeleteSingleTenant    *)
(* read the tenant, then update it whatever has become of it.               *)

AdminReads(a) ==
  /\ admin[a] = "nothing"
  /\ \E command \in Commands :
       /\ command \in {"rotate", "deactivate"} <=> tenant.active
       /\ admin' = [admin EXCEPT ![a] = command]
  /\ UNCHANGED <<tenant, apiCache, unsettled>>

Updated(command) ==
  CASE command = "rotate"     -> [tenant EXCEPT !.key = @ + 1]
    [] command = "activate"   -> [tenant EXCEPT !.active = TRUE]
    [] command = "deactivate" -> [tenant EXCEPT !.active = FALSE]

AdminUpdates(a) ==
  /\ admin[a] # "nothing"
  /\ admin[a] = "rotate" => tenant.key < MaxKey
  /\ tenant' = Updated(admin[a])
  /\ unsettled' = [k \in Keys |-> IF RowOf(tenant', k) # RowOf(tenant, k) THEN now ELSE unsettled[k]]
  /\ admin' = [admin EXCEPT ![a] = "nothing"]
  /\ UNCHANGED apiCache

-----------------------------------------------------------------------------
(* validate: a call looks its key up in the cache, then in the table, and   *)
(* caches the row it found, if it found one.                                *)

(* Faulty variant of UseCached: the entry lives on as long as it is used.   *)
UseCachedLonger(k) == apiCache' = [apiCache EXCEPT ![k].until = now + Ttl]

UseCached(k) == UNCHANGED apiCache

StoreRow(k, row) ==
  /\ IF row = "none"
     THEN UNCHANGED <<apiCache, unsettled>>
     ELSE /\ apiCache' = [apiCache EXCEPT ![k] = [row |-> row, until |-> now + Ttl]]
          /\ unsettled' = IF row = RowOf(tenant, k) THEN unsettled
                          ELSE [unsettled EXCEPT ![k] = now]
  /\ UNCHANGED <<tenant, admin>>

(* A tick later: the entries whose time is over are gone.                   *)
EntriesExpire ==
  /\ apiCache' = [k \in Keys |-> IF apiCache[k].until <= now + 1 THEN NoEntry ELSE apiCache[k]]
  /\ UNCHANGED <<tenant, admin, unsettled>>

(* A call may have read its row at any time before it stores it.            *)
ApiKeysNext ==
  \/ Passes /\ EntriesExpire
  \/ /\ \/ \E a \in Admins : AdminReads(a) \/ AdminUpdates(a)
        \/ \E k \in Keys, row \in Rows : StoreRow(k, row)
     /\ UNCHANGED now

ApiKeysSpec == now = 0 /\ ApiKeysInit /\ [][ApiKeysNext]_<<now, tenants>>

-----------------------------------------------------------------------------
ApiKeysTypeOK ==
  /\ now \in Nat
  /\ tenant \in [key : Keys, active : BOOLEAN]
  /\ admin \in [Admins -> Commands \cup {"nothing"}]
  /\ apiCache \in [Keys -> [row : Rows, until : Nat]]
  /\ unsettled \in [Keys -> Nat]

(* An entry that contradicts the table is gone a lifetime after the change, *)
(* or after a call stored a row that it had read before the change          *)
(* (api-key.strategy.ts:34).                                                *)
StaleEntriesExpire ==
  \A k \in Keys : apiCache[k].row \notin {"none", RowOf(tenant, k)}
                    => apiCache[k].until <= unsettled[k] + Ttl
=============================================================================
