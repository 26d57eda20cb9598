------------------------------ MODULE ApiKeys -------------------------------
(***************************************************************************)
(* API keys: their handlers (internal/api/apikeys.go), rows                *)
(* (internal/store/apikeys.go) and the verifier in front of every request  *)
(* that carries one (internal/authn/apikey.go), which caches what it read  *)
(* for a while.  Key 0 is a string no row has.                             *)
(***************************************************************************)
EXTENDS Authz, Entitlements

CONSTANTS
  Nothing,           \* no cache entry, no request
  KeyOrg, KeyPlan,   \* the org of the keys and its plan
  KeyActors,         \* principals that manage keys
  Verifiers,         \* requests with a key that are verified at once
  MaxKeys            \* bound: keys ever created

ASSUME KeysAssumption == Nothing \notin {"ok", "revoked"}

VARIABLES
  keys,              \* api_keys: id -> [role, revoked]
  kcache,            \* key -> cached descriptor: Nothing, "ok" or "revoked"
  probe,             \* verifier -> the verification it is in the middle of
  busting            \* the revoked key whose cache entry is still to be dropped

keyVars == <<keys, kcache, probe, busting>>

KeysInit ==
  /\ keys = << >> /\ kcache = [k \in 0..MaxKeys |-> Nothing]
  /\ probe = [v \in Verifiers |-> Nothing] /\ busting = Nothing

MayManageKeys(p) == CanInOrg(p, "manage_api_keys")

\* No owner keys, and none at all on a plan without the API.
CreateAPIKey(p, role) ==
  /\ Len(keys) < MaxKeys
  /\ keys' = IF MayManageKeys(p) /\ APIAccessAllowed(KeyPlan) /\ role \in {"member", "admin"}
             THEN Append(keys, [role |-> role, revoked |-> FALSE]) ELSE keys
  /\ UNCHANGED <<kcache, probe, busting>>

\* The row first, then the cache.
RevokeAPIKey(p, k) ==
  /\ busting = Nothing
  /\ IF MayManageKeys(p) /\ p.org = KeyOrg
     THEN keys' = [keys EXCEPT ![k].revoked = TRUE] /\ busting' = k
     ELSE UNCHANGED <<keys, busting>>
  /\ UNCHANGED <<kcache, probe>>

\* Best effort: the entry stays if the delete fails.
InvalidateAPIKey ==
  /\ busting # Nothing
  /\ \E ok \in BOOLEAN : kcache' = IF ok THEN [kcache EXCEPT ![busting] = Nothing] ELSE kcache
  /\ busting' = Nothing
  /\ UNCHANGED <<keys, probe>>

-----------------------------------------------------------------------------
(* Verify: a cached descriptor decides, else the row, which is then cached. *)

Verify(v, k) ==
  /\ probe[v] = Nothing
  /\ probe' = IF kcache[k] = Nothing THEN [probe EXCEPT ![v] = [key |-> k, found |-> Nothing]] ELSE probe
  /\ UNCHANGED <<keys, kcache, busting>>

\* Mutant: the row's revoked_at is not looked at.
anyRow(k) == IF k \in DOMAIN keys THEN "ok" ELSE "revoked"
descriptor(k) == IF k \in DOMAIN keys /\ ~ keys[k].revoked THEN "ok" ELSE "revoked"
GetAPIKeyByHash(v) ==
  /\ probe[v] # Nothing /\ probe[v].found = Nothing
  /\ probe' = [probe EXCEPT ![v].found = descriptor(probe[v].key)]
  /\ UNCHANGED <<keys, kcache, busting>>

\* SetCache with a time to live; a failure is ignored.
cacheDescriptor(v) ==
  /\ probe[v] # Nothing /\ probe[v].found # Nothing
  /\ \E ok \in BOOLEAN :
       kcache' = IF ok THEN [kcache EXCEPT ![probe[v].key] = probe[v].found] ELSE kcache
  /\ probe' = [probe EXCEPT ![v] = Nothing]
  /\ UNCHANGED <<keys, busting>>

KeyExpires(k) ==
  /\ kcache[k] # Nothing
  /\ kcache' = [kcache EXCEPT ![k] = Nothing]
  /\ UNCHANGED <<keys, probe, busting>>

KeyNext ==
  \/ \E p \in KeyActors, role \in Roles : CreateAPIKey(p, role)
  \/ \E p \in KeyActors, k \in DOMAIN keys : RevokeAPIKey(p, k)
  \/ InvalidateAPIKey
  \/ \E v \in Verifiers :
       \/ \E k \in DOMAIN keys \cup {0} : Verify(v, k)
       \/ GetAPIKeyByHash(v) \/ cacheDescriptor(v)
  \/ \E k \in DOMAIN kcache : KeyExpires(k)

\* A request with key k would be let in, now or when the verification that is
\* under way ends.
Admits(k) ==
  \/ kcache[k] = "ok"
  \/ \E v \in Verifiers : probe[v] # Nothing /\ probe[v].key = k /\ probe[v].found = "ok"

\* Redis drops expired descriptors, and a verification under way ends.
KeysFair ==
  /\ \A k \in 0..MaxKeys : WF_keyVars(KeyExpires(k))
  /\ \A v \in Verifiers : WF_keyVars(GetAPIKeyByHash(v) \/ cacheDescriptor(v))

\* Once a revoked key is refused it is refused for good: neither the row nor a
\* verification that was under way, nor a cached descriptor, lets it in again
\* (Verify, cacheDescriptor, RevokeAPIKey).
RefusedForGood ==
  [][\A k \in DOMAIN keys :
       keys[k].revoked /\ ~ Admits(k) => keys'[k].revoked /\ ~ Admits(k)']_keyVars

\* A revoked key is refused for good after a while, not, as RevokeAPIKey's
\* comment says, by the next request: a verification that read the row before
\* the revocation may cache it as good after the revocation dropped the entry,
\* or the delete fails.  The entry's time to live bounds both.
RevocationTakesHold ==
  \A k \in 1..MaxKeys : (k \in DOMAIN keys /\ keys[k].revoked) ~> []~ Admits(k)
=============================================================================
