------------------------------ MODULE JwksCache -----------------------------
(***************************************************************************)
(* The key cache of the token validator: concurrent calls of lookupKey     *)
(* against an identity provider that rotates its signing keys.             *)
(*                                                                         *)
(* The provider's key set has a version; version v holds the keys v and    *)
(* v + 1, so that a new key is published before the old one goes.          *)
(***************************************************************************)
EXTENDS Naturals

CONSTANTS
    Lookups,         \* calls of lookupKey
    CacheTtl,        \* life of the cache (10 minutes)
    FetchTime,     \* timeout of the HTTP client
    MaxVersion, MaxKeyTime   \* bounds

Versions == 0 .. MaxVersion
Kids == 0 .. MaxVersion + 1
KeysOf(v) == {v, v + 1}
NoVersion == MaxVersion + 1

ASSUME JwksAssumption ==
    CacheTtl \in Nat \ {0} /\ FetchTime \in Nat /\ MaxVersion \in Nat /\ MaxKeyTime \in Nat

VARIABLES
    time,
    version,    \* the provider's key set
    since,      \* when a version was published
    cached,     \* keys: the version they come from, NoVersion before the first fetch
    fetchedAt,
    lookupAt,         \* "idle", "fetch", "store", "reread" or "done"
    kid,        \* the key a call looks for
    began,      \* when its fetch began
    snap,       \* the version it fetched
    found,      \* "none", "key", "unauthorized" or "error"
    lasting,    \* calls whose key was published all the time
    late        \* calls during which an older answer replaced a newer one

keyVars == <<time, version, since, cached, fetchedAt, lookupAt, kid, began, snap, found,
             lasting, late>>
cacheVars == <<cached, fetchedAt>>

KeyInit ==
    /\ time = 0 /\ version = 0 /\ since = [v \in Versions |-> 0]
    /\ cached = NoVersion /\ fetchedAt = 0
    /\ lookupAt = [c \in Lookups |-> "idle"]
    /\ kid = [c \in Lookups |-> 0]
    /\ began = [c \in Lookups |-> 0]
    /\ snap = [c \in Lookups |-> 0]
    /\ found = [c \in Lookups |-> "none"]
    /\ lasting = {} /\ late = {}

Holds(k) == cached # NoVersion /\ k \in KeysOf(cached)

\* The call's local variables end with it.
ReturnKey(c, r) ==
    /\ lookupAt' = [lookupAt EXCEPT ![c] = "done"]
    /\ found' = [found EXCEPT ![c] = r]
    /\ began' = [began EXCEPT ![c] = 0]
    /\ snap' = [snap EXCEPT ![c] = 0]

\* A call comes with the key id of its token.
StartLookup(c) ==
    \E k \in Kids :
        /\ kid' = [kid EXCEPT ![c] = k]
        /\ lasting' = IF k \in KeysOf(version) THEN lasting \cup {c} ELSE lasting

BeginFetch(c) ==
    /\ lookupAt' = [lookupAt EXCEPT ![c] = "fetch"]
    /\ began' = [began EXCEPT ![c] = time]
    /\ UNCHANGED <<found, snap>>

----------------------------------------------------------------------------
\* Faulty variant: the age of the cache is not looked at.
LookupIgnoresAge(c) ==
    /\ lookupAt[c] = "idle"
    /\ StartLookup(c)
    /\ \/ Holds(kid'[c]) /\ ReturnKey(c, "key")
       \/ /\ ~Holds(kid'[c])
          /\ BeginFetch(c)
    /\ UNCHANGED <<time, version, since, cacheVars, late>>

\* Faulty variant: a fresh cache is trusted to be complete.
LookupTrustsMiss(c) ==
    /\ lookupAt[c] = "idle"
    /\ StartLookup(c)
    /\ \/ /\ cached # NoVersion /\ time - fetchedAt < CacheTtl
          /\ ReturnKey(c, IF Holds(kid'[c]) THEN "key" ELSE "unauthorized")
         
       \/ /\ cached = NoVersion \/ time - fetchedAt >= CacheTtl
          /\ BeginFetch(c)
    /\ UNCHANGED <<time, version, since, cacheVars, late>>

\* lookupKey under the read lock: a fresh hit returns, all else fetches.
LookupKey(c) ==
    /\ lookupAt[c] = "idle"
    /\ StartLookup(c)
    /\ \/ /\ Holds(kid'[c]) /\ time - fetchedAt < CacheTtl
          /\ ReturnKey(c, "key")
         
       \/ /\ ~(Holds(kid'[c]) /\ time - fetchedAt < CacheTtl)
          /\ BeginFetch(c)
    /\ UNCHANGED <<time, version, since, cacheVars, late>>

\* refreshKeys without a lock: the provider answers with its key set.
FetchKeys(c) ==
    /\ lookupAt[c] = "fetch"
    /\ snap' = [snap EXCEPT ![c] = version]
    /\ lookupAt' = [lookupAt EXCEPT ![c] = "store"]
    /\ UNCHANGED <<time, version, since, cacheVars, kid, began, found, lasting, late>>

\* The request, its status, the decoding or an empty set ends the call.
FetchFails(c) ==
    /\ lookupAt[c] \in {"fetch", "store"}
    /\ ReturnKey(c, "error")
    /\ UNCHANGED <<time, version, since, cacheVars, kid, lasting, late>>

Active == {c \in Lookups : lookupAt[c] \in {"fetch", "store", "reread"}}

\* The map and the time are replaced under the write lock.
StoreKeys(c) ==
    /\ lookupAt[c] = "store"
    /\ cached' = snap[c] /\ fetchedAt' = time
    /\ lookupAt' = [lookupAt EXCEPT ![c] = "reread"]
    /\ late' = IF cached # NoVersion /\ snap[c] < cached THEN late \cup Active ELSE late
    /\ UNCHANGED <<time, version, since, kid, began, snap, found, lasting>>

\* lookupKey reads the map again, whoever wrote it.
Reread(c) ==
    /\ lookupAt[c] = "reread"
    /\ ReturnKey(c, IF Holds(kid[c]) THEN "key" ELSE "unauthorized")
    /\ UNCHANGED <<time, version, since, cacheVars, kid, lasting, late>>

----------------------------------------------------------------------------
\* The provider publishes its next key set.
Rotate ==
    /\ version < MaxVersion
    /\ version' = version + 1
    /\ since' = [since EXCEPT ![version'] = time]
    /\ lasting' = {c \in lasting : lookupAt[c] = "done" \/ kid[c] \in KeysOf(version')}
    /\ UNCHANGED <<time, cacheVars, lookupAt, kid, began, snap, found, late>>

\* Time passes; a fetch ends within its timeout, and what follows takes no time.
KeyTick ==
    /\ time < MaxKeyTime
    /\ \A c \in Lookups :
          /\ lookupAt[c] \in {"fetch", "store"} => time - began[c] < FetchTime
          /\ lookupAt[c] # "reread"
    /\ time' = time + 1
    /\ UNCHANGED <<version, since, cacheVars, lookupAt, kid, began, snap, found,
                   lasting, late>>

KeyNext ==
    \/ \E c \in Lookups :
          LookupKey(c) \/ FetchKeys(c) \/ FetchFails(c) \/ StoreKeys(c) \/ Reread(c)
    \/ Rotate \/ KeyTick

KeySpec == KeyInit /\ [][KeyNext]_keyVars

----------------------------------------------------------------------------
\* Types; the cache was written in the past.
KeyTypeOK ==
    /\ time \in 0 .. MaxKeyTime /\ version \in Versions
    /\ since \in [Versions -> 0 .. MaxKeyTime]
    /\ cached \in Versions \cup {NoVersion} /\ fetchedAt \in 0 .. time
    /\ lookupAt \in [Lookups -> {"idle", "fetch", "store", "reread", "done"}]
    /\ kid \in [Lookups -> Kids] /\ began \in [Lookups -> 0 .. time]
    /\ snap \in [Lookups -> Versions]
    /\ found \in [Lookups -> {"none", "key", "unauthorized", "error"}]
    /\ lasting \subseteq Lookups /\ late \subseteq Lookups

\* lookupKey: a key it returns was published within the life of the cache and one fetch
\* before.
NoStaleKey ==
    [][\A c \in Lookups : found'[c] = "key" /\ found[c] = "none" =>
          \/ kid'[c] >= version
          \/ time <= since[kid'[c] + 1] + CacheTtl + FetchTime]_keyVars

\* A key the provider published all the time is refused only if, during the call, an
\* older answer of a slow fetch replaced a newer one.
MissOnlyAfterLateStore ==
    \A c \in Lookups : found[c] = "unauthorized" /\ c \in lasting => c \in late
=============================================================================
