------------------------------- MODULE HttpCache -------------------------------
(***************************************************************************)
(* The response cache of src/src/utils/http-cache.ts: class HttpCache, a   *)
(* Map in insertion order whose entries expire and of which the least      *)
(* recently accessed is evicted when the Map is full.  Its methods are     *)
(* synchronous, so each is one action.                                     *)
(*                                                                         *)
(* A key stands for "METHOD:url".  A response is a member of Data; the     *)
(* status and the ETag travel with it and are not told apart from it.  Of  *)
(* the response headers only Cache-Control is kept.                        *)
(***************************************************************************)
EXTENDS Integers, Sequences, FiniteSets, SequencesExt

\* (A definition named Bug... is the one that follows it with a mistake in it; no
\* behaviour of the model uses it.)

CONSTANTS
  Keys,        \* "METHOD:url"
  GetKeys,     \* those of GET requests
  Data,        \* responses
  Nothing,     \* no response, no entry
  MaxSize,     \* config.maxSize
  DefaultTtl,  \* config.defaultTtl
  RespectCacheControl,  \* config.respectCacheControl
  Headers,     \* the Cache-Control headers a response may carry
  MaxTime,     \* bound on the clock
  MaxCount     \* bound on the lookups and on the evictions that are counted

VARIABLES
  now,         \* Date.now()
  cache,       \* the entries of the Map, by key
  order,       \* its keys in insertion order
  stats,       \* hits, misses, evictions, expirations
  reply,       \* what the last get() answered
  stored,      \* history: what the last effective set() of a key promised
  usedAt,      \* history: when each key was last set or found
  net          \* history: entries added and not invalidated since clear()

vars == <<now, cache, order, stats, reply, stored, usedAt, net>>

Entry  == [data : Data, timestamp : Nat, ttl : Nat, lastAccess : Nat]
Header == [present : BOOLEAN, maxAge : Nat \cup {-1}, noStore : BOOLEAN]

NoTtl == -1   \* null: the header does not say

ASSUME ConstantsAssumption ==
  /\ IsFiniteSet(Keys) /\ GetKeys \subseteq Keys
  /\ Nothing \notin Data \cup [data : Data, until : Nat]
  /\ MaxSize \in Nat \ {0} /\ DefaultTtl \in Nat \ {0}
  /\ MaxTime \in Nat /\ MaxCount \in Nat
  /\ RespectCacheControl \in BOOLEAN
  /\ Headers \subseteq Header

EmptyMap == [k \in {} |-> Nothing]

Size == Cardinality(DOMAIN cache)

ZeroStats == [hits |-> 0, misses |-> 0, evictions |-> 0, expirations |-> 0]

\* isExpired(entry)
Expired(e) == now - e.timestamp > e.ttl

\* cache.delete(key)
Remaining(k) == [j \in DOMAIN cache \ {k} |-> cache[j]]
Position(k) == CHOOSE i \in 1 .. Len(order) : order[i] = k
OrderWithout(k) ==
  IF k \in DOMAIN cache THEN RemoveAt(order, Position(k)) ELSE order

\* evictLRU() scans the Map in insertion order for the least lastAccess, and a
\* later entry replaces the candidate only when it is strictly older.
Victims ==
  { k \in DOMAIN cache : \A j \in DOMAIN cache :
      cache[k].lastAccess <= cache[j].lastAccess }

Victim ==
  order[CHOOSE i \in 1 .. Len(order) :
          /\ order[i] \in Victims
          /\ \A j \in 1 .. i - 1 : order[j] \notin Victims]

\* parseCacheControl(): max-age is looked for first.
HeaderTtl(h) ==
  IF ~h.present \/ ~RespectCacheControl THEN NoTtl
  ELSE IF h.maxAge # -1 THEN h.maxAge
  ELSE IF h.noStore THEN 0
  ELSE NoTtl

Ttl(h) == IF HeaderTtl(h) = NoTtl THEN DefaultTtl ELSE HeaderTtl(h)

-----------------------------------------------------------------------------
(* get(); has() and getETag() call it *)

Lookups == stats.hits + stats.misses

GetAbsent(k) ==
  /\ Lookups < MaxCount
  /\ k \notin DOMAIN cache
  /\ stats' = [stats EXCEPT !.misses = @ + 1]
  /\ reply' = Nothing
  /\ UNCHANGED <<now, cache, order, stored, usedAt, net>>

\* An expired entry is deleted but not counted as such.
BugGetExpired(k) ==
  /\ Lookups < MaxCount
  /\ k \in DOMAIN cache
  /\ Expired(cache[k])
  /\ cache' = Remaining(k)
  /\ order' = OrderWithout(k)
  /\ stats' = [stats EXCEPT !.misses = @ + 1]
  /\ reply' = Nothing
  /\ UNCHANGED <<now, stored, usedAt, net>>

GetExpired(k) ==
  /\ Lookups < MaxCount
  /\ k \in DOMAIN cache
  /\ Expired(cache[k])
  /\ cache' = Remaining(k)
  /\ order' = OrderWithout(k)
  /\ stats' = [stats EXCEPT !.expirations = @ + 1, !.misses = @ + 1]
  /\ reply' = Nothing
  /\ UNCHANGED <<now, stored, usedAt, net>>

\* A hit does not touch the entry.
BugGetHit(k) ==
  /\ Lookups < MaxCount
  /\ k \in DOMAIN cache
  /\ ~Expired(cache[k])
  /\ stats' = [stats EXCEPT !.hits = @ + 1]
  /\ reply' = cache[k].data
  /\ usedAt' = [usedAt EXCEPT ![k] = now]
  /\ UNCHANGED <<now, cache, order, stored, net>>

GetHit(k) ==
  /\ Lookups < MaxCount
  /\ k \in DOMAIN cache
  /\ ~Expired(cache[k])
  /\ cache' = [cache EXCEPT ![k].lastAccess = now]
  /\ stats' = [stats EXCEPT !.hits = @ + 1]
  /\ reply' = cache[k].data
  /\ usedAt' = [usedAt EXCEPT ![k] = now]
  /\ UNCHANGED <<now, order, stored, net>>

-----------------------------------------------------------------------------
(* set(), invalidate(), clear() *)

\* A time to live of 0 is taken for a time to live.
BugCacheable(k, h) == k \in GetKeys \/ h.present

\* A response to another method than GET is only kept when it has the header,
\* and none is kept whose header asks for a time to live of 0.
Cacheable(k, h) ==
  /\ k \in GetKeys \/ h.present
  /\ HeaderTtl(h) # 0

NewEntry(d, h) ==
  [data |-> d, timestamp |-> now, ttl |-> Ttl(h), lastAccess |-> now]

\* What a caller may rely on once set() has stored its response.
Promise(k, d, h) ==
  /\ stored' = [stored EXCEPT ![k] = [data |-> d, until |-> now + Ttl(h)]]
  /\ usedAt' = [usedAt EXCEPT ![k] = now]

SetIgnored(k, h) == ~Cacheable(k, h) /\ UNCHANGED vars

\* A response that comes for a key that is there already is dropped.
BugSetReplaces(k, d, h) ==
  /\ Cacheable(k, h)
  /\ k \in DOMAIN cache
  /\ Promise(k, d, h)
  /\ UNCHANGED <<now, cache, order, stats, reply, net>>

\* A Map keeps the position of a key that is set again.
SetReplaces(k, d, h) ==
  /\ Cacheable(k, h)
  /\ k \in DOMAIN cache
  /\ cache' = [cache EXCEPT ![k] = NewEntry(d, h)]
  /\ Promise(k, d, h)
  /\ UNCHANGED <<now, order, stats, reply, net>>

\* The capacity is tested after the entry is in.
BugSetAdds(k, d, h) ==
  /\ Cacheable(k, h)
  /\ k \notin DOMAIN cache
  /\ Size <= MaxSize
  /\ cache' = [j \in DOMAIN cache \cup {k} |->
                 IF j = k THEN NewEntry(d, h) ELSE cache[j]]
  /\ order' = Append(order, k)
  /\ Promise(k, d, h)
  /\ net' = net + 1
  /\ UNCHANGED <<now, stats, reply>>

SetAdds(k, d, h) ==
  /\ Cacheable(k, h)
  /\ k \notin DOMAIN cache
  /\ Size < MaxSize
  /\ cache' = [j \in DOMAIN cache \cup {k} |->
                 IF j = k THEN NewEntry(d, h) ELSE cache[j]]
  /\ order' = Append(order, k)
  /\ Promise(k, d, h)
  /\ net' = net + 1
  /\ UNCHANGED <<now, stats, reply>>

SetEvicts(k, d, h) ==
  /\ stats.evictions < MaxCount
  /\ Cacheable(k, h)
  /\ k \notin DOMAIN cache
  /\ Size >= MaxSize
  /\ cache' = [j \in (DOMAIN cache \ {Victim}) \cup {k} |->
                 IF j = k THEN NewEntry(d, h) ELSE cache[j]]
  /\ order' = Append(OrderWithout(Victim), k)
  /\ stats' = [stats EXCEPT !.evictions = @ + 1]
  /\ Promise(k, d, h)
  /\ net' = net + 1
  /\ UNCHANGED <<now, reply>>

Invalidate(k) ==
  /\ cache' = Remaining(k)
  /\ order' = OrderWithout(k)
  /\ stored' = [stored EXCEPT ![k] = Nothing]
  /\ net' = net - (IF k \in DOMAIN cache THEN 1 ELSE 0)
  /\ UNCHANGED <<now, stats, reply, usedAt>>

Clear ==
  /\ cache' = EmptyMap
  /\ order' = << >>
  /\ stats' = ZeroStats
  /\ stored' = [k \in Keys |-> Nothing]
  /\ net' = 0
  /\ UNCHANGED <<now, reply, usedAt>>

Tick ==
  /\ now < MaxTime
  /\ now' = now + 1
  /\ UNCHANGED <<cache, order, stats, reply, stored, usedAt, net>>

Init ==
  /\ now = 0
  /\ cache = EmptyMap
  /\ order = << >>
  /\ stats = ZeroStats
  /\ reply = Nothing
  /\ stored = [k \in Keys |-> Nothing]
  /\ usedAt = [k \in Keys |-> 0]
  /\ net = 0

Next ==
  \/ \E k \in Keys :
       \/ GetAbsent(k)
       \/ GetExpired(k)
       \/ GetHit(k)
       \/ Invalidate(k)
  \/ \E k \in Keys, h \in Headers :
       \/ SetIgnored(k, h)
       \/ \E d \in Data :
            \/ SetReplaces(k, d, h)
            \/ SetAdds(k, d, h)
            \/ SetEvicts(k, d, h)
  \/ Clear
  \/ Tick

Spec == Init /\ [][Next]_vars

-----------------------------------------------------------------------------
(* Properties *)

TypeOK ==
  /\ now \in 0 .. MaxTime
  /\ DOMAIN cache \subseteq Keys
  /\ \A k \in DOMAIN cache : cache[k] \in Entry /\ cache[k].ttl > 0
  /\ order \in Seq(Keys)
  /\ stats \in [hits : Nat, misses : Nat, evictions : Nat, expirations : Nat]
  /\ reply \in Data \cup {Nothing}
  /\ usedAt \in [Keys -> 0 .. now]
  /\ net \in Nat

\* The cache is bounded by maxSize, and the Map lists every entry once: no
\* sequence of sets, expiries, evictions and invalidations makes it grow or
\* loses a key from the scan that evicts.
Bounded ==
  /\ Size <= MaxSize
  /\ Len(order) = Size
  /\ \A k \in DOMAIN cache : \E i \in 1 .. Len(order) : order[i] = k

\* The statistics account for every entry: what was added and not invalidated
\* is still there, or was counted once, as evicted or as expired.
StatsAccountForEntries == Size = net - stats.evictions - stats.expirations

\* An entry is only evicted for room, and up to the resolution of the clock the
\* evicted one is the least recently used: none that stays was used before it.
EvictsLeastRecentlyUsed ==
  [][stats'.evictions > stats.evictions =>
       /\ Size = MaxSize
       /\ \A k \in DOMAIN cache \ DOMAIN cache', j \in DOMAIN cache :
            usedAt[k] <= usedAt[j]]_vars

\* Behind eviction, recency and lazy expiry the cache is the abstract one: a hit
\* is the last response stored for the key, not expired and not invalidated.
Abstract == INSTANCE ResponseCache WITH
  Ttls <- {DefaultTtl} \cup {h.maxAge : h \in Headers}

ImplementsResponseCache == Abstract!Spec
=============================================================================
