---------------------------- MODULE HttpCacheProofs ----------------------------
(***************************************************************************)
(* What holds of the response cache for any keys, headers and capacity,    *)
(* and that it implements ResponseCache.                                   *)
(***************************************************************************)
EXTENDS HttpCache, SequenceTheorems, FiniteSetTheorems, TLAPS

\* The Map lists each of its entries once.
Listed ==
  /\ \A i \in 1 .. Len(order) : order[i] \in DOMAIN cache
  /\ \A k \in DOMAIN cache : \E i \in 1 .. Len(order) : order[i] = k
  /\ \A i, j \in 1 .. Len(order) : order[i] = order[j] => i = j

\* An entry is what the last set() of its key promised, and was touched when its key
\* was last set or found.
EntriesKeepPromises ==
  \A k \in DOMAIN cache :
    /\ stored[k] = [data |-> cache[k].data,
                    until |-> cache[k].timestamp + cache[k].ttl]
    /\ cache[k].lastAccess = usedAt[k]

StoredType == stored \in [Keys -> [data : Data, until : Nat] \cup {Nothing}]

CacheInv ==
  /\ TypeOK
  /\ StoredType
  /\ Listed
  /\ EntriesKeepPromises
  /\ Size <= MaxSize
  /\ StatsAccountForEntries

-----------------------------------------------------------------------------
(* Sequences and numbers *)

\* A set of numbers that is not empty has a least element: of the intervals from 0 to
\* its members one is contained in all the others.
LEMMA LeastNumber ==
  ASSUME NEW T \in SUBSET Nat, T # {}
  PROVE  \E m \in T : \A n \in T : m <= n
<1> DEFINE intervals == {0 .. n : n \in T}
<1>1. intervals \subseteq FiniteSubsetsOf(Nat) /\ intervals # {}
  <2>1. \A n \in T : 0 .. n \in SUBSET Nat /\ IsFiniteSet(0 .. n)
    BY FS_Interval
  <2>2. \A n \in T : 0 .. n \in FiniteSubsetsOf(Nat)
    BY <2>1 DEF FiniteSubsetsOf
  <2> QED BY <2>2
<1>2. PICK I \in intervals :
        \A J \in intervals : <<J, I>> \notin StrictSubsetOrdering(Nat)
  BY <1>1, FS_StrictSubsetOrderingWellFounded, WFMin
<1>3. PICK m \in T : I = 0 .. m
  OBVIOUS
<1>4. ASSUME NEW n \in T, n < m PROVE FALSE
  <2>1. 0 .. n \subseteq 0 .. m /\ 0 .. n # 0 .. m
    BY <1>4
  <2>2. <<0 .. n, 0 .. m>> \in StrictSubsetOrdering(Nat)
    BY <2>1 DEF StrictSubsetOrdering
  <2> QED BY <1>2, <1>3, <2>2
<1> QED BY <1>4

LEMMA RemovedAt ==
  ASSUME NEW S, NEW s \in Seq(S), NEW i \in 1 .. Len(s)
  PROVE  /\ RemoveAt(s, i) \in Seq(S) /\ Len(RemoveAt(s, i)) = Len(s) - 1
         /\ \A j \in 1 .. Len(s) - 1 :
              RemoveAt(s, i)[j] = IF j < i THEN s[j] ELSE s[j + 1]
<1> DEFINE front == SubSeq(s, 1, i - 1)
           back  == SubSeq(s, i + 1, Len(s))
<1>1. /\ front \in Seq(S) /\ Len(front) = i - 1
      /\ \A j \in 1 .. i - 1 : front[j] = s[j]
  BY SubSeqProperties
<1>2. /\ back \in Seq(S) /\ Len(back) = Len(s) - i
      /\ \A j \in 1 .. Len(s) - i : back[j] = s[i + j]
  BY SubSeqProperties
<1>3. RemoveAt(s, i) = front \o back
  BY DEF RemoveAt
<1> HIDE DEF front, back
<1>4. /\ front \o back \in Seq(S) /\ Len(front \o back) = Len(s) - 1
      /\ \A j \in 1 .. Len(s) - 1 : (front \o back)[j] =
           IF j <= i - 1 THEN front[j] ELSE back[j - (i - 1)]
  BY <1>1, <1>2, ConcatProperties
<1>5. ASSUME NEW j \in 1 .. Len(s) - 1
      PROVE  (front \o back)[j] = IF j < i THEN s[j] ELSE s[j + 1]
  BY <1>1, <1>2, <1>4
<1> QED BY <1>3, <1>4, <1>5

-----------------------------------------------------------------------------
(* The Map *)

\* As many keys are listed as there are entries.
LEMMA ListedLength ==
  ASSUME TypeOK, Listed
  PROVE  Len(order) = Size /\ Size \in Nat /\ IsFiniteSet(DOMAIN cache)
<1> DEFINE n == Len(order)
           f == [i \in 1 .. n |-> order[i]]
<1>1. n \in Nat
  BY DEF TypeOK
<1>2. f \in Bijection(1 .. n, DOMAIN cache)
  <2>1. f \in [1 .. n -> DOMAIN cache]
    BY DEF Listed
  <2>2. \A k \in DOMAIN cache : \E i \in 1 .. n : f[i] = k
    BY DEF Listed
  <2>3. \A i, j \in 1 .. n : f[i] = f[j] => i = j
    BY DEF Listed
  <2> QED BY <2>1, <2>2, <2>3 DEF Bijection, Injection, Surjection, IsInjective
<1>3. ExistsBijection(1 .. n, DOMAIN cache)
  BY <1>2 DEF ExistsBijection
<1>4. Cardinality(DOMAIN cache) = n
  BY <1>1, <1>3, FS_CountingElements
<1>5. IsFiniteSet(DOMAIN cache)
  BY <1>1, <1>3, FS_NatBijection
<1> QED BY <1>1, <1>4, <1>5 DEF Size

\* delete() takes one key out of the list and leaves the others as they are.
LEMMA DeletedKey ==
  ASSUME TypeOK, Listed, NEW k \in Keys
  PROVE  LET o == OrderWithout(k) IN
         /\ o \in Seq(Keys)
         /\ \A i \in 1 .. Len(o) : o[i] \in DOMAIN cache \ {k}
         /\ \A j \in DOMAIN cache \ {k} : \E i \in 1 .. Len(o) : o[i] = j
         /\ \A i, j \in 1 .. Len(o) : o[i] = o[j] => i = j
<1>1. CASE k \notin DOMAIN cache
  BY <1>1 DEF OrderWithout, TypeOK, Listed
<1>2. CASE k \in DOMAIN cache
  <2> DEFINE p == Position(k)
             o == RemoveAt(order, p)
  <2>1. order \in Seq(Keys) /\ Len(order) \in Nat
    BY DEF TypeOK
  <2>2. p \in 1 .. Len(order) /\ order[p] = k
    BY <1>2 DEF Listed, Position
  <2>3. OrderWithout(k) = o
    BY <1>2 DEF OrderWithout
  <2> HIDE DEF p
  <2>4. /\ o \in Seq(Keys) /\ Len(o) = Len(order) - 1
        /\ \A j \in 1 .. Len(order) - 1 :
             o[j] = IF j < p THEN order[j] ELSE order[j + 1]
    BY <2>1, <2>2, RemovedAt
  <2> HIDE DEF o
  <2>5. ASSUME NEW i \in 1 .. Len(o) PROVE o[i] \in DOMAIN cache \ {k}
    BY <2>1, <2>2, <2>4 DEF Listed
  <2>6. ASSUME NEW j \in DOMAIN cache \ {k} PROVE \E i \in 1 .. Len(o) : o[i] = j
    <3>1. PICK i \in 1 .. Len(order) : order[i] = j
      BY DEF Listed
    <3>2. CASE i < p
      BY <2>1, <2>2, <2>4, <3>1, <3>2
    <3>3. CASE p < i
      <4>1. i - 1 \in 1 .. Len(o) /\ o[i - 1] = order[i]
        BY <2>1, <2>2, <2>4, <3>3
      <4> QED BY <3>1, <4>1
    <3>4. i # p
      BY <2>2, <3>1
    <3> QED BY <2>1, <2>2, <3>2, <3>3, <3>4
  <2>7. ASSUME NEW i \in 1 .. Len(o), NEW j \in 1 .. Len(o), o[i] = o[j] PROVE i = j
    <3> DEFINE from(x) == IF x < p THEN x ELSE x + 1
    <3>1. /\ from(i) \in 1 .. Len(order) /\ order[from(i)] = o[i]
          /\ from(j) \in 1 .. Len(order) /\ order[from(j)] = o[j]
      BY <2>1, <2>2, <2>4
    <3>2. from(i) = from(j)
      BY <2>7, <3>1 DEF Listed
    <3> QED BY <2>1, <2>2, <2>4, <3>2
  <2> QED BY <2>3, <2>4, <2>5, <2>6, <2>7
<1> QED BY <1>1, <1>2

\* evictLRU() finds an entry, and one of the least recently accessed.
LEMMA VictimFound ==
  ASSUME TypeOK, Listed, DOMAIN cache # {}
  PROVE  Victim \in Victims
<1> DEFINE times == {cache[k].lastAccess : k \in DOMAIN cache}
           places == {i \in 1 .. Len(order) : order[i] \in Victims}
<1>1. times \in SUBSET Nat /\ times # {}
  BY DEF TypeOK, Entry
<1>2. PICK t \in times : \A u \in times : t <= u
  BY <1>1, LeastNumber
<1>3. PICK v \in DOMAIN cache : cache[v].lastAccess = t
  BY <1>2
<1>4. v \in Victims
  BY <1>2, <1>3 DEF Victims
<1>5. places \in SUBSET Nat /\ places # {}
  <2>1. PICK i \in 1 .. Len(order) : order[i] = v
    BY DEF Listed
  <2> QED BY <1>4, <2>1
<1>6. PICK m \in places : \A i \in places : m <= i
  BY <1>5, LeastNumber
<1>7. /\ m \in 1 .. Len(order) /\ order[m] \in Victims
      /\ \A j \in 1 .. m - 1 : order[j] \notin Victims
  <2>1. Len(order) \in Nat
    BY DEF TypeOK
  <2>2. ASSUME NEW j \in 1 .. m - 1, order[j] \in Victims PROVE FALSE
    <3>1. j \in places /\ j < m
      BY <2>1, <2>2
    <3> QED BY <1>6, <3>1
  <2> QED BY <1>6, <2>2
<1> QED BY <1>7 DEF Victim

\* What delete() leaves.
LEMMA DeleteStep ==
  ASSUME CacheInv, NEW k \in Keys, cache' = Remaining(k), order' = OrderWithout(k)
  PROVE  /\ DOMAIN cache' = DOMAIN cache \ {k}
         /\ \A j \in DOMAIN cache' : cache'[j] = cache[j]
         /\ order' \in Seq(Keys) /\ Listed'
         /\ Size' = IF k \in DOMAIN cache THEN Size - 1 ELSE Size
         /\ Size \in Nat /\ Size' \in Nat /\ Size' <= MaxSize
<1>1. /\ DOMAIN cache' = DOMAIN cache \ {k}
      /\ \A j \in DOMAIN cache' : cache'[j] = cache[j]
  BY DEF Remaining
<1>2. order' \in Seq(Keys) /\ Listed'
  <2>1. TypeOK /\ Listed
    BY DEF CacheInv
  <2>2. /\ OrderWithout(k) \in Seq(Keys)
        /\ \A i \in 1 .. Len(OrderWithout(k)) : OrderWithout(k)[i] \in DOMAIN cache \ {k}
        /\ \A j \in DOMAIN cache \ {k} :
             \E i \in 1 .. Len(OrderWithout(k)) : OrderWithout(k)[i] = j
        /\ \A i, j \in 1 .. Len(OrderWithout(k)) :
             OrderWithout(k)[i] = OrderWithout(k)[j] => i = j
    BY <2>1, DeletedKey
  <2>3. /\ order' \in Seq(Keys)
        /\ \A i \in 1 .. Len(order') : order'[i] \in DOMAIN cache \ {k}
        /\ \A j \in DOMAIN cache \ {k} : \E i \in 1 .. Len(order') : order'[i] = j
        /\ \A i, j \in 1 .. Len(order') : order'[i] = order'[j] => i = j
    <3> DEFINE o == OrderWithout(k)
    <3>1. order' = o
      OBVIOUS
    <3> HIDE DEF o
    <3> QED BY <2>2, <3>1 DEF o
  <2> QED BY <1>1, <2>3 DEF Listed
<1>3. IsFiniteSet(DOMAIN cache) /\ Size \in Nat /\ Size <= MaxSize /\ MaxSize \in Nat
  BY ListedLength, ConstantsAssumption DEF CacheInv
<1>4. /\ Cardinality(DOMAIN cache \ {k}) =
           (IF k \in DOMAIN cache THEN Cardinality(DOMAIN cache) - 1
                                  ELSE Cardinality(DOMAIN cache))
      /\ Cardinality(DOMAIN cache \ {k}) \in Nat
  BY <1>3, FS_RemoveElement, FS_CardinalityType
<1> QED BY <1>1, <1>2, <1>3, <1>4 DEF Size

\* A key that is new to the Map comes last.
LEMMA AppendStep ==
  ASSUME NEW o \in Seq(Keys), NEW K \in SUBSET Keys, NEW k \in Keys \ K,
         \A i \in 1 .. Len(o) : o[i] \in K,
         \A j \in K : \E i \in 1 .. Len(o) : o[i] = j,
         \A i, j \in 1 .. Len(o) : o[i] = o[j] => i = j,
         DOMAIN cache' = K \cup {k}, order' = Append(o, k)
  PROVE  order' \in Seq(Keys) /\ Listed'
<1>1. /\ order' \in Seq(Keys) /\ Len(order') = Len(o) + 1 /\ Len(o) \in Nat
      /\ \A i \in 1 .. Len(o) : order'[i] = o[i]
      /\ order'[Len(o) + 1] = k
  BY AppendProperties
<1>2. \A i \in 1 .. Len(order') : i \in 1 .. Len(o) \/ i = Len(o) + 1
  BY <1>1
<1>3. \A i \in 1 .. Len(order') : order'[i] \in K \cup {k}
  BY <1>1, <1>2
<1>4. \A j \in K \cup {k} : \E i \in 1 .. Len(order') : order'[i] = j
  BY <1>1
<1>5. \A i, j \in 1 .. Len(order') : order'[i] = order'[j] => i = j
  BY <1>1, <1>2
<1> QED BY <1>1, <1>3, <1>4, <1>5 DEF Listed

\* The Map has the same keys in the same order.
LEMMA SameKeys ==
  ASSUME CacheInv, DOMAIN cache' = DOMAIN cache, order' = order
  PROVE  order' \in Seq(Keys) /\ Listed' /\ Size' = Size
  BY DEF CacheInv, TypeOK, Listed, Size

\* The time to live of a response that is kept is that of its header or the default.
LEMMA KeptFor ==
  ASSUME CacheInv, NEW k \in Keys, NEW h \in Headers, NEW d \in Data, Cacheable(k, h)
  PROVE  /\ Ttl(h) \in Nat \ {0}
         /\ Ttl(h) \in {DefaultTtl} \cup {g.maxAge : g \in Headers}
         /\ NewEntry(d, h) \in Entry
         /\ NewEntry(d, h).data = d /\ NewEntry(d, h).timestamp = now
         /\ NewEntry(d, h).ttl = Ttl(h) /\ NewEntry(d, h).lastAccess = now
<1>1. h \in Header
  BY ConstantsAssumption
<1>2. HeaderTtl(h) # NoTtl /\ HeaderTtl(h) # 0 => HeaderTtl(h) = h.maxAge
  BY <1>1 DEF HeaderTtl
<1>3. h.maxAge \in Nat \cup {-1}
  BY <1>1 DEF Header
<1>4. /\ Ttl(h) \in Nat \ {0}
      /\ Ttl(h) \in {DefaultTtl} \cup {g.maxAge : g \in Headers}
  BY <1>2, <1>3, ConstantsAssumption DEF Ttl, Cacheable, NoTtl
<1> HIDE DEF Ttl
<1> QED BY <1>4 DEF NewEntry, Entry, CacheInv, TypeOK

LEMMA CacheInit == Init => CacheInv
<1> SUFFICES ASSUME Init PROVE CacheInv
  OBVIOUS
<1>1. DOMAIN cache = {} /\ Size = 0
  BY FS_EmptySet DEF Init, EmptyMap, Size
<1>2. TypeOK
  BY <1>1, ConstantsAssumption DEF Init, TypeOK, ZeroStats
<1>3. Size <= MaxSize /\ StatsAccountForEntries
  BY <1>1, ConstantsAssumption DEF Init, StatsAccountForEntries, ZeroStats
<1> QED BY <1>1, <1>2, <1>3
       DEF Init, CacheInv, StoredType, Listed, EntriesKeepPromises

-----------------------------------------------------------------------------
(* Steps *)

LEMMA AbsentStep ==
  ASSUME CacheInv, NEW k \in Keys, GetAbsent(k)
  PROVE  CacheInv'
<1>1. UNCHANGED <<now, cache, order, stored, usedAt, net>>
  BY DEF GetAbsent
<1>2. /\ stats' \in [hits : Nat, misses : Nat, evictions : Nat, expirations : Nat]
      /\ stats'.evictions = stats.evictions /\ stats'.expirations = stats.expirations
      /\ reply' = Nothing
  BY DEF GetAbsent, CacheInv, TypeOK
<1> QED BY <1>1, <1>2
       DEF CacheInv, TypeOK, StoredType, Listed, EntriesKeepPromises, Size,
           StatsAccountForEntries

LEMMA ExpiredStep ==
  ASSUME CacheInv, NEW k \in Keys, GetExpired(k)
  PROVE  CacheInv'
<1>1. /\ UNCHANGED <<now, stored, usedAt, net>> /\ reply' = Nothing
      /\ k \in DOMAIN cache
  BY DEF GetExpired
<1>2. /\ DOMAIN cache' = DOMAIN cache \ {k}
      /\ \A j \in DOMAIN cache' : cache'[j] = cache[j]
      /\ order' \in Seq(Keys) /\ Listed'
      /\ Size' = Size - 1 /\ Size \in Nat /\ Size' <= MaxSize
  BY <1>1, DeleteStep DEF GetExpired
<1>3. /\ stats' \in [hits : Nat, misses : Nat, evictions : Nat, expirations : Nat]
      /\ stats'.evictions = stats.evictions
      /\ stats'.expirations = stats.expirations + 1
      /\ stats.evictions \in Nat /\ stats.expirations \in Nat /\ net \in Nat
  <2>1. /\ stats \in [hits : Nat, misses : Nat, evictions : Nat, expirations : Nat]
        /\ net \in Nat
    BY DEF CacheInv, TypeOK
  <2>2. stats' = [stats EXCEPT !.expirations = @ + 1, !.misses = @ + 1]
    BY DEF GetExpired
  <2>3. /\ DOMAIN stats' = DOMAIN stats
        /\ stats'.hits = stats.hits /\ stats'.misses = stats.misses + 1
        /\ stats'.evictions = stats.evictions
        /\ stats'.expirations = stats.expirations + 1
    BY <2>1, <2>2
  <2>4. /\ stats.hits \in Nat /\ stats.misses + 1 \in Nat /\ stats.evictions \in Nat
        /\ stats.expirations \in Nat /\ stats.expirations + 1 \in Nat
    BY <2>1
  <2>5. stats' = [hits |-> stats'.hits, misses |-> stats'.misses,
                  evictions |-> stats'.evictions, expirations |-> stats'.expirations]
    BY <2>1, <2>2
  <2> QED BY <2>1, <2>3, <2>4, <2>5
<1>4. TypeOK'
  BY <1>1, <1>2, <1>3 DEF CacheInv, TypeOK
<1>5. EntriesKeepPromises'
  BY <1>1, <1>2 DEF CacheInv, EntriesKeepPromises
<1>6. StatsAccountForEntries'
  BY <1>1, <1>2, <1>3 DEF CacheInv, StatsAccountForEntries
<1> QED BY <1>1, <1>2, <1>4, <1>5, <1>6 DEF CacheInv, StoredType

LEMMA HitStep ==
  ASSUME CacheInv, NEW k \in Keys, GetHit(k)
  PROVE  CacheInv'
<1>1. /\ UNCHANGED <<now, order, stored, net>> /\ k \in DOMAIN cache
      /\ DOMAIN cache' = DOMAIN cache
  BY DEF GetHit
<1>2. /\ cache[k] \in Entry /\ cache[k].ttl > 0 /\ now \in Nat
      /\ cache' = [cache EXCEPT ![k].lastAccess = now]
      /\ reply' = cache[k].data
  BY DEF GetHit, CacheInv, TypeOK
<1>3. /\ cache'[k] \in Entry /\ cache'[k].ttl = cache[k].ttl
      /\ cache'[k].data = cache[k].data /\ cache'[k].timestamp = cache[k].timestamp
      /\ cache'[k].lastAccess = now
      /\ \A j \in DOMAIN cache : j = k \/ cache'[j] = cache[j]
  BY <1>1, <1>2 DEF Entry
<1>4. /\ stats' \in [hits : Nat, misses : Nat, evictions : Nat, expirations : Nat]
      /\ stats'.evictions = stats.evictions /\ stats'.expirations = stats.expirations
      /\ usedAt' \in [Keys -> 0 .. now]
      /\ usedAt'[k] = now /\ \A j \in Keys : j = k \/ usedAt'[j] = usedAt[j]
  BY <1>2 DEF GetHit, CacheInv, TypeOK
<1>5. TypeOK'
  BY <1>1, <1>2, <1>3, <1>4 DEF CacheInv, TypeOK, Entry
<1>6. EntriesKeepPromises'
  <2> SUFFICES ASSUME NEW j \in DOMAIN cache
               PROVE  /\ stored'[j] = [data |-> cache'[j].data,
                                       until |-> cache'[j].timestamp + cache'[j].ttl]
                      /\ cache'[j].lastAccess = usedAt'[j]
    BY <1>1 DEF EntriesKeepPromises
  <2>1. /\ stored[j] = [data |-> cache[j].data,
                        until |-> cache[j].timestamp + cache[j].ttl]
        /\ cache[j].lastAccess = usedAt[j] /\ j \in Keys
    BY DEF CacheInv, EntriesKeepPromises, TypeOK
  <2>2. CASE j = k
    BY <1>1, <1>3, <1>4, <2>1, <2>2
  <2>3. CASE j # k
    BY <1>1, <1>3, <1>4, <2>1, <2>3
  <2> QED BY <2>2, <2>3
<1> QED BY <1>1, <1>4, <1>5, <1>6, SameKeys DEF CacheInv, StoredType, StatsAccountForEntries

\* set() puts in the entry that it promises, and touches nothing else that stays.
LEMMA SetStep ==
  ASSUME CacheInv, NEW k \in Keys, NEW d \in Data, NEW h \in Headers,
         Cacheable(k, h), Promise(k, d, h), now' = now, reply' = reply,
         DOMAIN cache' \subseteq Keys,
         cache'[k] = NewEntry(d, h),
         \A j \in DOMAIN cache' : j = k \/ (j \in DOMAIN cache /\ cache'[j] = cache[j]),
         order' \in Seq(Keys), net' \in Nat,
         stats' \in [hits : Nat, misses : Nat, evictions : Nat, expirations : Nat]
  PROVE  TypeOK' /\ StoredType' /\ EntriesKeepPromises'
<1> DEFINE e == NewEntry(d, h)
           s == [data |-> d, until |-> now + Ttl(h)]
<1>1. /\ e \in Entry /\ e.ttl > 0 /\ now \in Nat /\ Ttl(h) \in Nat
      /\ e.data = d /\ e.timestamp = now /\ e.ttl = Ttl(h) /\ e.lastAccess = now
  BY KeptFor DEF CacheInv, TypeOK
<1>2. /\ stored' = [stored EXCEPT ![k] = s] /\ usedAt' = [usedAt EXCEPT ![k] = now]
  BY DEF Promise
<1>3. s \in [data : Data, until : Nat] /\ s = [data |-> e.data, until |-> e.timestamp + e.ttl]
  BY <1>1
<1> HIDE DEF e, s
<1>4. /\ stored' \in [Keys -> [data : Data, until : Nat] \cup {Nothing}]
      /\ usedAt' \in [Keys -> 0 .. now]
      /\ stored'[k] = s /\ usedAt'[k] = now
      /\ \A j \in Keys : j = k \/ (stored'[j] = stored[j] /\ usedAt'[j] = usedAt[j])
  BY <1>1, <1>2, <1>3 DEF CacheInv, TypeOK, StoredType
<1>5. cache'[k] = e
  BY DEF e
<1>6. \A j \in DOMAIN cache' : cache'[j] \in Entry /\ cache'[j].ttl > 0
  BY <1>1, <1>5 DEF CacheInv, TypeOK
<1>7. TypeOK'
  BY <1>4, <1>6 DEF CacheInv, TypeOK
<1>8. EntriesKeepPromises'
  <2> SUFFICES ASSUME NEW j \in DOMAIN cache'
               PROVE  /\ stored'[j] = [data |-> cache'[j].data,
                                       until |-> cache'[j].timestamp + cache'[j].ttl]
                      /\ cache'[j].lastAccess = usedAt'[j]
    BY DEF EntriesKeepPromises
  <2>1. CASE j = k
    BY <1>1, <1>3, <1>4, <1>5, <2>1
  <2>2. CASE j # k
    BY <1>4, <2>2 DEF CacheInv, EntriesKeepPromises
  <2> QED BY <2>1, <2>2
<1> QED BY <1>4, <1>7, <1>8 DEF StoredType

LEMMA ReplaceStep ==
  ASSUME CacheInv, NEW k \in Keys, NEW d \in Data, NEW h \in Headers, SetReplaces(k, d, h)
  PROVE  CacheInv'
<1>1. /\ Cacheable(k, h) /\ Promise(k, d, h) /\ UNCHANGED <<now, order, stats, reply, net>>
      /\ DOMAIN cache' = DOMAIN cache /\ cache'[k] = NewEntry(d, h)
      /\ \A j \in DOMAIN cache : j = k \/ cache'[j] = cache[j]
  BY DEF SetReplaces
<1>2. /\ DOMAIN cache \subseteq Keys /\ net \in Nat
      /\ stats \in [hits : Nat, misses : Nat, evictions : Nat, expirations : Nat]
  BY DEF CacheInv, TypeOK
<1>3. order' \in Seq(Keys) /\ Listed' /\ Size' = Size
  BY <1>1, SameKeys
<1>4. TypeOK' /\ StoredType' /\ EntriesKeepPromises'
  BY <1>1, <1>2, <1>3, SetStep
<1> QED BY <1>1, <1>3, <1>4 DEF CacheInv, StatsAccountForEntries

LEMMA AddStep ==
  ASSUME CacheInv, NEW k \in Keys, NEW d \in Data, NEW h \in Headers, SetAdds(k, d, h)
  PROVE  CacheInv'
<1>1. /\ Cacheable(k, h) /\ Promise(k, d, h) /\ UNCHANGED <<now, stats, reply>>
      /\ k \notin DOMAIN cache /\ Size < MaxSize /\ net' = net + 1
      /\ DOMAIN cache' = DOMAIN cache \cup {k} /\ cache'[k] = NewEntry(d, h)
      /\ \A j \in DOMAIN cache' : j = k \/ (j \in DOMAIN cache /\ cache'[j] = cache[j])
      /\ order' = Append(order, k)
  BY DEF SetAdds
<1>2. /\ DOMAIN cache \subseteq Keys /\ net \in Nat /\ order \in Seq(Keys)
      /\ stats \in [hits : Nat, misses : Nat, evictions : Nat, expirations : Nat]
  BY DEF CacheInv, TypeOK
<1>3. order' \in Seq(Keys) /\ Listed'
  BY <1>1, <1>2, AppendStep DEF CacheInv, Listed
<1>4. TypeOK' /\ StoredType' /\ EntriesKeepPromises'
  BY <1>1, <1>2, <1>3, SetStep
<1>5. Size' = Size + 1 /\ Size \in Nat
  BY <1>1, ListedLength, FS_AddElement DEF CacheInv, Size
<1> QED BY <1>1, <1>2, <1>3, <1>4, <1>5, ConstantsAssumption
       DEF CacheInv, StatsAccountForEntries

\* When the Map is full, an entry goes for the one that comes.
LEMMA FullMap ==
  ASSUME CacheInv, Size >= MaxSize
  PROVE  Size = MaxSize /\ Victim \in Victims /\ Victim \in DOMAIN cache
<1>1. Size \in Nat /\ Size = MaxSize /\ Size # 0
  BY ListedLength, ConstantsAssumption DEF CacheInv
<1>2. DOMAIN cache # {}
  BY <1>1, FS_EmptySet DEF Size
<1> QED BY <1>1, <1>2, VictimFound DEF CacheInv, Victims

LEMMA EvictStep ==
  ASSUME CacheInv, NEW k \in Keys, NEW d \in Data, NEW h \in Headers, SetEvicts(k, d, h)
  PROVE  CacheInv'
<1> DEFINE v == Victim
           K == DOMAIN cache \ {v}
           o == OrderWithout(v)
<1>1. /\ Cacheable(k, h) /\ Promise(k, d, h) /\ UNCHANGED <<now, reply>>
      /\ k \notin DOMAIN cache /\ Size >= MaxSize /\ net' = net + 1
      /\ DOMAIN cache' = K \cup {k} /\ cache'[k] = NewEntry(d, h)
      /\ \A j \in DOMAIN cache' : j = k \/ (j \in DOMAIN cache /\ cache'[j] = cache[j])
      /\ order' = Append(o, k)
      /\ stats' = [stats EXCEPT !.evictions = @ + 1]
  BY DEF SetEvicts
<1>2. /\ DOMAIN cache \subseteq Keys /\ net \in Nat
      /\ stats \in [hits : Nat, misses : Nat, evictions : Nat, expirations : Nat]
  BY DEF CacheInv, TypeOK
<1>3. v \in DOMAIN cache /\ v \in Keys /\ Size = MaxSize
  BY <1>1, <1>2, FullMap
<1>4. /\ stats' \in [hits : Nat, misses : Nat, evictions : Nat, expirations : Nat]
      /\ stats'.evictions = stats.evictions + 1 /\ stats'.expirations = stats.expirations
      /\ stats.evictions \in Nat /\ stats.expirations \in Nat
  BY <1>1, <1>2
<1>5. /\ o \in Seq(Keys)
      /\ \A i \in 1 .. Len(o) : o[i] \in K
      /\ \A j \in K : \E i \in 1 .. Len(o) : o[i] = j
      /\ \A i, j \in 1 .. Len(o) : o[i] = o[j] => i = j
  BY <1>3, DeletedKey DEF CacheInv
<1>6. /\ IsFiniteSet(DOMAIN cache) /\ Size \in Nat
      /\ IsFiniteSet(K) /\ Cardinality(K) = Size - 1
  BY <1>3, ListedLength, FS_RemoveElement DEF CacheInv, Size
<1>7. k \notin K /\ K \subseteq Keys
  BY <1>1, <1>2
<1> HIDE DEF v, K, o
<1>8. order' \in Seq(Keys) /\ Listed'
  BY <1>1, <1>5, <1>7, AppendStep
<1>9. Size' = Size
  <2>1. Cardinality(K \cup {k}) = Cardinality(K) + 1
    BY <1>6, <1>7, FS_AddElement
  <2>2. Size' = Cardinality(K \cup {k})
    BY <1>1 DEF Size
  <2> QED BY <1>6, <2>1, <2>2
<1>10. TypeOK' /\ StoredType' /\ EntriesKeepPromises'
  <2>1. DOMAIN cache' \subseteq Keys /\ k \in DOMAIN cache' /\ net' \in Nat
    BY <1>1, <1>2, <1>7
  <2> QED BY <1>1, <1>4, <1>8, <2>1, SetStep
<1> QED BY <1>1, <1>2, <1>3, <1>4, <1>6, <1>8, <1>9, <1>10
       DEF CacheInv, StatsAccountForEntries

LEMMA InvalidateStep ==
  ASSUME CacheInv, NEW k \in Keys, Invalidate(k)
  PROVE  CacheInv'
<1>1. /\ UNCHANGED <<now, stats, reply, usedAt>>
      /\ stored' = [stored EXCEPT ![k] = Nothing]
      /\ net' = net - (IF k \in DOMAIN cache THEN 1 ELSE 0)
  BY DEF Invalidate
<1>2. /\ DOMAIN cache' = DOMAIN cache \ {k}
      /\ \A j \in DOMAIN cache' : cache'[j] = cache[j]
      /\ order' \in Seq(Keys) /\ Listed'
      /\ Size' = (IF k \in DOMAIN cache THEN Size - 1 ELSE Size)
      /\ Size \in Nat /\ Size' \in Nat /\ Size' <= MaxSize
  BY DeleteStep DEF Invalidate
<1>3. stats.evictions \in Nat /\ stats.expirations \in Nat /\ net \in Nat
  BY DEF CacheInv, TypeOK
<1>4. net' \in Nat /\ StatsAccountForEntries'
  <2>1. Size' = net' - stats.evictions - stats.expirations
    BY <1>1, <1>2, <1>3 DEF CacheInv, StatsAccountForEntries
  <2> QED BY <1>1, <1>2, <1>3, <2>1 DEF StatsAccountForEntries
<1>5. TypeOK'
  BY <1>1, <1>2, <1>4 DEF CacheInv, TypeOK
<1>6. EntriesKeepPromises' /\ StoredType'
  BY <1>1, <1>2 DEF CacheInv, EntriesKeepPromises, StoredType, TypeOK
<1> QED BY <1>2, <1>4, <1>5, <1>6 DEF CacheInv

LEMMA ClearStep ==
  ASSUME CacheInv, Clear
  PROVE  CacheInv'
<1>1. DOMAIN cache' = {} /\ Size' = 0
  BY FS_EmptySet DEF Clear, EmptyMap, Size
<1>2. TypeOK'
  BY <1>1 DEF Clear, CacheInv, TypeOK, ZeroStats
<1>3. (Size <= MaxSize)' /\ StatsAccountForEntries'
  BY <1>1, ConstantsAssumption DEF Clear, StatsAccountForEntries, ZeroStats
<1> QED BY <1>1, <1>2, <1>3
       DEF Clear, CacheInv, StoredType, Listed, EntriesKeepPromises

LEMMA TickStep ==
  ASSUME CacheInv, Tick
  PROVE  CacheInv'
<1>1. TypeOK'
  BY ConstantsAssumption DEF Tick, CacheInv, TypeOK
<1> QED BY <1>1 DEF Tick, CacheInv, StoredType, Listed, EntriesKeepPromises, Size,
     StatsAccountForEntries

LEMMA IdleStep ==
  ASSUME CacheInv, UNCHANGED vars
  PROVE  CacheInv'
  BY DEF vars, CacheInv, TypeOK, StoredType, Listed, EntriesKeepPromises, Size,
     StatsAccountForEntries

LEMMA CacheStep == CacheInv /\ [Next]_vars => CacheInv'
  BY AbsentStep, ExpiredStep, HitStep, ReplaceStep, AddStep, EvictStep, InvalidateStep,
     ClearStep, TickStep, IdleStep DEF Next, SetIgnored

LEMMA CacheInvariant == Spec => []CacheInv
  BY CacheInit, CacheStep, PTL DEF Spec

\* The entries, the order they are listed in and the counters have their types.
THEOREM TypeCorrect == Spec => []TypeOK
<1>1. CacheInv => TypeOK
  BY DEF CacheInv
<1> QED BY <1>1, CacheInvariant, PTL

\* The cache never holds more than maxSize entries and loses none from the scan of
\* evictLRU(), whatever is set, found expired, evicted and invalidated.
THEOREM CapacityHolds == Spec => []Bounded
<1>1. CacheInv => Bounded
  BY ListedLength DEF CacheInv, Bounded, Listed
<1> QED BY <1>1, CacheInvariant, PTL

\* Each entry that was added and not invalidated is there or was counted once.
THEOREM StatsAddUp == Spec => []StatsAccountForEntries
<1>1. CacheInv => StatsAccountForEntries
  BY DEF CacheInv
<1> QED BY <1>1, CacheInvariant, PTL

-----------------------------------------------------------------------------
(* What is evicted *)

LEMMA EvictionStep ==
  ASSUME CacheInv, NEW k \in Keys, NEW d \in Data, NEW h \in Headers, SetEvicts(k, d, h)
  PROVE  /\ Size = MaxSize
         /\ \A i \in DOMAIN cache \ DOMAIN cache', j \in DOMAIN cache :
              usedAt[i] <= usedAt[j]
<1>1. Size >= MaxSize /\ DOMAIN cache' = (DOMAIN cache \ {Victim}) \cup {k}
  BY DEF SetEvicts
<1>2. Size = MaxSize /\ Victim \in Victims
  BY <1>1, FullMap
<1>3. \A j \in DOMAIN cache : cache[j].lastAccess = usedAt[j]
  BY DEF CacheInv, EntriesKeepPromises
<1>4. \A i \in Victims, j \in DOMAIN cache : i \in DOMAIN cache /\ usedAt[i] <= usedAt[j]
  BY <1>3 DEF Victims
<1> QED BY <1>1, <1>2, <1>4

\* Only a set() that evicts counts an eviction.
LEMMA EvictionsCounted ==
  ASSUME CacheInv, Next, stats'.evictions > stats.evictions
  PROVE  \E k \in Keys, h \in Headers, d \in Data : SetEvicts(k, d, h)
<1> DEFINE Same == stats'.evictions = stats.evictions
<1>1. stats \in [hits : Nat, misses : Nat, evictions : Nat, expirations : Nat]
  BY DEF CacheInv, TypeOK
<1>2. ~ Same
  BY <1>1
<1>3. ASSUME NEW k \in Keys PROVE GetAbsent(k) \/ GetExpired(k) \/ GetHit(k) => Same
  BY <1>1 DEF GetAbsent, GetExpired, GetHit
<1>4. ASSUME NEW k \in Keys PROVE Invalidate(k) => Same
  BY DEF Invalidate
<1>5. ASSUME NEW k \in Keys, NEW h \in Headers, NEW d \in Data
      PROVE  SetReplaces(k, d, h) \/ SetAdds(k, d, h) => Same
  BY DEF SetReplaces, SetAdds
<1>6. ASSUME NEW k \in Keys, NEW h \in Headers PROVE SetIgnored(k, h) => Same
  BY DEF SetIgnored, vars
<1>7. ~ Clear
  BY <1>1 DEF Clear, ZeroStats
<1>8. Tick => Same
  BY DEF Tick
<1> HIDE DEF Same
<1> QED BY <1>2, <1>3, <1>4, <1>5, <1>6, <1>7, <1>8 DEF Next

\* An entry is only evicted when the Map is full, and none that stays was set or found
\* before it.
THEOREM LeastRecentIsEvicted == Spec => EvictsLeastRecentlyUsed
<1>1. CacheInv /\ [Next]_vars =>
        [stats'.evictions > stats.evictions =>
           /\ Size = MaxSize
           /\ \A k \in DOMAIN cache \ DOMAIN cache', j \in DOMAIN cache :
                usedAt[k] <= usedAt[j]]_vars
  <2> SUFFICES ASSUME CacheInv, Next, stats'.evictions > stats.evictions
               PROVE  /\ Size = MaxSize
                      /\ \A k \in DOMAIN cache \ DOMAIN cache', j \in DOMAIN cache :
                           usedAt[k] <= usedAt[j]
    OBVIOUS
  <2>1. PICK k \in Keys, h \in Headers, d \in Data : SetEvicts(k, d, h)
    BY EvictionsCounted
  <2> QED BY <2>1, EvictionStep
<1> QED BY <1>1, CacheInvariant, PTL DEF Spec, EvictsLeastRecentlyUsed

-----------------------------------------------------------------------------
(* The abstract cache *)

LEMMA InitMaps == Init => Abstract!Init
  BY DEF Init, Abstract!Init

LEMMA MissMaps ==
  ASSUME NEW k \in Keys, GetAbsent(k) \/ GetExpired(k)
  PROVE  Abstract!Miss
  BY DEF GetAbsent, GetExpired, Abstract!Miss

\* What is found is what was last stored under the key, and the promise still runs.
LEMMA HitMaps ==
  ASSUME CacheInv, NEW k \in Keys, GetHit(k)
  PROVE  Abstract!Hit
<1> DEFINE e == cache[k]
<1>1. k \in DOMAIN cache /\ ~Expired(e) /\ reply' = e.data /\ UNCHANGED <<now, stored>>
  BY DEF GetHit
<1>2. e \in Entry /\ now \in Nat
  BY <1>1 DEF CacheInv, TypeOK
<1>3. stored[k] = [data |-> e.data, until |-> e.timestamp + e.ttl]
  BY <1>1 DEF CacheInv, EntriesKeepPromises
<1> HIDE DEF e
<1>4. e.data \in Data /\ e.timestamp \in Nat /\ e.ttl \in Nat
  BY <1>2 DEF Entry
<1>5. stored[k].data = e.data /\ stored[k].until = e.timestamp + e.ttl
  BY <1>3
<1>6. stored[k] # Nothing
  BY <1>3, <1>4, ConstantsAssumption
<1>7. now <= stored[k].until
  BY <1>1, <1>2, <1>4, <1>5 DEF Expired
<1>8. Abstract!MayHit(k, e.data)
  BY <1>5, <1>6, <1>7 DEF Abstract!MayHit, Abstract!Live
<1> QED BY <1>1, <1>4, <1>8 DEF Abstract!Hit

LEMMA PutMaps ==
  ASSUME NEW k \in Keys, NEW d \in Data, NEW h \in Headers,
         SetReplaces(k, d, h) \/ SetAdds(k, d, h) \/ SetEvicts(k, d, h)
  PROVE  Abstract!Put
<1>1. Promise(k, d, h) /\ UNCHANGED <<now, reply>>
  BY DEF SetReplaces, SetAdds, SetEvicts
<1>2. Cacheable(k, h)
  BY DEF SetReplaces, SetAdds, SetEvicts
<1>3. Ttl(h) \in {DefaultTtl} \cup {g.maxAge : g \in Headers}
  BY <1>2 DEF Cacheable, Ttl, HeaderTtl, NoTtl
<1>4. Abstract!Store(k, d, Ttl(h))
  BY <1>1 DEF Promise, Abstract!Store
<1> QED BY <1>1, <1>3, <1>4 DEF Abstract!Put

LEMMA InvalidateMaps ==
  ASSUME NEW k \in Keys, Invalidate(k)
  PROVE  Abstract!Invalidate
  BY DEF Invalidate, Abstract!Invalidate, Abstract!Forget

LEMMA ClearMaps == Clear => Abstract!Clear
  BY DEF Clear, Abstract!Clear

LEMMA TickMaps == Tick => Abstract!Tick
  BY DEF Tick, Abstract!Tick

LEMMA StepMaps == CacheInv /\ [Next]_vars => [Abstract!Next]_(Abstract!vars)
<1> SUFFICES ASSUME CacheInv, [Next]_vars PROVE [Abstract!Next]_(Abstract!vars)
  OBVIOUS
<1>1. CASE UNCHANGED vars
  BY <1>1 DEF vars, Abstract!vars
<1>2. ASSUME NEW k \in Keys, NEW h \in Headers, SetIgnored(k, h)
      PROVE  UNCHANGED Abstract!vars
  BY <1>2 DEF SetIgnored, vars, Abstract!vars
<1> QED BY <1>1, <1>2, MissMaps, HitMaps, PutMaps, InvalidateMaps, ClearMaps, TickMaps
       DEF Next, Abstract!Next

\* Behind eviction, recency and lazy expiry the cache is the abstract one: whatever get()
\* answers is what was last set under the key, not expired and not invalidated.
THEOREM CacheRefinement == Spec => ImplementsResponseCache
  BY InitMaps, CacheInvariant, StepMaps, PTL
     DEF Spec, ImplementsResponseCache, Abstract!Spec
=============================================================================
