--------------------------- MODULE TtlCache_proofs ---------------------------
(* What the operations of cache.Cache keep, for every cache and every time. *)
EXTENDS TtlCache, TLAPS, SequenceTheorems

LEMMA RemoveAtElements ==
    ASSUME NEW S, NEW c \in Seq(S), NEW p \in DOMAIN c
    PROVE  /\ RemoveAt(c, p) \in Seq(S)
           /\ Len(RemoveAt(c, p)) = Len(c) - 1
           /\ \A i \in 1 .. (Len(c) - 1) :
                 RemoveAt(c, p)[i] = IF i < p THEN c[i] ELSE c[i + 1]
<1> DEFINE a == SubSeq(c, 1, p - 1)
           b == SubSeq(c, p + 1, Len(c))
<1>1. p \in 1 .. Len(c) /\ Len(c) \in Nat
  BY LenProperties
<1>2. a \in Seq(S) /\ Len(a) = p - 1 /\ \A i \in 1 .. (p - 1) : a[i] = c[i]
  BY <1>1, SubSeqProperties
<1>3. /\ b \in Seq(S) /\ Len(b) = Len(c) - p
      /\ \A i \in 1 .. (Len(c) - p) : b[i] = c[i + p]
  <2>1. CASE p < Len(c)
    BY <1>1, <2>1, SubSeqProperties
  <2>2. CASE p = Len(c)
    BY <1>1, <2>2, SubSeqProperties
  <2> QED BY <1>1, <2>1, <2>2
<1>4. RemoveAt(c, p) = a \o b
  BY DEF RemoveAt
<1> HIDE DEF a, b
<1>5. /\ a \o b \in Seq(S) /\ Len(a \o b) = Len(a) + Len(b)
      /\ \A i \in 1 .. (Len(a) + Len(b)) :
            (a \o b)[i] = IF i <= Len(a) THEN a[i] ELSE b[i - Len(a)]
  BY <1>2, <1>3, ConcatProperties
<1>6. Len(a) + Len(b) = Len(c) - 1 /\ Len(a) = p - 1
  BY <1>1, <1>2, <1>3
<1>7. ASSUME NEW i \in 1 .. (Len(c) - 1)
      PROVE  (a \o b)[i] = IF i < p THEN c[i] ELSE c[i + 1]
  <2>1. CASE i < p
    BY <1>1, <1>2, <1>3, <1>5, <1>6, <2>1
  <2>2. CASE ~(i < p)
    <3>1. i - Len(a) \in 1 .. (Len(c) - p) /\ (i - Len(a)) + p = i + 1
      BY <1>1, <1>6, <2>2
    <3>2. b[i - Len(a)] = c[i + 1]
      BY <1>3, <3>1
    <3> QED BY <1>1, <1>5, <1>6, <2>2, <3>2
  <2> QED BY <2>1, <2>2
<1> QED BY <1>4, <1>5, <1>6, <1>7

\* Popping a key leaves a cache without it and touches no other entry.
LEMMA PoppedEntries ==
    ASSUME NEW K, NEW V, NEW c, IsCache(c, K, V), NEW k
    PROVE  /\ IsCache(Popped(c, k), K, V)
           /\ \A i \in DOMAIN Popped(c, k) :
                 \E j \in DOMAIN c : Popped(c, k)[i] = c[j] /\ c[j].key # k
           /\ \A j \in DOMAIN c : c[j].key # k =>
                 \E i \in DOMAIN Popped(c, k) : Popped(c, k)[i] = c[j]
<1> DEFINE p == Position(c, k)
           d == RemoveAt(c, p)
<1>1. CASE k \notin Keys(c)
  BY <1>1 DEF Popped, Keys, IsCache
<1>2. CASE k \in Keys(c)
  <2>1. p \in DOMAIN c /\ c[p].key = k
    BY <1>2 DEF Keys, Position
  <2>2. c \in Seq(Entry(K, V)) /\ DOMAIN c = 1 .. Len(c) /\ Len(c) \in Nat
    BY LenProperties DEF IsCache
  <2>3. Popped(c, k) = d
    BY <1>2 DEF Popped
  <2>4. /\ d \in Seq(Entry(K, V)) /\ Len(d) = Len(c) - 1
        /\ \A i \in 1 .. (Len(c) - 1) : d[i] = IF i < p THEN c[i] ELSE c[i + 1]
    BY <2>1, <2>2, RemoveAtElements
  <2>5. DOMAIN d = 1 .. (Len(c) - 1)
    BY <2>4, LenProperties
  <2> HIDE DEF d, p
  <2>6. \A i \in 1 .. (Len(c) - 1) : \E j \in 1 .. Len(c) :
           d[i] = c[j] /\ j # p /\ j = IF i < p THEN i ELSE i + 1
    BY <2>1, <2>2, <2>4
  <2>7. \A i, j \in DOMAIN c : c[i].key = c[j].key => i = j
    BY DEF IsCache
  <2>8. \A i, j \in DOMAIN d : d[i].key = d[j].key => i = j
    <3> SUFFICES ASSUME NEW i \in DOMAIN d, NEW j \in DOMAIN d, d[i].key = d[j].key
                 PROVE  i = j
      OBVIOUS
    <3>1. PICK x \in 1 .. Len(c) : d[i] = c[x] /\ x = IF i < p THEN i ELSE i + 1
      BY <2>5, <2>6
    <3>2. PICK y \in 1 .. Len(c) : d[j] = c[y] /\ y = IF j < p THEN j ELSE j + 1
      BY <2>5, <2>6
    <3>3. x = y
      BY <2>2, <2>7, <3>1, <3>2
    <3> QED BY <2>1, <2>2, <2>5, <3>1, <3>2, <3>3
  <2>9. \A i \in DOMAIN d : \E j \in DOMAIN c : d[i] = c[j] /\ c[j].key # k
    BY <2>1, <2>2, <2>5, <2>6, <2>7
  <2>10. ASSUME NEW j \in DOMAIN c, c[j].key # k
         PROVE  \E i \in DOMAIN d : d[i] = c[j]
    <3>1. j # p /\ j \in 1 .. Len(c) /\ p \in 1 .. Len(c)
      BY <2>1, <2>2, <2>10
    <3>2. CASE j < p
      <4>1. j \in 1 .. (Len(c) - 1)
        BY <2>2, <3>1, <3>2
      <4> QED BY <2>4, <2>5, <3>2, <4>1
    <3>3. CASE ~(j < p)
      <4>1. j - 1 \in 1 .. (Len(c) - 1) /\ ~(j - 1 < p) /\ (j - 1) + 1 = j
        BY <2>2, <3>1, <3>3
      <4> QED BY <2>4, <2>5, <4>1
    <3> QED BY <3>2, <3>3
  <2>11. IsCache(d, K, V)
    BY <2>4, <2>8 DEF IsCache
  <2> QED BY <2>3, <2>9, <2>10, <2>11
<1> QED BY <1>1, <1>2

\* Cleaning drops the first entry if its time has passed, and nothing else.
LEMMA CleanedEntries ==
    ASSUME NEW K, NEW V, NEW c, IsCache(c, K, V), NEW now \in Int
    PROVE  /\ IsCache(Cleaned(c, now), K, V)
           /\ \A i \in DOMAIN Cleaned(c, now) :
                 \E j \in DOMAIN c : Cleaned(c, now)[i] = c[j]
           /\ \A j \in DOMAIN c : j # 1 \/ ~(now > c[j].until) =>
                 \E i \in DOMAIN Cleaned(c, now) : Cleaned(c, now)[i] = c[j]
<1>1. c \in Seq(Entry(K, V)) /\ DOMAIN c = 1 .. Len(c) /\ Len(c) \in Nat
  BY LenProperties DEF IsCache
<1>2. CASE c # <<>> /\ now > c[1].until
  <2> DEFINE d == Tail(c)
  <2>1. Cleaned(c, now) = d
    BY <1>2 DEF Cleaned
  <2>2. /\ d \in Seq(Entry(K, V)) /\ Len(d) = Len(c) - 1
        /\ \A i \in 1 .. Len(d) : d[i] = c[i + 1]
    BY <1>1, <1>2, HeadTailProperties
  <2>3. DOMAIN d = 1 .. (Len(c) - 1) /\ Len(c) >= 1
    BY <1>1, <1>2, <2>2, LenProperties, EmptySeq
  <2> HIDE DEF d
  <2>4. \A i \in DOMAIN d : i + 1 \in DOMAIN c /\ d[i] = c[i + 1]
    BY <1>1, <2>2, <2>3
  <2>5. IsCache(d, K, V)
    <3>1. \A i, j \in DOMAIN c : c[i].key = c[j].key => i = j
      BY DEF IsCache
    <3>2. \A i, j \in DOMAIN d : d[i].key = d[j].key => i = j
      BY <2>3, <2>4, <3>1
    <3> QED BY <2>2, <3>2 DEF IsCache
  <2>6. \A j \in DOMAIN c : j # 1 => (j - 1) \in DOMAIN d /\ d[j - 1] = c[j]
    BY <1>1, <2>2, <2>3
  <2> QED BY <1>1, <1>2, <2>1, <2>3, <2>4, <2>5, <2>6
<1>3. CASE ~(c # <<>> /\ now > c[1].until)
  BY <1>3 DEF Cleaned
<1> QED BY <1>2, <1>3

LEMMA AppendedEntries ==
    ASSUME NEW K, NEW V, NEW c, IsCache(c, K, V),
           NEW e \in Entry(K, V), \A i \in DOMAIN c : c[i].key # e.key
    PROVE  /\ IsCache(Append(c, e), K, V)
           /\ DOMAIN Append(c, e) = 1 .. (Len(c) + 1)
           /\ DOMAIN c = 1 .. Len(c)
           /\ Append(c, e)[Len(c) + 1] = e
           /\ \A i \in DOMAIN c : Append(c, e)[i] = c[i]
<1> DEFINE d == Append(c, e)
<1>1. c \in Seq(Entry(K, V)) /\ DOMAIN c = 1 .. Len(c) /\ Len(c) \in Nat
  BY LenProperties DEF IsCache
<1>2. /\ d \in Seq(Entry(K, V)) /\ Len(d) = Len(c) + 1
      /\ \A i \in 1 .. Len(c) : d[i] = c[i]
      /\ d[Len(c) + 1] = e
  BY <1>1, AppendProperties
<1>3. DOMAIN d = 1 .. (Len(c) + 1)
  BY <1>2, LenProperties
<1> HIDE DEF d
<1>4. \A i, j \in DOMAIN d : d[i].key = d[j].key => i = j
  <2>1. \A i, j \in DOMAIN c : c[i].key = c[j].key => i = j
    BY DEF IsCache
  <2> QED BY <1>1, <1>2, <1>3, <2>1
<1>5. IsCache(d, K, V)
  BY <1>2, <1>4 DEF IsCache
<1> QED BY <1>1, <1>2, <1>3, <1>5 DEF d

(***************************************************************************)
(* Setting a key: afterwards it is found with its new value; every other    *)
(* entry whose time has not passed is still there, unchanged; nothing but    *)
(* the new entry is added.  So one key's traffic never makes the cache       *)
(* forget another key early, although set drops an entry it was not asked   *)
(* about.                                                                   *)
(***************************************************************************)
THEOREM StoredEntries ==
    ASSUME NEW K, NEW V, NEW c, IsCache(c, K, V),
           NEW k \in K, NEW v \in V, NEW now \in Int, NEW ttl \in Int
    PROVE  LET d == Stored(c, k, v, now, ttl)
               e == [key |-> k, value |-> v, until |-> now + ttl]
           IN  /\ IsCache(d, K, V)
               /\ \E i \in DOMAIN d : d[i] = e
               /\ \A i \in DOMAIN d :
                     d[i] = e \/ \E j \in DOMAIN c : d[i] = c[j] /\ c[j].key # k
               /\ \A j \in DOMAIN c : c[j].key # k /\ now <= c[j].until =>
                     \E i \in DOMAIN d : d[i] = c[j]
<1> DEFINE b == Cleaned(c, now)
           p == Popped(b, k)
           e == [key |-> k, value |-> v, until |-> now + ttl]
           d == Append(p, e)
<1>1. /\ IsCache(b, K, V)
      /\ \A i \in DOMAIN b : \E j \in DOMAIN c : b[i] = c[j]
      /\ \A j \in DOMAIN c : ~(now > c[j].until) => \E i \in DOMAIN b : b[i] = c[j]
  BY CleanedEntries
<1>2. /\ IsCache(p, K, V)
      /\ \A i \in DOMAIN p : \E j \in DOMAIN b : p[i] = b[j] /\ b[j].key # k
      /\ \A j \in DOMAIN b : b[j].key # k => \E i \in DOMAIN p : p[i] = b[j]
  <2> HIDE DEF b
  <2> QED BY <1>1, PoppedEntries
<1>3. Stored(c, k, v, now, ttl) = d
  BY DEF Stored
<1> HIDE DEF b, p
<1>4. e \in Entry(K, V) /\ e.key = k
  BY DEF Entry
<1>5. \A i \in DOMAIN p : p[i].key # k
  BY <1>2
<1>6. /\ IsCache(d, K, V) /\ DOMAIN d = 1 .. (Len(p) + 1) /\ DOMAIN p = 1 .. Len(p)
      /\ d[Len(p) + 1] = e /\ \A i \in DOMAIN p : d[i] = p[i]
  <2> HIDE DEF e
  <2> QED BY <1>2, <1>4, <1>5, AppendedEntries
<1>7. Len(p) \in Nat
  BY <1>2, LenProperties DEF IsCache
<1> HIDE DEF d, e
<1>8. DOMAIN p \subseteq DOMAIN d /\ Len(p) + 1 \in DOMAIN d
  BY <1>6, <1>7
<1>9. \A i \in DOMAIN d : i \in DOMAIN p \/ i = Len(p) + 1
  BY <1>6, <1>7
<1>10. \A i \in DOMAIN d : d[i] = e \/ \E j \in DOMAIN c : d[i] = c[j] /\ c[j].key # k
  BY <1>1, <1>2, <1>6, <1>9
<1>11. ASSUME NEW j \in DOMAIN c, c[j].key # k, now <= c[j].until
       PROVE  \E i \in DOMAIN d : d[i] = c[j]
  <2>1. c[j].until \in Int
    <3>1. c \in Seq(Entry(K, V)) /\ j \in 1 .. Len(c)
      BY LenProperties DEF IsCache
    <3>2. c[j] \in Entry(K, V)
      BY <3>1, ElementOfSeq
    <3> QED BY <3>2 DEF Entry
  <2>2. PICK x \in DOMAIN b : b[x] = c[j]
    BY <1>1, <1>11, <2>1
  <2>3. PICK y \in DOMAIN p : p[y] = b[x]
    BY <1>2, <1>11, <2>2
  <2> QED BY <1>6, <1>8, <2>2, <2>3
<1>12. \E i \in DOMAIN d : d[i] = e
  BY <1>6, <1>8
<1> QED BY <1>3, <1>6, <1>10, <1>11, <1>12 DEF e

\* A key is found under at most one position: what was set is what get returns.
LEMMA LookupFinds ==
    ASSUME NEW K, NEW V, NEW c, IsCache(c, K, V), NEW i \in DOMAIN c, NEW default
    PROVE  Lookup(c, c[i].key, default) = c[i].value
<1>1. c[i].key \in Keys(c)
  BY DEF Keys
<1>2. Position(c, c[i].key) \in DOMAIN c /\ c[Position(c, c[i].key)].key = c[i].key
  BY DEF Position
<1>3. Position(c, c[i].key) = i
  BY <1>2 DEF IsCache
<1> QED BY <1>1, <1>3 DEF Lookup

\* a's entry is older than b's: a was set before b and neither was popped since.
Before(c, a, b) == \E i, j \in DOMAIN c : i < j /\ c[i].key = a /\ c[j].key = b

\* An entry is at one position only, and a key that has expired first is not after another.
LEMMA BeforeFirst ==
    ASSUME NEW K, NEW V, NEW c, IsCache(c, K, V), NEW a, NEW b, Before(c, a, b)
    PROVE  a # b /\ a \in Keys(c) /\ b \in Keys(c) /\ c # <<>> /\ b # c[1].key
<1>1. c \in Seq(Entry(K, V)) /\ DOMAIN c = 1 .. Len(c) /\ Len(c) \in Nat
  BY LenProperties DEF IsCache
<1>2. PICK i, j \in DOMAIN c : i < j /\ c[i].key = a /\ c[j].key = b
  BY DEF Before
<1>3. 1 \in DOMAIN c /\ c # <<>> /\ j # 1 /\ i # j
  BY <1>1, <1>2
<1> QED BY <1>2, <1>3 DEF IsCache, Keys

\* Popping a key leaves the order of the others.
LEMMA PoppedBefore ==
    ASSUME NEW K, NEW V, NEW c, IsCache(c, K, V), NEW k, NEW a, NEW b
    PROVE  Before(Popped(c, k), a, b) <=> Before(c, a, b) /\ a # k /\ b # k
<1> DEFINE p == Position(c, k)
           d == RemoveAt(c, p)
<1>1. CASE k \notin Keys(c)
  <2>1. Popped(c, k) = c
    BY <1>1 DEF Popped
  <2>2. Before(c, a, b) => a # k /\ b # k
    BY <1>1, BeforeFirst
  <2> QED BY <2>1, <2>2
<1>2. CASE k \in Keys(c)
  <2>1. p \in DOMAIN c /\ c[p].key = k
    BY <1>2 DEF Keys, Position
  <2>2. c \in Seq(Entry(K, V)) /\ DOMAIN c = 1 .. Len(c) /\ Len(c) \in Nat
    BY LenProperties DEF IsCache
  <2>3. Popped(c, k) = d
    BY <1>2 DEF Popped
  <2>4. /\ d \in Seq(Entry(K, V)) /\ Len(d) = Len(c) - 1
        /\ \A i \in 1 .. (Len(c) - 1) : d[i] = IF i < p THEN c[i] ELSE c[i + 1]
    BY <2>1, <2>2, RemoveAtElements
  <2>5. DOMAIN d = 1 .. (Len(c) - 1)
    BY <2>4, LenProperties
  <2> HIDE DEF d, p
  <2>6. \A i, j \in DOMAIN c : c[i].key = c[j].key => i = j
    BY DEF IsCache
  <2>7. ASSUME Before(d, a, b)
        PROVE  Before(c, a, b) /\ a # k /\ b # k
    <3>1. PICK i, j \in DOMAIN d : i < j /\ d[i].key = a /\ d[j].key = b
      BY <2>7 DEF Before
    <3> DEFINE x == IF i < p THEN i ELSE i + 1
               y == IF j < p THEN j ELSE j + 1
    <3>2. x \in DOMAIN c /\ y \in DOMAIN c /\ x < y /\ x # p /\ y # p
      BY <2>1, <2>2, <2>5, <3>1
    <3>3. d[i] = c[x] /\ d[j] = c[y]
      BY <2>4, <2>5, <3>1
    <3> HIDE DEF x, y
    <3> QED BY <2>1, <2>6, <3>1, <3>2, <3>3 DEF Before
  <2>8. ASSUME Before(c, a, b), a # k, b # k
        PROVE  Before(d, a, b)
    <3>1. PICK i, j \in DOMAIN c : i < j /\ c[i].key = a /\ c[j].key = b
      BY <2>8 DEF Before
    <3> DEFINE x == IF i < p THEN i ELSE i - 1
               y == IF j < p THEN j ELSE j - 1
    <3>2. i # p /\ j # p
      BY <2>1, <2>8, <3>1
    <3>3. x \in DOMAIN d /\ y \in DOMAIN d /\ x < y
      BY <2>1, <2>2, <2>5, <3>1, <3>2
    <3>4. d[x] = c[i]
      BY <2>1, <2>2, <2>4, <2>5, <3>1, <3>2, <3>3
    <3>5. d[y] = c[j]
      BY <2>1, <2>2, <2>4, <2>5, <3>1, <3>2, <3>3
    <3> HIDE DEF x, y
    <3> QED BY <3>1, <3>3, <3>4, <3>5 DEF Before
  <2> QED BY <2>3, <2>7, <2>8
<1> QED BY <1>1, <1>2

\* The first entry, when its time has passed.
Expired(c, k, now) == c # <<>> /\ c[1].key = k /\ now > c[1].until

\* Cleaning loses the expired first key and leaves the order of the others.
LEMMA CleanedBefore ==
    ASSUME NEW K, NEW V, NEW c, IsCache(c, K, V), NEW now \in Int
    PROVE  /\ \A k : k \in Keys(Cleaned(c, now)) <=> k \in Keys(c) /\ ~Expired(c, k, now)
           /\ \A a, b : Before(Cleaned(c, now), a, b) <=> Before(c, a, b) /\ ~Expired(c, a, now)
<1>1. c \in Seq(Entry(K, V)) /\ DOMAIN c = 1 .. Len(c) /\ Len(c) \in Nat
  BY LenProperties DEF IsCache
<1>2. CASE c # <<>> /\ now > c[1].until
  <2> DEFINE d == Tail(c)
  <2>1. Cleaned(c, now) = d
    BY <1>2 DEF Cleaned
  <2>2. /\ d \in Seq(Entry(K, V)) /\ Len(d) = Len(c) - 1
        /\ \A i \in 1 .. Len(d) : d[i] = c[i + 1]
    BY <1>1, <1>2, HeadTailProperties
  <2>3. DOMAIN d = 1 .. (Len(c) - 1) /\ Len(c) >= 1
    BY <1>1, <1>2, <2>2, LenProperties, EmptySeq
  <2> HIDE DEF d
  <2>4. \A i \in DOMAIN d : i + 1 \in DOMAIN c /\ i + 1 # 1 /\ d[i] = c[i + 1]
    BY <1>1, <2>2, <2>3
  <2>5. \A j \in DOMAIN c : j # 1 => (j - 1) \in DOMAIN d /\ d[j - 1] = c[j]
    BY <1>1, <2>2, <2>3
  <2>6. \A k : Expired(c, k, now) <=> k = c[1].key
    BY <1>2 DEF Expired
  <2>7. \A i, j \in DOMAIN c : c[i].key = c[j].key => i = j
    BY DEF IsCache
  <2>8. 1 \in DOMAIN c
    BY <1>1, <2>3
  <2>9. \A k : k \in Keys(d) <=> k \in Keys(c) /\ k # c[1].key
    BY <2>4, <2>5, <2>7, <2>8 DEF Keys
  <2>10. ASSUME NEW a, NEW b, Before(d, a, b)
         PROVE  Before(c, a, b) /\ a # c[1].key
    <3>1. PICK i, j \in DOMAIN d : i < j /\ d[i].key = a /\ d[j].key = b
      BY <2>10 DEF Before
    <3>2. i + 1 < j + 1
      BY <2>3, <3>1
    <3> QED BY <2>4, <2>7, <2>8, <3>1, <3>2 DEF Before
  <2>11. ASSUME NEW a, NEW b, Before(c, a, b), a # c[1].key
         PROVE  Before(d, a, b)
    <3>1. PICK i, j \in DOMAIN c : i < j /\ c[i].key = a /\ c[j].key = b
      BY <2>11 DEF Before
    <3>2. i # 1 /\ j # 1 /\ i - 1 < j - 1
      BY <1>1, <2>11, <3>1
    <3> QED BY <2>5, <3>1, <3>2 DEF Before
  <2> QED BY <2>1, <2>6, <2>9, <2>10, <2>11
<1>3. CASE ~(c # <<>> /\ now > c[1].until)
  BY <1>3 DEF Cleaned, Expired
<1> QED BY <1>2, <1>3

\* A new key is after all the others.
LEMMA AppendedBefore ==
    ASSUME NEW K, NEW V, NEW c, IsCache(c, K, V),
           NEW e \in Entry(K, V), \A i \in DOMAIN c : c[i].key # e.key, NEW a, NEW b
    PROVE  /\ Keys(Append(c, e)) = Keys(c) \cup {e.key}
           /\ Before(Append(c, e), a, b) <=> Before(c, a, b) \/ (a \in Keys(c) /\ b = e.key)
<1> DEFINE d == Append(c, e)
<1>1. /\ DOMAIN d = 1 .. (Len(c) + 1) /\ DOMAIN c = 1 .. Len(c) /\ Len(c) \in Nat
      /\ d[Len(c) + 1] = e /\ \A i \in DOMAIN c : d[i] = c[i]
  BY AppendedEntries, LenProperties DEF IsCache
<1> HIDE DEF d
<1>2. /\ \A i \in DOMAIN d : i \in DOMAIN c \/ i = Len(c) + 1
      /\ \A i \in DOMAIN c : i \in DOMAIN d /\ i < Len(c) + 1
      /\ Len(c) + 1 \in DOMAIN d
  BY <1>1
<1>3. Keys(d) = Keys(c) \cup {e.key}
  BY <1>1, <1>2 DEF Keys
<1>4. ASSUME Before(d, a, b)
      PROVE  Before(c, a, b) \/ (a \in Keys(c) /\ b = e.key)
  <2>1. PICK i, j \in DOMAIN d : i < j /\ d[i].key = a /\ d[j].key = b
    BY <1>4 DEF Before
  <2>2. i \in DOMAIN c
    BY <1>1, <2>1
  <2>3. CASE j \in DOMAIN c
    BY <1>1, <2>1, <2>2, <2>3 DEF Before
  <2>4. CASE j = Len(c) + 1
    BY <1>1, <2>1, <2>2, <2>4 DEF Keys
  <2> QED BY <1>2, <2>3, <2>4
<1>5. ASSUME Before(c, a, b) PROVE Before(d, a, b)
  BY <1>1, <1>2, <1>5 DEF Before
<1>6. ASSUME a \in Keys(c), b = e.key PROVE Before(d, a, b)
  BY <1>1, <1>2, <1>6 DEF Before, Keys
<1> QED BY <1>3, <1>4, <1>5, <1>6 DEF d

\* Popping a key takes that key and no other.
LEMMA PoppedKeys ==
    ASSUME NEW K, NEW V, NEW c, IsCache(c, K, V), NEW k
    PROVE  Keys(Popped(c, k)) = Keys(c) \ {k}
<1>1. /\ \A i \in DOMAIN Popped(c, k) :
            \E j \in DOMAIN c : Popped(c, k)[i] = c[j] /\ c[j].key # k
      /\ \A j \in DOMAIN c : c[j].key # k =>
            \E i \in DOMAIN Popped(c, k) : Popped(c, k)[i] = c[j]
  BY PoppedEntries
<1> QED BY <1>1 DEF Keys

(***************************************************************************)
(* The order of the keys after a set: the key set last is last, an expired  *)
(* first key is gone, and the others stay in the order they were in.        *)
(***************************************************************************)
THEOREM StoredBefore ==
    ASSUME NEW K, NEW V, NEW c, IsCache(c, K, V),
           NEW k \in K, NEW v \in V, NEW now \in Int, NEW ttl \in Int
    PROVE  LET d == Stored(c, k, v, now, ttl)
               kept == {x \in Keys(c) : x # k /\ ~Expired(c, x, now)}
           IN  /\ Keys(d) = kept \cup {k}
               /\ \A a, b : Before(d, a, b) <=> a \in kept /\ (b = k \/ (b # k /\ Before(c, a, b)))
<1> DEFINE m == Cleaned(c, now)
           p == Popped(m, k)
           e == [key |-> k, value |-> v, until |-> now + ttl]
           d == Append(p, e)
           kept == {x \in Keys(c) : x # k /\ ~Expired(c, x, now)}
<1>1. /\ IsCache(m, K, V)
      /\ \A x : x \in Keys(m) <=> x \in Keys(c) /\ ~Expired(c, x, now)
      /\ \A a, b : Before(m, a, b) <=> Before(c, a, b) /\ ~Expired(c, a, now)
  BY CleanedEntries, CleanedBefore
<1>2. IsCache(p, K, V) /\ Keys(p) = Keys(m) \ {k}
  <2> HIDE DEF m
  <2> QED BY <1>1, PoppedEntries, PoppedKeys
<1>3. \A a, b : Before(p, a, b) <=> Before(m, a, b) /\ a # k /\ b # k
  <2> HIDE DEF m
  <2> QED BY <1>1, PoppedBefore
<1>4. Stored(c, k, v, now, ttl) = d
  BY DEF Stored
<1>5. Keys(p) = kept
  BY <1>1, <1>2
<1> HIDE DEF m, p
<1>6. e \in Entry(K, V) /\ e.key = k
  BY DEF Entry
<1>7. \A i \in DOMAIN p : p[i].key # e.key
  BY <1>5, <1>6 DEF Keys
<1> HIDE DEF e
<1>8. /\ Keys(d) = kept \cup {k}
      /\ \A a, b : Before(d, a, b) <=> Before(p, a, b) \/ (a \in kept /\ b = k)
  BY <1>2, <1>5, <1>6, <1>7, AppendedBefore
<1>9. \A a, b : Before(p, a, b) => a \in kept
  BY <1>2, <1>5, BeforeFirst
<1> HIDE DEF d, kept
<1>10. \A a, b : Before(d, a, b) <=> a \in kept /\ (b = k \/ (b # k /\ Before(c, a, b)))
  <2>1. \A a : a \in kept => a # k /\ ~Expired(c, a, now)
    BY DEF kept
  <2> QED BY <1>1, <1>3, <1>8, <1>9, <2>1
<1> QED BY <1>4, <1>8, <1>10 DEF kept

LEMMA EntryType ==
    ASSUME NEW K, NEW V, NEW c, IsCache(c, K, V), NEW i \in DOMAIN c
    PROVE  c[i].key \in K /\ c[i].value \in V /\ c[i].until \in Int
<1>1. c \in Seq(Entry(K, V)) /\ i \in 1 .. Len(c)
  BY LenProperties DEF IsCache
<1>2. c[i] \in Entry(K, V)
  BY <1>1, ElementOfSeq
<1> QED BY <1>2 DEF Entry

LEMMA KeysType ==
    ASSUME NEW K, NEW V, NEW c, IsCache(c, K, V)
    PROVE  Keys(c) \subseteq K
BY EntryType DEF Keys

\* A cache with an entry has a first one, and every other is after it.
LEMMA FirstInDomain ==
    ASSUME NEW K, NEW V, NEW c, IsCache(c, K, V)
    PROVE  /\ c # <<>> => 1 \in DOMAIN c
           /\ \A i \in DOMAIN c : c # <<>> /\ (i = 1 \/ 1 < i)
<1>1. c \in Seq(Entry(K, V)) /\ DOMAIN c = 1 .. Len(c) /\ Len(c) \in Nat
  BY LenProperties DEF IsCache
<1>2. c # <<>> => Len(c) # 0
  BY <1>1, EmptySeq
<1>3. DOMAIN c # {} => c # <<>>
  OBVIOUS
<1> QED BY <1>1, <1>2, <1>3
=============================================================================
