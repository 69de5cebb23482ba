--------------------------- MODULE ObsCacheProofs ---------------------------
(***************************************************************************)
(* Proofs about ObsCache, for every size of the two caches and every width *)
(* of the cursors, the counters and the ticks.                             *)
(*                                                                         *)
(* Both caches are rings: the slots up to the cursor hold the keys in the  *)
(* order of their insertion.  A cursor wraps at a multiple of the size of  *)
(* its cache, so that an insertion moves every place but its own along     *)
(* (PlacesKept).  The counters wrap too: their difference is a multiple of *)
(* their width, and so stays what it is modulo it.                         *)
(***************************************************************************)
EXTENDS ObsCache, FiniteSetTheorems, SequenceTheorems, TLAPS

-----------------------------------------------------------------------------
(* Arithmetic of counters that wrap *)

LEMMA DivModFacts ==
    ASSUME NEW M \in Nat \ {0}, NEW a \in Int
    PROVE  /\ a % M \in 0..(M - 1) /\ a \div M \in Int
           /\ a = M * (a \div M) + (a % M)
  OBVIOUS

\* A multiple of M other than zero is not near zero.
LEMMA Below ==
    ASSUME NEW M \in Nat \ {0}, NEW k \in Int, k # 0, NEW d \in Int, d = M * k
    PROVE  d >= M \/ d <= -M
<1>1. CASE k >= 1
  <2>1. M * k >= M
    BY <1>1
  <2>2. QED
    BY <2>1
<1>2. CASE k <= -1
  <2>1. M * k <= -M
    BY <1>2
  <2>2. QED
    BY <2>1
<1>3. QED
  BY <1>1, <1>2

\* A remainder is known from any division that leaves it.
LEMMA ModUnique ==
    ASSUME NEW M \in Nat \ {0}, NEW a \in Int, NEW q \in Int, NEW r \in 0..(M - 1),
           a = M * q + r
    PROVE  a % M = r
<1> DEFINE q2 == a \div M
           r2 == a % M
<1>1. r2 \in 0..(M-1) /\ q2 \in Int /\ a = M * q2 + r2
  BY DivModFacts
<1> HIDE DEF q2, r2
<1>2. M * (q - q2) = r2 - r
  <2>1. M * (q - q2) = M * q - M * q2
    BY <1>1
  <2>2. M * q \in Int /\ M * q2 \in Int
    BY <1>1
  <2>3. QED
    BY <1>1, <2>1, <2>2
<1>3. q - q2 = 0
  <2>1. SUFFICES ASSUME q - q2 # 0 PROVE FALSE
    OBVIOUS
  <2>2. q - q2 \in Int
    BY <1>1
  <2>3. r2 - r >= M \/ r2 - r <= -M
    BY <1>1, <1>2, <2>1, <2>2, Below
  <2>4. QED
    BY <1>1, <2>3
<1>4. r2 = r
  BY <1>1, <1>2, <1>3
<1>5. QED
  BY <1>4 DEF r2

\* A summand may be reduced first.
LEMMA ModAdd ==
    ASSUME NEW M \in Nat \ {0}, NEW a \in Int, NEW b \in Int
    PROVE  (a + (b % M)) % M = (a + b) % M
<1> DEFINE rb == b % M
           qb == b \div M
           s == a + rb
           qs == s \div M
           rs == s % M
<1>1. rb \in 0..(M-1) /\ qb \in Int /\ b = M * qb + rb
  BY DivModFacts
<1> HIDE DEF rb, qb
<1>2. s \in Int
  BY <1>1
<1>3. rs \in 0..(M-1) /\ qs \in Int /\ s = M * qs + rs
  BY <1>2, DivModFacts
<1> HIDE DEF rs, qs
<1>4. a + b = M * (qs + qb) + rs
  <2>1. M * (qs + qb) = M * qs + M * qb
    BY <1>1, <1>3
  <2>2. M * qs \in Int /\ M * qb \in Int
    BY <1>1, <1>3
  <2>3. QED
    BY <1>1, <1>3, <2>1, <2>2
<1>a. a + b \in Int /\ qs + qb \in Int
  BY <1>1, <1>3
<1> HIDE DEF s
<1>5. (a + b) % M = rs
  BY <1>3, <1>4, <1>a, ModUnique
<1>6. QED
  BY <1>5 DEF rs, rb, s

-----------------------------------------------------------------------------
(* Cursors and rings *)

\* A cursor points to the same slot a round later.
LEMMA NextRound ==
    ASSUME NEW N \in Nat \ {0}, NEW c \in Nat
    PROVE  (c + N) % N = c % N
<1> DEFINE q == c \div N
           r == c % N
<1>1. q \in Int /\ r \in 0..(N - 1) /\ c = N * q + r
  BY DivModFacts
<1> HIDE DEF q, r
<1>2. c + N = N * (q + 1) + r /\ q + 1 \in Int
  <2>1. N * (q + 1) = N * q + N /\ N * q \in Int
    BY <1>1
  <2>2. QED
    BY <1>1, <2>1
<1>3. c + N \in Int
  OBVIOUS
<1>4. (c + N) % N = r
  BY <1>1, <1>2, <1>3, ModUnique
<1>5. QED
  BY <1>4 DEF r

\* .. and to another slot before.
LEMMA SlotsApart ==
    ASSUME NEW N \in Nat \ {0}, NEW c \in Nat, NEW d \in 1..(N - 1)
    PROVE  (c + d) % N # c % N
<1> DEFINE q == c \div N
           r == c % N
           e == c + d
           q2 == e \div N
           r2 == e % N
<1>1. q \in Int /\ r \in 0..(N - 1) /\ c = N * q + r
  BY DivModFacts
<1>a. e \in Int /\ e = c + d
  OBVIOUS
<1>2. q2 \in Int /\ r2 \in 0..(N - 1) /\ e = N * q2 + r2
  BY <1>a, DivModFacts
<1> HIDE DEF q, r, q2, r2, e
<1>3. SUFFICES ASSUME r2 = r PROVE FALSE
  BY DEF r2, r, e
<1>4. d = N * (q2 - q) /\ q2 - q \in Int
  <2>1. N * (q2 - q) = N * q2 - N * q /\ N * q2 \in Int /\ N * q \in Int
    BY <1>1, <1>2
  <2>2. QED
    BY <1>1, <1>2, <1>3, <1>a, <2>1
<1>5. q2 - q # 0
  <2>1. N * 0 = 0
    OBVIOUS
  <2>2. QED
    BY <1>4, <2>1
<1>6. d >= N \/ d <= -N
  BY <1>4, <1>5, Below
<1>7. QED
  BY <1>6

\* The cursor wraps at a multiple of the size of the cache.
Wrapping(N, M, c, x) ==
    /\ N \in Nat \ {0} /\ M \in Nat \ {0} /\ M % N = 0
    /\ c \in 0..(M - 1) /\ x \in Nat

LEMMA CursorWraps ==
    ASSUME NEW N, NEW M, NEW c, NEW x, Wrapping(N, M, c, x)
    PROVE  /\ (c + 1) % M \in 0..(M - 1)
           /\ (((c + 1) % M) + x) % N = (c + 1 + x) % N
<1> USE DEF Wrapping
<1>1. CASE c + 1 < M
  BY <1>1
<1>2. CASE c + 1 = M
  <2> DEFINE q == M \div N
             q2 == x \div N
             r == x % N
  <2>1. q \in Int /\ M = N * q
    BY DivModFacts
  <2>2. q2 \in Int /\ r \in 0..(N - 1) /\ x = N * q2 + r
    BY DivModFacts
  <2> HIDE DEF q, q2, r
  <2>3. M + x = N * (q + q2) + r /\ q + q2 \in Int /\ M + x \in Int
    <3>1. N * (q + q2) = N * q + N * q2 /\ N * q \in Int /\ N * q2 \in Int
      BY <2>1, <2>2
    <3>2. QED
      BY <2>1, <2>2, <3>1
  <2>4. (M + x) % N = r
    BY <2>2, <2>3, ModUnique
  <2>5. (c + 1) % M = 0
    BY <1>2
  <2>6. QED
    BY <1>2, <2>4, <2>5 DEF r
<1>3. QED
  BY <1>1, <1>2

\* What both caches are: up to the cursor, the slots hold the keys of a queue,
\* and no other slot is in use.
Ring(cursor, size, used, key, q) ==
    /\ used \subseteq 0..(size - 1)
    /\ Len(q) = Cardinality(used)
    /\ \A k \in 1..Len(q) : key[Place(cursor, size, Len(q), k)] = q[k]
    /\ \A i \in used : \E k \in 1..Len(q) : i = Place(cursor, size, Len(q), k)

LEMMA RingFacts ==
    ASSUME NEW size \in Nat \ {0}, NEW used \in SUBSET (0..(size - 1))
    PROVE  /\ IsFiniteSet(used) /\ Cardinality(used) \in 0..size
           /\ Cardinality(used) = size => used = 0..(size - 1)
           /\ \A s \in 0..(size - 1) :
                 s \notin used => Cardinality(used \cup {s}) = Cardinality(used) + 1
<1>1. IsFiniteSet(0..(size - 1)) /\ Cardinality(0..(size - 1)) = size
  BY FS_Interval
<1>2. IsFiniteSet(used) /\ Cardinality(used) <= size
      /\ (Cardinality(used) = size => used = 0..(size - 1))
  BY <1>1, FS_Subset
<1>3. Cardinality(used) \in Nat
  BY <1>2, FS_CardinalityType
<1>4. QED
  BY <1>2, <1>3, FS_AddElement

\* Which key the k-th oldest was before an insertion.
Before(k, n, size) == IF n = size THEN k + 1 ELSE k

\* The places of the keys before and after an insertion.
LEMMA Distances ==
    ASSUME NEW size \in Nat \ {0}, NEW n \in 0..size, NEW c \in Nat,
           NEW m, m = IF n = size THEN size ELSE n + 1
    PROVE  /\ \A k \in 1..m :
                /\ size - m + k - 1 \in 0..(size - 1)
                /\ k = m => c + 1 + (size - m + k - 1) = c + size
                /\ k # m =>
                     LET j == IF n = size THEN k + 1 ELSE k
                     IN /\ j \in 1..n
                        /\ c + 1 + (size - m + k - 1) = c + size - n + j - 1
                        /\ c + 1 + (size - m + k - 1) = c + (1 + (size - m + k - 1))
                        /\ 1 + (size - m + k - 1) \in 1..(size - 1)
           /\ \A j \in 1..n : c + size - n + j - 1 \in Int
OBVIOUS

\* An insertion moves every place but its own along with the cursor.
Growing(size, M, c, n, m, k) ==
    /\ size \in Nat \ {0} /\ M \in Nat \ {0} /\ M % size = 0
    /\ c \in 0..(M - 1) /\ n \in 0..size
    /\ m = IF n = size THEN size ELSE n + 1
    /\ k \in 1..m

LEMMA PlacesKept ==
    ASSUME NEW size, NEW M, NEW c, NEW n, NEW m, NEW k, Growing(size, M, c, n, m, k)
    PROVE  /\ k = m => Place((c + 1) % M, size, m, k) = c % size
           /\ k # m => /\ Before(k, n, size) \in 1..n
                       /\ Place((c + 1) % M, size, m, k) = Place(c, size, n, Before(k, n, size))
                       /\ Place((c + 1) % M, size, m, k) # c % size
<1> DEFINE c2 == (c + 1) % M
           x == size - m + k - 1
           p == Place(c2, size, m, k)
           j == IF n = size THEN k + 1 ELSE k
<1> USE DEF Growing
<1>1. c \in Nat /\ m \in Nat /\ k \in Int /\ M # 0
  OBVIOUS
<1>2. /\ x \in Nat /\ x \in 0..(size - 1)
      /\ k = m => c + 1 + x = c + size
      /\ k # m => /\ j \in 1..n
                  /\ c + 1 + x = c + size - n + j - 1
                  /\ c + 1 + x = c + (1 + x)
                  /\ 1 + x \in 1..(size - 1)
  BY <1>1, Distances
<1>3. c2 \in Int
  BY <1>1
<1>4. p = (c2 + x) % size
  <2>1. c2 + size - m + k - 1 = c2 + x
    <3> HIDE DEF c2
    <3>1. QED
      BY <1>1, <1>3
  <2>2. QED
    BY <2>1 DEF Place
<1>5. (c2 + x) % size = (c + 1 + x) % size
  <2>1. Wrapping(size, M, c, x)
    BY <1>2 DEF Wrapping
  <2> HIDE DEF x
  <2>2. QED
    BY <2>1, CursorWraps
<1> HIDE DEF c2, x, p
<1>6. k = m => p = c % size
  BY <1>1, <1>2, <1>4, <1>5, NextRound
<1>7. ASSUME k # m PROVE p # c % size
  <2> DEFINE d == 1 + x
  <2>1. d \in 1..(size - 1) /\ c + 1 + x = c + d
    BY <1>2, <1>7
  <2> HIDE DEF d
  <2>2. (c + d) % size # c % size
    BY <1>1, <2>1, SlotsApart
  <2>3. QED
    BY <1>4, <1>5, <2>1, <2>2
<1>8. k # m => p = Place(c, size, n, j)
  BY <1>2, <1>4, <1>5 DEF Place
<1>9. QED
  BY <1>2, <1>6, <1>7, <1>8 DEF p, c2, Before

\* An insertion at the cursor takes a slot that is free unless the cache is
\* full, and then the one of the oldest key; the others keep their places.
LEMMA RingAdvances ==
    ASSUME NEW size \in Nat \ {0}, NEW M \in Nat \ {0}, M % size = 0,
           NEW cursor \in 0..(M - 1), NEW used, NEW K, NEW q \in Seq(K), NEW new \in K,
           NEW key, DOMAIN key = 0..(size - 1), key = [i \in 0..(size - 1) |-> key[i]],
           Ring(cursor, size, used, key, q)
    PROVE  LET slot == Slot(cursor, size)
               q2 == Append(IF slot \in used THEN Tail(q) ELSE q, new)
           IN /\ slot \in 0..(size - 1)
              /\ q2 \in Seq(K)
              /\ Ring((cursor + 1) % M, size, used \cup {slot},
                      [key EXCEPT ![slot] = new], q2)
<1> DEFINE slot == cursor % size
           n == Len(q)
           rest == IF slot \in used THEN Tail(q) ELSE q
           q2 == Append(rest, new)
           cursor2 == (cursor + 1) % M
           used2 == used \cup {slot}
           key2 == [key EXCEPT ![slot] = new]
<1>1. slot \in 0..(size - 1) /\ cursor \in Nat
  <2>1. cursor \in Int /\ cursor \in Nat
    OBVIOUS
  <2>2. cursor % size \in 0..(size - 1)
    BY <2>1, DivModFacts
  <2>3. QED
    BY <2>1, <2>2
<1>2. n \in 0..size /\ used \in SUBSET (0..(size - 1)) /\ n = Cardinality(used)
  BY RingFacts DEF Ring
<1>3. slot \in used <=> n = size
  <2>1. n = size => used = 0..(size - 1)
    <3>1. Cardinality(used) = size => used = 0..(size - 1)
      BY <1>2, RingFacts
    <3>2. QED
      BY <1>2, <3>1
  <2>2. ASSUME n < size, slot \in used PROVE FALSE
    <3>1. PICK k \in 1..n : slot = Place(cursor, size, n, k)
      BY <2>2 DEF Ring
    <3> DEFINE d == size - n + k - 1
    <3>2. d \in 1..(size - 1) /\ cursor + size - n + k - 1 = cursor + d
      BY <1>2, <2>2, <3>1
    <3> HIDE DEF d
    <3>3. (cursor + d) % size # cursor % size
      BY <1>1, <3>2, SlotsApart
    <3>4. QED
      BY <3>1, <3>2, <3>3 DEF Place
  <2>3. QED
    BY <1>1, <1>2, <2>1, <2>2
<1>4. /\ rest \in Seq(K) /\ Len(rest) = IF n = size THEN n - 1 ELSE n
      /\ \A k \in 1..Len(rest) : rest[k] = IF n = size THEN q[k + 1] ELSE q[k]
  <2>1. CASE n = size
    <3>1. q # <<>>
      BY <1>2, <2>1
    <3>2. QED
      BY <1>2, <1>3, <2>1, <3>1, HeadTailProperties
  <2>2. CASE n # size
    <3>1. rest = q
      BY <1>3, <2>2
    <3>2. QED
      BY <2>2, <3>1
  <2>3. QED
    BY <2>1, <2>2
<1>5. /\ q2 \in Seq(K) /\ Len(q2) = Len(rest) + 1
      /\ \A k \in 1..Len(rest) : q2[k] = rest[k]
      /\ q2[Len(q2)] = new
  BY <1>4, AppendProperties
<1>6. Len(q2) = IF n = size THEN size ELSE n + 1
  BY <1>2, <1>4, <1>5
<1>a. Len(q2) \in Nat /\ n \in Nat
  BY <1>2, <1>6
<1> HIDE DEF q2, rest
<1>7. ASSUME NEW k \in 1..Len(q2)
      PROVE  /\ k = Len(q2) => Place(cursor2, size, Len(q2), k) = slot
             /\ k # Len(q2) =>
                  /\ k \in 1..Len(rest)
                  /\ Before(k, n, size) \in 1..n
                  /\ Place(cursor2, size, Len(q2), k)
                       = Place(cursor, size, n, Before(k, n, size))
                  /\ Place(cursor2, size, Len(q2), k) # slot
  <2> DEFINE m == Len(q2)
  <2>1. n \in 0..size /\ m = IF n = size THEN size ELSE n + 1
    BY <1>2, <1>6
  <2>2. k # m => k \in 1..Len(rest)
    BY <1>2, <1>4, <1>5
  <2>3. k \in 1..m
    OBVIOUS
  <2> HIDE DEF n, m
  <2>4. /\ k = m => Place(cursor2, size, m, k) = cursor % size
        /\ k # m => /\ Before(k, n, size) \in 1..n
                    /\ Place(cursor2, size, m, k) = Place(cursor, size, n, Before(k, n, size))
                    /\ Place(cursor2, size, m, k) # cursor % size
    <3>1. Growing(size, M, cursor, n, m, k)
      BY <2>1, <2>3 DEF Growing
    <3>2. QED
      BY <3>1, PlacesKept
  <2>5. QED
    BY <2>2, <2>4 DEF m
<1>8. Len(q2) = Cardinality(used2) /\ used2 \subseteq 0..(size - 1)
  <2>1. CASE n = size
    <3>1. used2 = used
      BY <1>3, <2>1
    <3>2. QED
      BY <1>2, <1>6, <2>1, <3>1
  <2>2. CASE n # size
    <3>1. slot \notin used
      BY <1>3, <2>2
    <3> HIDE DEF slot
    <3>2. Cardinality(used \cup {slot}) = Cardinality(used) + 1
      BY <1>1, <1>2, <3>1, RingFacts
    <3>3. QED
      BY <1>1, <1>2, <1>6, <2>2, <3>2
  <2>3. QED
    BY <2>1, <2>2
<1>9. ASSUME NEW k \in 1..Len(q2)
      PROVE  key2[Place(cursor2, size, Len(q2), k)] = q2[k]
  <2>1. CASE k = Len(q2)
    <3>1. Place(cursor2, size, Len(q2), k) = slot /\ q2[k] = new
      BY <1>5, <1>7, <2>1
    <3> HIDE DEF slot, q2
    <3>2. QED
      BY <1>1, <3>1
  <2>2. CASE k # Len(q2)
    <3> DEFINE j == Before(k, n, size)
               p == Place(cursor, size, n, j)
    <3>1. /\ k \in 1..Len(rest) /\ j \in 1..n
          /\ Place(cursor2, size, Len(q2), k) = p /\ p # slot
      BY <1>7, <2>2
    <3>2. q2[k] = q[j]
      BY <1>4, <1>5, <3>1 DEF Before
    <3>3. key[p] = q[j]
      BY <3>1 DEF Ring
    <3>4. p \in 0..(size - 1)
      <4>1. j \in Int /\ n \in Int
        BY <1>2, <3>1
      <4> HIDE DEF j, n
      <4>a. cursor + size - n + j - 1 \in Int
        BY <4>1
      <4>2. QED
        BY <4>a, DivModFacts DEF Place
    <3> HIDE DEF slot, p, j, q2
    <3>5. key2[p] = key[p]
      BY <3>1, <3>4
    <3>6. QED
      BY <3>1, <3>2, <3>3, <3>5
  <2>3. QED
    BY <2>1, <2>2
<1>10. ASSUME NEW i \in used2
       PROVE  \E k \in 1..Len(q2) : i = Place(cursor2, size, Len(q2), k)
  <2>1. CASE i = slot
    <3>1. Len(q2) \in 1..Len(q2)
      BY <1>2, <1>6
    <3>2. QED
      BY <1>7, <2>1, <3>1
  <2>2. CASE i # slot
    <3>1. PICK j \in 1..n : i = Place(cursor, size, n, j)
      BY <2>2 DEF Ring
    <3>2. ~(n = size /\ j = 1)
      <4>1. SUFFICES ASSUME n = size, j = 1 PROVE FALSE
        OBVIOUS
      <4>2. cursor + size - n + j - 1 = cursor
        BY <1>1, <4>1
      <4>3. QED
        BY <2>2, <3>1, <4>2 DEF Place
    <3> DEFINE k == IF n = size THEN j - 1 ELSE j
    <3>3. k \in 1..Len(q2) /\ k # Len(q2) /\ Before(k, n, size) = j
      BY <1>2, <1>6, <3>1, <3>2 DEF Before
    <3> HIDE DEF k
    <3>4. Place(cursor2, size, Len(q2), k)
            = Place(cursor, size, n, Before(k, n, size))
      BY <1>7, <3>3
    <3>5. QED
      BY <3>1, <3>3, <3>4
  <2>3. QED
    BY <2>1, <2>2
<1>11. Ring(cursor2, size, used2, key2, q2)
  BY <1>8, <1>9, <1>10 DEF Ring
<1>12. QED
  BY <1>1, <1>5, <1>11 DEF Slot, q2, rest

-----------------------------------------------------------------------------
(* The cache of access points *)

ApKeys == [i \in Index |-> entries[i].bssid]

CacheTyped ==
    /\ entries \in [Index -> Entry] /\ next \in 0..(CursorMod - 1)
    /\ counts \in Counts
    /\ stats \in [counts : Counts, occupied : 0..CACHE_SIZE]
    /\ last \in [named : Mac \cup {NoMac}, signal : Mac \cup {NoMac}]
    /\ order \in Seq(Mac)

OneEntry == \A i, k \in Occupied : entries[i].bssid = entries[k].bssid => i = k

Drift(s) == s.counts.inserts - s.counts.evictions - s.occupied

Published ==
    /\ stats.counts = counts
    /\ stats.occupied = Cardinality(Occupied)
    /\ Drift(stats) % CounterMod = 0

CInv == /\ CacheTyped /\ OneEntry /\ Published
        /\ Ring(next, CACHE_SIZE, Occupied, ApKeys, order)

LEMMA Numbers ==
    /\ CACHE_SIZE \in Nat \ {0} /\ PROBE_CACHE_SIZE \in Nat \ {0}
    /\ CursorMod \in Nat \ {0} /\ CounterMod \in Nat \ {0}
    /\ CursorMod % CACHE_SIZE = 0 /\ CursorMod % PROBE_CACHE_SIZE = 0
BY SizeAssumption

LEMMA OccupiedSize == Occupied \in SUBSET (0..(CACHE_SIZE - 1)) /\ Cardinality(Occupied) \in 0..CACHE_SIZE
<1>1. Occupied \in SUBSET (0..(CACHE_SIZE - 1))
  BY DEF Occupied, Index
<1>2. QED
  BY <1>1, Numbers, RingFacts

\* A number that is a multiple of the width of a counter stays one when the
\* counters it is made of wrap.
LEMMA ZeroKept ==
    ASSUME NEW M \in Nat \ {0}, NEW d \in Int, d % M = 0,
           NEW d2 \in {d, d + M, d - M}
    PROVE  d2 % M = 0
<1> DEFINE q == d \div M
           z == 0
<1>1. q \in Int /\ d = M * q
  BY DivModFacts
<1> HIDE DEF q
<1>2. PICK k \in {q, q + 1, q - 1} : d2 = M * k
  <2>1. M * (q + 1) = M * q + M /\ M * (q - 1) = M * q - M
    BY <1>1
  <2>2. QED
    BY <1>1, <2>1
<1>3. k \in Int /\ d2 \in Int /\ z \in 0..(M - 1) /\ d2 = M * k + z
  BY <1>1, <1>2
<1> HIDE DEF z
<1>4. d2 % M = z
  BY <1>3, ModUnique
<1>5. QED
  BY <1>4 DEF z

LEMMA CountsUp ==
    ASSUME CacheTyped, NEW S
    PROVE  /\ Bump(S) \in Counts
           /\ \A c \in {"inserts", "updates", "evictions"} :
                /\ counts[c] \in 0..(CounterMod - 1)
                /\ c \in S => Bump(S)[c] \in {counts[c] + 1, counts[c] + 1 - CounterMod}
                /\ c \notin S => Bump(S)[c] = counts[c]
<1>1. CounterMod \in Nat \ {0} /\ counts \in Counts
  BY Numbers DEF CacheTyped
<1>2. ASSUME NEW n \in 0..(CounterMod - 1)
      PROVE  /\ (n + 1) % CounterMod \in {n + 1, n + 1 - CounterMod}
             /\ (n + 1) % CounterMod \in 0..(CounterMod - 1)
  BY <1>1
<1>3. \A c \in {"inserts", "updates", "evictions"} : counts[c] \in 0..(CounterMod - 1)
  BY <1>1 DEF Counts
<1>4. DOMAIN counts = {"inserts", "updates", "evictions"}
  BY <1>1 DEF Counts
<1>5. \A c \in {"inserts", "updates", "evictions"} :
         Bump(S)[c] = IF c \in S THEN (counts[c] + 1) % CounterMod ELSE counts[c]
  BY <1>4 DEF Bump
<1>6. \A c \in {"inserts", "updates", "evictions"} : Bump(S)[c] \in 0..(CounterMod - 1)
  BY <1>2, <1>3, <1>5
<1>7. Bump(S) \in Counts
  BY <1>4, <1>6 DEF Bump, Counts
<1>8. QED
  BY <1>2, <1>3, <1>5, <1>7

LEMMA EntryTyped ==
    ASSUME NEW o \in Observation
    PROVE  /\ [bssid |-> o.bssid, ssid |-> o.ssid, channel |-> o.channel, sec |-> o.sec]
                 \in Entry
           /\ o.bssid \in Mac /\ o.bssid # NoMac
           /\ \A e \in Entry : Merged(e, o) \in Entry /\ Merged(e, o).bssid = e.bssid
<1>1. o.bssid \in Mac /\ o.ssid \in Ssid \cup {NoSsid} /\ o.channel \in Channel \cup {0}
      /\ o.sec \in Sec
  BY DEF Observation
<1>2. ASSUME NEW e \in Entry PROVE Merged(e, o) \in Entry /\ Merged(e, o).bssid = e.bssid
  BY <1>1, <1>2 DEF Merged, Entry
<1>3. QED
  BY <1>1, <1>2, ValueAssumption DEF Entry

\* What is published after an observation.
LEMMA PublishTyped ==
    ASSUME NEW o \in Observation, Publish(o), CacheTyped, counts' \in Counts
    PROVE  /\ stats' \in [counts : Counts, occupied : 0..CACHE_SIZE]
           /\ last' \in [named : Mac \cup {NoMac}, signal : Mac \cup {NoMac}]
           /\ stats'.counts = counts' /\ stats'.occupied = Cardinality(Occupied')
<1>1. o.bssid \in Mac
  BY DEF Observation
<1>2. stats' = [counts |-> counts', occupied |-> Cardinality(Occupied')]
  BY DEF Publish, Occupied
<1>3. Cardinality(Occupied') \in 0..CACHE_SIZE
  <2>1. Occupied' \in SUBSET (0..(CACHE_SIZE - 1))
    BY DEF Occupied, Index
  <2>2. QED
    BY <2>1, Numbers, RingFacts
<1>4. last' \in [named : Mac \cup {NoMac}, signal : Mac \cup {NoMac}]
  BY <1>1 DEF Publish, CacheTyped
<1>5. QED
  BY <1>2, <1>3, <1>4

LEMMA UpdateCInv ==
    ASSUME CInv, NEW o \in Observation, update_known(o)
    PROVE  CInv'
<1>1. PICK i \in Cached(o.bssid) :
         /\ entries' = [entries EXCEPT ![i] = Merged(@, o)]
         /\ counts' = IF Merged(entries[i], o) # entries[i] THEN Bump({"updates"}) ELSE counts
  BY DEF update_known
<1>2. /\ entries \in [Index -> Entry] /\ i \in Index /\ entries[i] \in Entry
      /\ entries[i].bssid = o.bssid /\ next' = next /\ order' = order /\ Publish(o)
  BY <1>1 DEF CInv, CacheTyped, Cached, update_known
<1>3. /\ entries' \in [Index -> Entry]
      /\ \A k \in Index : entries'[k].bssid = entries[k].bssid
  BY <1>1, <1>2, EntryTyped
<1>4. Occupied' = Occupied /\ ApKeys' = ApKeys
  BY <1>3 DEF Occupied, Used, ApKeys
<1>5. /\ counts' \in Counts
      /\ counts'["inserts"] = counts["inserts"] /\ counts'["evictions"] = counts["evictions"]
  <2>1. /\ Bump({"updates"}) \in Counts
        /\ Bump({"updates"})["inserts"] = counts["inserts"]
        /\ Bump({"updates"})["evictions"] = counts["evictions"]
    BY CountsUp DEF CInv
  <2>2. QED
    BY <1>1, <2>1 DEF CInv, CacheTyped
<1>6. /\ stats' \in [counts : Counts, occupied : 0..CACHE_SIZE]
      /\ last' \in [named : Mac \cup {NoMac}, signal : Mac \cup {NoMac}]
      /\ stats'.counts = counts' /\ stats'.occupied = Cardinality(Occupied')
  BY <1>2, <1>5, PublishTyped DEF CInv
<1>7. CacheTyped'
  BY <1>2, <1>3, <1>5, <1>6 DEF CInv, CacheTyped
<1>8. OneEntry'
  BY <1>3, <1>4 DEF CInv, OneEntry, Occupied
<1>9. Drift(stats') = Drift(stats)
  BY <1>4, <1>5, <1>6 DEF CInv, Published, Drift
<1>10. Published'
  BY <1>6, <1>9 DEF CInv, Published
<1>11. Ring(next, CACHE_SIZE, Occupied, ApKeys, order)'
  BY <1>2, <1>4 DEF CInv, Ring
<1>12. QED
  BY <1>7, <1>8, <1>10, <1>11 DEF CInv

LEMMA InsertCInv ==
    ASSUME CInv, NEW o \in Observation, insert_new(o)
    PROVE  CInv'
<1> DEFINE slot == Slot(next, CACHE_SIZE)
           e == [bssid |-> o.bssid, ssid |-> o.ssid, channel |-> o.channel, sec |-> o.sec]
           evicted == Used(entries[slot])
           S == {"inserts"} \cup IF evicted THEN {"evictions"} ELSE {}
<1>1. /\ entries' = [entries EXCEPT ![slot] = e]
      /\ counts' = Bump(S)
      /\ order' = Append(IF evicted THEN Tail(order) ELSE order, o.bssid)
      /\ next' = (next + 1) % CursorMod
      /\ Cached(o.bssid) = {} /\ Publish(o)
  BY DEF insert_new
<1>2. /\ e \in Entry /\ e.bssid = o.bssid /\ o.bssid \in Mac /\ o.bssid # NoMac
      /\ next \in 0..(CursorMod - 1) /\ entries \in [Index -> Entry]
  BY EntryTyped DEF CInv, CacheTyped
<1>3. slot \in Index
  <2>1. next \in Int
    BY <1>2, Numbers
  <2>2. QED
    BY <2>1, Numbers, DivModFacts DEF Slot, Index
<1> HIDE DEF slot, e
<1>4. evicted <=> slot \in Occupied
  BY <1>3 DEF Occupied
<1>5. /\ entries' \in [Index -> Entry]
      /\ \A k \in Index : entries'[k] = IF k = slot THEN e ELSE entries[k]
  BY <1>1, <1>2, <1>3
<1>6. /\ Occupied' = Occupied \cup {slot}
      /\ ApKeys' = [ApKeys EXCEPT ![slot] = o.bssid]
  BY <1>2, <1>3, <1>5 DEF Occupied, Used, ApKeys
<1>7. /\ order' \in Seq(Mac) /\ next' \in 0..(CursorMod - 1)
      /\ Ring(next', CACHE_SIZE, Occupied', ApKeys', order')
  <2> DEFINE key == ApKeys
             used == Occupied
             q2 == Append(IF slot \in used THEN Tail(order) ELSE order, o.bssid)
  <2>1. /\ DOMAIN key = 0..(CACHE_SIZE - 1)
        /\ key = [i \in 0..(CACHE_SIZE - 1) |-> key[i]]
        /\ order \in Seq(Mac) /\ Ring(next, CACHE_SIZE, used, key, order)
    BY DEF ApKeys, Index, CInv, CacheTyped
  <2> HIDE DEF key, used
  <2>2. /\ q2 \in Seq(Mac)
        /\ Ring((next + 1) % CursorMod, CACHE_SIZE, used \cup {slot},
                [key EXCEPT ![slot] = o.bssid], q2)
    BY <1>2, <2>1, Numbers, RingAdvances DEF slot
  <2>3. next' \in 0..(CursorMod - 1)
    BY <1>1, <1>2, Numbers
  <2>4. QED
    BY <1>1, <1>4, <1>6, <2>2, <2>3 DEF key, used
<1>8. /\ counts' \in Counts
      /\ counts'["inserts"] \in {counts["inserts"] + 1, counts["inserts"] + 1 - CounterMod}
      /\ evicted => counts'["evictions"] \in
                      {counts["evictions"] + 1, counts["evictions"] + 1 - CounterMod}
      /\ ~evicted => counts'["evictions"] = counts["evictions"]
  <2>1. "inserts" \in S /\ (evicted <=> "evictions" \in S)
    OBVIOUS
  <2> HIDE DEF S, evicted
  <2>2. QED
    BY <1>1, <2>1, CountsUp DEF CInv
<1>9. /\ stats' \in [counts : Counts, occupied : 0..CACHE_SIZE]
      /\ last' \in [named : Mac \cup {NoMac}, signal : Mac \cup {NoMac}]
      /\ stats'.counts = counts' /\ stats'.occupied = Cardinality(Occupied')
  BY <1>1, <1>8, PublishTyped DEF CInv
<1>10. CacheTyped'
  BY <1>5, <1>7, <1>8, <1>9 DEF CacheTyped
<1>11. OneEntry'
  <2>1. \A k \in Index : entries[k].bssid # o.bssid
    BY <1>1 DEF Cached
  <2>2. QED
    BY <1>2, <1>5, <1>6, <2>1 DEF CInv, OneEntry, Occupied
<1>12. Cardinality(Occupied') = Cardinality(Occupied) + IF evicted THEN 0 ELSE 1
  <2>1. CASE evicted
    <3>1. Occupied' = Occupied
      BY <1>4, <1>6, <2>1
    <3>2. Cardinality(Occupied) \in Nat
      BY OccupiedSize
    <3>3. QED
      BY <2>1, <3>1, <3>2
  <2>2. CASE ~evicted
    <3>1. slot \notin Occupied /\ slot \in 0..(CACHE_SIZE - 1)
      BY <1>3, <1>4, <2>2 DEF Index
    <3>2. Cardinality(Occupied \cup {slot}) = Cardinality(Occupied) + 1
      BY <3>1, Numbers, OccupiedSize, RingFacts
    <3>3. QED
      BY <1>6, <2>2, <3>2
  <2>3. QED
    BY <2>1, <2>2
<1>13. Published'
  <2> DEFINE d == Drift(stats)
             d2 == Drift(stats')
             n == Cardinality(Occupied)
             n2 == Cardinality(Occupied')
             i1 == counts["inserts"]
             i2 == counts'["inserts"]
             v1 == counts["evictions"]
             v2 == counts'["evictions"]
  <2>1. /\ d = i1 - v1 - n /\ d2 = i2 - v2 - n2 /\ d % CounterMod = 0
    BY <1>9 DEF CInv, Published, Drift
  <2>2. i1 \in Int /\ v1 \in Int /\ n \in Int
    BY Numbers, OccupiedSize DEF CInv, CacheTyped, Counts
  <2>3. /\ i2 \in {i1 + 1, i1 + 1 - CounterMod}
        /\ evicted => v2 \in {v1 + 1, v1 + 1 - CounterMod} /\ n2 = n
        /\ ~evicted => v2 = v1 /\ n2 = n + 1
    BY <1>8, <1>12, <2>2
  <2> HIDE DEF d, d2, n, n2, i1, i2, v1, v2, evicted
  <2>4. d \in Int /\ d2 \in {d, d + CounterMod, d - CounterMod}
    <3>1. CounterMod \in Int
      BY Numbers
    <3>2. CASE evicted
      <4>1. /\ v2 = v1 + 1 \/ v2 = v1 + 1 - CounterMod
            /\ i2 = i1 + 1 \/ i2 = i1 + 1 - CounterMod
            /\ n2 = n
        BY <2>3, <3>2
      <4>2. d = i1 - v1 - n /\ d2 = i2 - v2 - n2
        BY <2>1
      <4>3. QED
        BY <2>2, <3>1, <4>1, <4>2
    <3>3. CASE ~evicted
      BY <2>1, <2>2, <2>3, <3>1, <3>3
    <3>4. QED
      BY <3>2, <3>3
  <2>5. d2 % CounterMod = 0
    BY <2>1, <2>4, Numbers, ZeroKept
  <2>6. QED
    BY <1>9, <2>5 DEF Published, d2
<1>14. QED
  BY <1>7, <1>10, <1>11, <1>13 DEF CInv

-----------------------------------------------------------------------------
(* The cache of probe requests *)

ProbeKeys == [i \in ProbeIndex |-> probes[i].src]

ProbesTyped ==
    /\ probes \in [ProbeIndex -> Probe \cup {NoProbe}]
    /\ probe_next \in 0..(CursorMod - 1)
    /\ asked \in [name : [Source -> ProbedSsid], order : Seq(Source)]

AskedLast ==
    \A i \in UsedProbes : /\ Of(probes[i].src) = {i}
                          /\ probes[i].ssid = asked.name[probes[i].src]

PInv == /\ ProbesTyped /\ AskedLast
        /\ Ring(probe_next, PROBE_CACHE_SIZE, UsedProbes, ProbeKeys, asked.order)

LEMMA ProbeFacts ==
    /\ NoProbe.src = NoSource /\ NoProbe.ssid \in ProbedSsid
    /\ \A p \in Probe : p.src \in Source /\ p.ssid \in ProbedSsid /\ p # NoProbe
                        /\ p.src # NoSource
    /\ \A p, r \in Probe : p = r <=> p.src = r.src /\ p.ssid = r.ssid
<1>1. (CHOOSE n \in ProbedSsid : TRUE) \in ProbedSsid
  BY ValueAssumption
<1>2. QED
  BY <1>1, ValueAssumption DEF Probe, NoProbe

LEMMA NameAsked ==
    ASSUME ProbesTyped, NEW p \in Probe
    PROVE  /\ Asks(p) \in [Source -> ProbedSsid]
           /\ \A m \in Source : Asks(p)[m] = IF m = p.src THEN p.ssid ELSE asked.name[m]
BY ProbeFacts DEF ProbesTyped, Asks

LEMMA AgainPInv ==
    ASSUME PInv, NEW p \in Probe, probe_again(p) \/ probe_other_name(p)
    PROVE  PInv'
<1>1. PICK i \in Of(p.src) : /\ \A k \in ProbeIndex :
                                    probes'[k] = IF k = i THEN p ELSE probes[k]
                             /\ probes' \in [ProbeIndex -> Probe \cup {NoProbe}]
  <2>1. CASE probe_again(p)
    BY <2>1 DEF probe_again, PInv, ProbesTyped
  <2>2. CASE probe_other_name(p)
    BY <2>2 DEF probe_other_name, PInv, ProbesTyped, Of
  <2>3. QED
    BY <2>1, <2>2
<1>2. /\ asked' = [asked EXCEPT !.name = Asks(p)] /\ probe_next' = probe_next
  BY DEF probe_again, probe_other_name
<1>3. /\ i \in ProbeIndex /\ probes[i].src = p.src /\ p.src \in Source
      /\ probes[i] # NoProbe /\ p # NoProbe
  BY ProbeFacts DEF Of
<1>4. /\ UsedProbes' = UsedProbes /\ i \in UsedProbes
      /\ \A k \in ProbeIndex : probes'[k].src = probes[k].src
  BY <1>1, <1>3 DEF UsedProbes
<1>5. ProbeKeys' = ProbeKeys
  BY <1>4 DEF ProbeKeys
<1>6. /\ asked'.order = asked.order
      /\ asked' \in [name : [Source -> ProbedSsid], order : Seq(Source)]
      /\ \A m \in Source : asked'.name[m] = IF m = p.src THEN p.ssid ELSE asked.name[m]
  BY <1>2, NameAsked DEF PInv, ProbesTyped
<1>7. ProbesTyped'
  BY <1>1, <1>2, <1>6 DEF PInv, ProbesTyped
<1>8. AskedLast'
  <2>1. ASSUME NEW k \in UsedProbes
        PROVE  /\ {j \in ProbeIndex : probes'[j].src = probes'[k].src} = {k}
               /\ probes'[k].ssid = asked'.name[probes'[k].src]
    <3>1. k \in ProbeIndex /\ probes[k].src \in Source
      BY ProbeFacts DEF UsedProbes, PInv, ProbesTyped
    <3>2. Of(probes[k].src) = {k} /\ probes[k].ssid = asked.name[probes[k].src]
      BY DEF PInv, AskedLast
    <3>3. {j \in ProbeIndex : probes'[j].src = probes'[k].src} = {k}
      BY <1>4, <3>1, <3>2 DEF Of
    <3>4. probes[k].src = p.src <=> k = i
      BY <1>3, <3>1, <3>2 DEF Of
    <3>5. QED
      BY <1>1, <1>3, <1>4, <1>6, <3>1, <3>2, <3>3, <3>4
  <2>2. QED
    BY <1>4, <2>1 DEF AskedLast, Of
<1>9. QED
  BY <1>2, <1>4, <1>5, <1>6, <1>7, <1>8 DEF PInv, Ring

LEMMA NewPInv ==
    ASSUME PInv, NEW p \in Probe, probe_new_source(p)
    PROVE  PInv'
<1> DEFINE slot == Slot(probe_next, PROBE_CACHE_SIZE)
           kept == IF probes[slot] = NoProbe THEN asked.order ELSE Tail(asked.order)
<1>1. /\ Of(p.src) = {}
      /\ probes' = [probes EXCEPT ![slot] = p]
      /\ asked' = [name |-> Asks(p), order |-> Append(kept, p.src)]
      /\ probe_next' = (probe_next + 1) % CursorMod
  BY DEF probe_new_source
<1>2. /\ probe_next \in 0..(CursorMod - 1) /\ asked.order \in Seq(Source)
      /\ probes \in [ProbeIndex -> Probe \cup {NoProbe}]
      /\ p.src \in Source /\ p # NoProbe
  BY ProbeFacts DEF PInv, ProbesTyped
<1>3. slot \in ProbeIndex
  <2>1. probe_next \in Int
    BY <1>2, Numbers
  <2>2. QED
    BY <2>1, Numbers, DivModFacts DEF Slot, ProbeIndex
<1> HIDE DEF slot
<1>4. probes[slot] = NoProbe <=> slot \notin UsedProbes
  BY <1>3 DEF UsedProbes
<1>5. /\ probes' \in [ProbeIndex -> Probe \cup {NoProbe}]
      /\ \A k \in ProbeIndex : probes'[k] = IF k = slot THEN p ELSE probes[k]
  BY <1>1, <1>2, <1>3
<1>6. /\ UsedProbes' = UsedProbes \cup {slot}
      /\ ProbeKeys' = [ProbeKeys EXCEPT ![slot] = p.src]
  <2>1. UsedProbes' = UsedProbes \cup {slot}
    BY <1>2, <1>3, <1>5 DEF UsedProbes
  <2>2. \A k \in ProbeIndex : probes'[k].src = IF k = slot THEN p.src ELSE probes[k].src
    BY <1>5
  <2>3. ProbeKeys' = [ProbeKeys EXCEPT ![slot] = p.src]
    BY <1>3, <2>2 DEF ProbeKeys
  <2>4. QED
    BY <2>1, <2>3
<1>7. /\ asked'.order \in Seq(Source) /\ probe_next' \in 0..(CursorMod - 1)
      /\ Ring(probe_next', PROBE_CACHE_SIZE, UsedProbes', ProbeKeys', asked'.order)
  <2> DEFINE key == ProbeKeys
             used == UsedProbes
             q == asked.order
             q2 == Append(IF slot \in used THEN Tail(q) ELSE q, p.src)
  <2>1. /\ DOMAIN key = 0..(PROBE_CACHE_SIZE - 1)
        /\ key = [i \in 0..(PROBE_CACHE_SIZE - 1) |-> key[i]]
        /\ q \in Seq(Source) /\ Ring(probe_next, PROBE_CACHE_SIZE, used, key, q)
    BY <1>2 DEF ProbeKeys, ProbeIndex, PInv
  <2>a. asked'.order = q2
    BY <1>1, <1>4
  <2> HIDE DEF key, used, q
  <2>2. /\ q2 \in Seq(Source)
        /\ Ring((probe_next + 1) % CursorMod, PROBE_CACHE_SIZE, used \cup {slot},
                [key EXCEPT ![slot] = p.src], q2)
    BY <1>2, <2>1, Numbers, RingAdvances DEF slot
  <2>3. probe_next' \in 0..(CursorMod - 1)
    BY <1>1, <1>2, Numbers
  <2>4. QED
    BY <1>1, <1>6, <2>a, <2>2, <2>3 DEF key, used
<1>8. /\ asked' \in [name : [Source -> ProbedSsid], order : Seq(Source)]
      /\ \A m \in Source : asked'.name[m] = IF m = p.src THEN p.ssid ELSE asked.name[m]
  <2>1. /\ Asks(p) \in [Source -> ProbedSsid] /\ asked'.name = Asks(p)
        /\ asked' = [name |-> Asks(p), order |-> asked'.order]
        /\ \A m \in Source : Asks(p)[m] = IF m = p.src THEN p.ssid ELSE asked.name[m]
    BY <1>1, NameAsked DEF PInv
  <2>2. QED
    BY <1>7, <2>1
<1>9. ProbesTyped'
  BY <1>5, <1>7, <1>8 DEF ProbesTyped
<1>10. AskedLast'
  <2>1. ASSUME NEW k \in UsedProbes'
        PROVE  /\ {j \in ProbeIndex : probes'[j].src = probes'[k].src} = {k}
               /\ probes'[k].ssid = asked'.name[probes'[k].src]
    <3>1. \A j \in ProbeIndex : probes[j].src # p.src
      BY <1>1 DEF Of
    <3>2. CASE k = slot
      <4>1. {j \in ProbeIndex : probes'[j].src = p.src} = {slot}
        BY <1>3, <1>5, <3>1
      <4>2. QED
        BY <1>2, <1>3, <1>5, <1>8, <3>2, <4>1
    <3>3. CASE k # slot
      <4>1. k \in UsedProbes /\ k \in ProbeIndex /\ probes'[k] = probes[k]
        BY <1>5, <1>6, <3>3 DEF UsedProbes
      <4>2. Of(probes[k].src) = {k} /\ probes[k].ssid = asked.name[probes[k].src]
        BY <4>1 DEF PInv, AskedLast
      <4>3. probes[k].src # p.src /\ probes[k].src \in Source
        BY <1>2, <3>1, <4>1, ProbeFacts DEF UsedProbes
      <4>4. {j \in ProbeIndex : probes'[j].src = probes[k].src} = {k}
        BY <1>5, <3>3, <4>1, <4>2, <4>3 DEF Of
      <4>5. QED
        BY <1>8, <4>1, <4>2, <4>3, <4>4
    <3>4. QED
      BY <3>2, <3>3
  <2>2. QED
    BY <2>1 DEF AskedLast, Of
<1>11. QED
  BY <1>7, <1>9, <1>10 DEF PInv

-----------------------------------------------------------------------------
(* The rate limit *)

\* Until an interval has passed, the ticks since the last line are known from
\* the tick counter, wherever it wrapped.
LInv ==
    /\ tick \in 0..(TickMod - 1) /\ last_tick \in 0..(TickMod - 1)
    /\ lines \in [parity : 0..1, age : 0..INTERVAL]
    /\ lines.age < INTERVAL => (tick - last_tick) % TickMod = lines.age

LEMMA Ticks == INTERVAL \in Nat /\ TickMod \in Nat \ {0} /\ INTERVAL < TickMod
BY TickAssumption

LEMMA LogKeepsLInv ==
    ASSUME LInv, NEW wanted \in BOOLEAN, LogLine(wanted), tick' = tick
    PROVE  LInv' /\ (lines'.parity # lines.parity => lines.age >= INTERVAL)
<1>1. CASE wanted /\ obs_log_rate_ok
  <2>1. last_tick' = tick /\ lines' = [parity |-> 1 - lines.parity, age |-> 0]
    BY <1>1 DEF LogLine
  <2>2. lines.age >= INTERVAL
    BY <1>1, Ticks DEF LInv, obs_log_rate_ok
  <2>3. tick' - last_tick' = 0 /\ 0 % TickMod = 0
    BY <2>1, Ticks DEF LInv
  <2>4. lines'.age = 0 /\ lines' \in [parity : 0..1, age : 0..INTERVAL]
    BY <2>1, Ticks DEF LInv
  <2>5. QED
    BY <2>1, <2>2, <2>3, <2>4 DEF LInv
<1>2. CASE ~(wanted /\ obs_log_rate_ok)
  BY <1>2 DEF LogLine, LInv
<1>3. QED
  BY <1>1, <1>2

LEMMA ClockKeepsLInv == ASSUME LInv, Clock PROVE LInv' /\ lines'.parity = lines.parity
<1>1. /\ tick' = (tick + 1) % TickMod /\ last_tick' = last_tick
      /\ lines' = [lines EXCEPT !.age = IF lines.age < INTERVAL THEN lines.age + 1
                                        ELSE lines.age]
  BY DEF Clock
<1>2. tick' \in 0..(TickMod - 1) /\ lines' \in [parity : 0..1, age : 0..INTERVAL]
      /\ lines'.parity = lines.parity
  BY <1>1, Ticks DEF LInv
<1>3. ASSUME lines'.age < INTERVAL PROVE (tick' - last_tick') % TickMod = lines'.age
  <2> DEFINE M == TickMod
             d == tick - last_tick
             q == d \div M
             t == tick + 1
             l == -last_tick
             age2 == lines'.age
             e == d + 1
  <2>1. age2 = lines.age + 1 /\ age2 \in 0..(M - 1) /\ lines.age < INTERVAL
    BY <1>1, <1>2, <1>3, Ticks DEF LInv
  <2>2. d \in Int /\ e \in Int /\ t \in Int /\ l \in Int /\ M \in Nat \ {0}
    BY Ticks DEF LInv
  <2>3. q \in Int /\ d = M * q + lines.age
    BY <2>1, <2>2, DivModFacts DEF LInv
  <2>4. e = M * q + age2
    <3>1. M * q \in Int /\ lines.age \in Int
      BY <2>2, <2>3 DEF LInv
    <3> HIDE DEF d, q, M
    <3>2. QED
      BY <2>1, <2>3, <3>1
  <2>5. e % M = age2
    <3> HIDE DEF e, q, M, age2
    <3>1. QED
      BY <2>1, <2>2, <2>3, <2>4, ModUnique
  <2>6. (l + (t % M)) % M = (l + t) % M
    <3> HIDE DEF l, t, M
    <3>1. QED
      BY <2>2, ModAdd
  <2>7. l + t = e /\ tick' - last_tick' = l + (t % M)
    BY <1>1, <1>2, Ticks DEF LInv
  <2>8. QED
    BY <2>5, <2>6, <2>7
<1>4. QED
  BY <1>1, <1>2, <1>3 DEF LInv

-----------------------------------------------------------------------------
(* The specification *)

Inv == CInv /\ PInv /\ LInv

LEMMA InitInv == Init => Inv
<1> SUFFICES ASSUME Init PROVE Inv
  OBVIOUS
<1>1. Occupied = {} /\ UsedProbes = {}
  BY DEF Init, Occupied, Used, Empty, UsedProbes
<1>2. Cardinality({}) = 0
  BY FS_EmptySet
<1>3. NoCounts \in Counts /\ CACHE_SIZE \in Nat \ {0}
  BY Numbers DEF NoCounts, Counts
<1>4. CacheTyped
  <2>1. entries \in [Index -> Entry]
    BY DEF Init, Entry, Empty
  <2>2. QED
    BY <1>3, <2>1, Numbers DEF Init, CacheTyped
<1>5. Published
  <2>1. Drift(stats) = 0 /\ 0 % CounterMod = 0
    BY Numbers DEF Init, Drift, NoCounts
  <2>2. QED
    BY <1>1, <1>2, <2>1 DEF Init, Published
<1>6. OneEntry /\ AskedLast
  BY <1>1 DEF OneEntry, AskedLast
<1>7. order = <<>> /\ asked.order = <<>>
  BY DEF Init
<1>8. /\ Ring(next, CACHE_SIZE, Occupied, ApKeys, order)
      /\ Ring(probe_next, PROBE_CACHE_SIZE, UsedProbes, ProbeKeys, asked.order)
  BY <1>1, <1>2, <1>7 DEF Ring
<1>9. ProbesTyped
  <2>1. NoProbe.ssid \in ProbedSsid
    BY ProbeFacts
  <2>2. QED
    BY <2>1, Numbers DEF Init, ProbesTyped
<1>10. LInv
  BY Ticks DEF Init, LInv
<1>11. QED
  BY <1>4, <1>5, <1>6, <1>8, <1>9, <1>10 DEF Inv, CInv, PInv

LEMMA Kept ==
    /\ CInv /\ UNCHANGED cacheVars => CInv'
    /\ PInv /\ UNCHANGED probeVars => PInv'
    /\ LInv /\ UNCHANGED <<tick, last_tick, lines>> => LInv'
<1>1. ASSUME CInv, UNCHANGED cacheVars PROVE CInv'
  <2>1. Occupied' = Occupied /\ ApKeys' = ApKeys
    BY <1>1 DEF cacheVars, Occupied, Used, ApKeys
  <2>2. CacheTyped' /\ Published'
    BY <1>1, <2>1 DEF cacheVars, CInv, CacheTyped, Published
  <2>3. OneEntry' /\ Ring(next, CACHE_SIZE, Occupied, ApKeys, order)'
    BY <1>1, <2>1 DEF cacheVars, CInv, OneEntry, Ring
  <2>4. QED
    BY <2>2, <2>3 DEF CInv
<1>2. ASSUME PInv, UNCHANGED probeVars PROVE PInv'
  BY <1>2 DEF probeVars, PInv, ProbesTyped, AskedLast, Ring, UsedProbes, ProbeKeys, Of
<1>3. ASSUME LInv, UNCHANGED <<tick, last_tick, lines>> PROVE LInv'
  BY <1>3 DEF LInv
<1>4. QED
  BY <1>1, <1>2, <1>3

LEMMA NextInv == Inv /\ [Next]_vars => Inv'
<1> SUFFICES ASSUME Inv, [Next]_vars PROVE Inv'
  OBVIOUS
<1>1. ASSUME UNCHANGED vars PROVE Inv'
  BY <1>1, Kept DEF Inv, vars
<1>2. ASSUME NEW o \in Observation, handle_ap_observation(o) PROVE Inv'
  <2>1. CASE skip_incomplete(o)
    BY <1>1, <2>1 DEF skip_incomplete
  <2>2. CASE update_known(o)
    <3>1. UNCHANGED probeVars /\ tick' = tick
          /\ \E w \in BOOLEAN : LogLine(w)
      BY <2>2 DEF update_known
    <3>2. QED
      BY <2>2, <3>1, UpdateCInv, LogKeepsLInv, Kept DEF Inv
  <2>3. CASE insert_new(o)
    <3>1. UNCHANGED probeVars /\ tick' = tick
          /\ \E w \in BOOLEAN : LogLine(w)
      BY <2>3 DEF insert_new
    <3>2. QED
      BY <2>3, <3>1, InsertCInv, LogKeepsLInv, Kept DEF Inv
  <2>4. QED
    BY <1>2, <2>1, <2>2, <2>3 DEF handle_ap_observation
<1>3. ASSUME NEW p \in Probe, handle_probe_request(p) PROVE Inv'
  <2>1. UNCHANGED cacheVars
    BY <1>3 DEF handle_probe_request, probe_again, probe_other_name, probe_new_source
  <2>2. PInv'
    BY <1>3, AgainPInv, NewPInv DEF Inv, handle_probe_request
  <2>3. \/ UNCHANGED <<tick, last_tick, lines>>
        \/ tick' = tick /\ \E w \in BOOLEAN : LogLine(w)
    BY <1>3 DEF handle_probe_request, probe_again, probe_other_name, probe_new_source
  <2>4. QED
    BY <2>1, <2>2, <2>3, LogKeepsLInv, Kept DEF Inv
<1>4. ASSUME Clock PROVE Inv'
  BY <1>4, ClockKeepsLInv, Kept DEF Inv, Clock
<1>5. QED
  BY <1>1, <1>2, <1>3, <1>4 DEF Next

LEMMA InvHolds == Spec => []Inv
BY InitInv, NextInv, PTL DEF Spec

\* Every variable has its type, for every size of the caches and every width
\* of the cursors, the counters and the ticks.
THEOREM CacheTypeCorrect == Spec => []TypeOK
<1>1. Inv => TypeOK
  <2>1. CInv /\ PInv /\ LInv => TypeOK
    BY DEF CInv, PInv, LInv, CacheTyped, ProbesTyped, TypeOK
  <2>2. QED
    BY <2>1 DEF Inv
<1>2. QED
  BY InvHolds, <1>1, PTL

\* No address has two entries in either cache, the published occupancy is
\* what was inserted less what was evicted although the counters wrap, and the
\* entry of a source holds the name it asked for last.
THEOREM CacheAlwaysAccounted == Spec => []CacheAccounted
<1>1. Inv => CacheAccounted
  <2>1. ASSUME Inv PROVE CacheAccounted
    <3>1. TypeOK
      BY <2>1 DEF Inv, CInv, PInv, LInv, CacheTyped, ProbesTyped, TypeOK
    <3>2. stats.counts = counts /\ stats.occupied = Cardinality(Occupied)
          /\ (stats.counts.inserts - stats.counts.evictions - stats.occupied) % CounterMod = 0
      BY <2>1 DEF Inv, CInv, Published, Drift
    <3>3. QED
      BY <2>1, <3>1, <3>2 DEF Inv, CInv, PInv, OneEntry, AskedLast, CacheAccounted
  <2>2. QED
    BY <2>1
<1>2. QED
  BY InvHolds, <1>1, PTL

\* Either cache evicts in the order of insertion, and only when it is full,
\* wherever its cursor wraps.
THEOREM OldestAlwaysFirst == Spec => []OldestGoesFirst
<1>1. Inv => OldestGoesFirst
  <2>1. ASSUME Inv PROVE OldestGoesFirst
    <3>1. /\ Len(order) = Cardinality(Occupied)
          /\ \A k \in 1..Len(order) :
                ApKeys[Place(next, CACHE_SIZE, Len(order), k)] = order[k]
          /\ Len(asked.order) = Cardinality(UsedProbes)
          /\ \A k \in 1..Len(asked.order) :
                ProbeKeys[Place(probe_next, PROBE_CACHE_SIZE, Len(asked.order), k)]
                  = asked.order[k]
      BY <2>1 DEF Inv, CInv, PInv, Ring
    <3>2. ASSUME NEW c \in Nat, NEW size \in Nat \ {0}, NEW n \in Nat, NEW k \in 1..n
          PROVE  Place(c, size, n, k) \in 0..(size - 1)
      <4>1. c + size - n + k - 1 \in Int
        OBVIOUS
      <4>2. QED
        BY <4>1, DivModFacts DEF Place
    <3>3. /\ next \in Nat /\ probe_next \in Nat
          /\ Len(order) \in Nat /\ Len(asked.order) \in Nat
      BY <2>1, Numbers DEF Inv, CInv, PInv, CacheTyped, ProbesTyped
    <3>4. \A k \in 1..Len(order) :
             entries[Place(next, CACHE_SIZE, Len(order), k)].bssid = order[k]
      BY <3>1, <3>2, <3>3, Numbers DEF ApKeys, Index
    <3>5. \A k \in 1..Len(asked.order) :
             probes[Place(probe_next, PROBE_CACHE_SIZE, Len(asked.order), k)].src
               = asked.order[k]
      BY <3>1, <3>2, <3>3, Numbers DEF ProbeKeys, ProbeIndex
    <3>6. QED
      BY <3>1, <3>4, <3>5 DEF OldestGoesFirst
  <2>2. QED
    BY <2>1
<1>2. QED
  BY InvHolds, <1>1, PTL

\* The console gets one line per interval at most, whichever handler asks and
\* wherever the tick counter wraps.
THEOREM LinesAlwaysSpaced == Spec => LinesSpaced
<1>1. Inv /\ [Next]_vars => [lines'.parity # lines.parity => lines.age >= INTERVAL]_vars
  <2> SUFFICES ASSUME Inv, [Next]_vars, lines'.parity # lines.parity
               PROVE  lines.age >= INTERVAL
    OBVIOUS
  <2>1. lines' # lines
    OBVIOUS
  <2>2. ASSUME NEW w \in BOOLEAN, LogLine(w), tick' = tick PROVE lines.age >= INTERVAL
    BY <2>2, LogKeepsLInv DEF Inv
  <2>3. ASSUME NEW o \in Observation, handle_ap_observation(o)
        PROVE  \E w \in BOOLEAN : LogLine(w) /\ tick' = tick
    BY <2>1, <2>3 DEF handle_ap_observation, skip_incomplete, update_known, insert_new, vars
  <2>4. ASSUME NEW p \in Probe, handle_probe_request(p)
        PROVE  \E w \in BOOLEAN : LogLine(w) /\ tick' = tick
    BY <2>1, <2>4 DEF handle_probe_request, probe_again, probe_other_name, probe_new_source
  <2>5. ~Clock
    BY ClockKeepsLInv DEF Inv
  <2>6. QED
    BY <2>1, <2>2, <2>3, <2>4, <2>5 DEF Next, vars
<1>2. QED
  BY InvHolds, <1>1, PTL DEF Spec, LinesSpaced

\* What the cache knows of an access point is not lost while it stays cached,
\* and the counter of updates moves exactly when an entry changed, if it is
\* wider than one value.
THEOREM KnowledgeAlwaysKept == ASSUME CounterMod > 1 PROVE Spec => KnowledgeKept
<1> DEFINE Keeps ==
      /\ \A i \in Occupied :
             LET e == entries[i] n == entries'[i]
             IN n.bssid = e.bssid =>
                  /\ e.ssid # NoSsid => n.ssid # NoSsid
                  /\ e.channel # 0 => n.channel # 0
      /\ counts'.updates # counts.updates <=>
             \E i \in Occupied : /\ entries'[i].bssid = entries[i].bssid
                                 /\ entries'[i] # entries[i]
<1>1. ASSUME UNCHANGED cacheVars PROVE Keeps
  BY <1>1 DEF cacheVars
<1>2. ASSUME Inv, NEW o \in Observation, update_known(o) PROVE Keeps
  <2>1. PICK i \in Cached(o.bssid) :
           /\ entries' = [entries EXCEPT ![i] = Merged(@, o)]
           /\ counts' = IF Merged(entries[i], o) # entries[i] THEN Bump({"updates"})
                        ELSE counts
    BY <1>2 DEF update_known
  <2>2. /\ entries \in [Index -> Entry] /\ i \in Index /\ entries[i] \in Entry
        /\ o.bssid \in Mac /\ o.bssid # NoMac
        /\ Merged(entries[i], o).bssid = entries[i].bssid
    BY <1>2, <2>1, EntryTyped DEF Inv, CInv, CacheTyped, Cached
  <2>3. /\ \A k \in Index : entries'[k] = IF k = i THEN Merged(entries[i], o) ELSE entries[k]
        /\ i \in Occupied /\ Occupied \subseteq Index
    BY <2>1, <2>2 DEF Occupied, Used, Cached
  <2>4. LET e == entries[i] n == Merged(entries[i], o)
        IN /\ e.ssid # NoSsid => n.ssid # NoSsid
           /\ e.channel # 0 => n.channel # 0
    BY <2>2 DEF Merged, Entry
  <2>5. counts'.updates # counts.updates <=> Merged(entries[i], o) # entries[i]
    <3>1. Bump({"updates"})["updates"] # counts["updates"]
      <4>1. /\ counts["updates"] \in 0..(CounterMod - 1)
            /\ Bump({"updates"})["updates"] \in
                 {counts["updates"] + 1, counts["updates"] + 1 - CounterMod}
        BY <1>2, CountsUp DEF Inv, CInv
      <4>2. QED
        BY <4>1, Numbers
    <3>2. QED
      BY <2>1, <3>1
  <2>6. QED
    BY <2>2, <2>3, <2>4, <2>5
<1>3. ASSUME Inv, NEW o \in Observation, insert_new(o) PROVE Keeps
  <2> DEFINE slot == Slot(next, CACHE_SIZE)
             S == {"inserts"} \cup IF Used(entries[slot]) THEN {"evictions"} ELSE {}
             e == [bssid |-> o.bssid, ssid |-> o.ssid, channel |-> o.channel,
                   sec |-> o.sec]
  <2>1. /\ entries' = [entries EXCEPT ![slot] = e]
        /\ counts' = Bump(S) /\ Cached(o.bssid) = {}
    BY <1>3 DEF insert_new
  <2>2. e.bssid = o.bssid /\ "updates" \notin S
    OBVIOUS
  <2> HIDE DEF slot, S, e
  <2>3. counts'["updates"] = counts["updates"]
    BY <1>3, <2>1, <2>2, CountsUp DEF Inv, CInv
  <2>4. \A k \in Index : \/ entries'[k] = entries[k]
                         \/ entries'[k].bssid = o.bssid /\ entries[k].bssid # o.bssid
    BY <1>3, <2>1, <2>2 DEF Inv, CInv, CacheTyped, Cached
  <2>5. QED
    BY <2>3, <2>4 DEF Occupied
<1>4. Inv /\ [Next]_vars => Keeps
  <2> SUFFICES ASSUME Inv, [Next]_vars PROVE Keeps
    OBVIOUS
  <2> HIDE DEF Keeps
  <2>1. ASSUME NEW o \in Observation, handle_ap_observation(o) PROVE Keeps
    BY <1>1, <1>2, <1>3, <2>1 DEF handle_ap_observation, skip_incomplete, vars
  <2>2. ASSUME NEW p \in Probe, handle_probe_request(p) PROVE Keeps
    BY <1>1, <2>2 DEF handle_probe_request, probe_again, probe_other_name, probe_new_source
  <2>3. ASSUME Clock \/ UNCHANGED vars PROVE Keeps
    BY <1>1, <2>3 DEF Clock, vars
  <2>4. QED
    BY <2>1, <2>2, <2>3 DEF Next
<1>5. Inv /\ [Next]_vars => [Keeps]_vars
  BY <1>4
<1>6. QED
  BY InvHolds, <1>5, PTL DEF Spec, KnowledgeKept
=============================================================================
