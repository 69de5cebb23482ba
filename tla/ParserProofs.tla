---------------------------- MODULE ParserProofs ----------------------------
(* Proofs about Parser: what parse_security_suites accepts, for every       *)
(* length and count; and, for frames of any elements cut at any byte, that  *)
(* a capture never misleads and that a complete observation is the whole    *)
(* of a well-formed frame.                                                  *)
EXTENDS Parser, TLAPS, FiniteSetTheorems, WellFoundedInduction, SequenceTheorems

Counts == [version : Nat, pairwise : Nat, akm : Nat, pmkid : Nat]

\* The forms of an element that ieee80211_parser.h lists: optional fields are
\* left out from the end only, and no byte is left over.
Grammar(len, is_rsn, s) ==
    LET pairwise == 8 + 4 * s.pairwise
        akm      == pairwise + 2 + 4 * s.akm
        caps     == akm + 2
        pmkid    == caps + 2 + 16 * s.pmkid
    IN /\ s.version = 1 /\ s.pairwise >= 1
       /\ \/ len = pairwise
          \/ /\ s.akm >= 1
             /\ \/ len \in {akm, caps}
                \/ is_rsn /\ len \in {pmkid, pmkid + 4}

\* Comparing a count by division is comparing the bytes it needs.
LEMMA DivisionBounds ==
    ASSUME NEW n \in Nat, NEW rem \in Int
    PROVE  /\ n <= rem \div 4 <=> 4 * n <= rem
           /\ n <= rem \div 16 <=> 16 * n <= rem
  OBVIOUS

\* The decoder, which subtracts and compares by division, accepts exactly the
\* lengths the grammar of the element has for the counts found in it.
THEOREM SuitesMatchGrammar ==
    ASSUME NEW len \in Int, NEW is_rsn \in BOOLEAN, NEW s \in Counts
    PROVE  parse_security_suites(len, is_rsn, s) <=> Grammar(len, is_rsn, s)
<1> DEFINE p == s.pairwise
           a == s.akm
           n == s.pmkid
           r1 == len - 8 - 4 * p
           r2 == IF r1 >= 2 THEN r1 - 2 - 4 * a ELSE r1
           r3 == IF r2 >= 2 THEN r2 - 2 ELSE r2
<1>1. p \in Nat /\ a \in Nat /\ n \in Nat
  BY DEF Counts
<1>2. /\ AfterPairwise(len, s) = r1
      /\ AfterAkm(len, s) = r2
      /\ AfterCaps(len, s) = r3
  BY DEF AfterPairwise, AfterAkm, AfterCaps
<1>3. /\ p <= (len - 8) \div 4 <=> r1 >= 0
      /\ a <= (r1 - 2) \div 4 <=> 4 * a <= r1 - 2
      /\ n <= (r3 - 2) \div 16 <=> 16 * n <= r3 - 2
  <2>1. r1 \in Int /\ r3 \in Int
    BY <1>1
  <2> QED
    BY <1>1, <2>1, DivisionBounds
<1>4. parse_security_suites(len, is_rsn, s) <=>
        /\ s.version = 1 /\ len >= 8 /\ p # 0 /\ r1 >= 0
        /\ r1 >= 2 => a # 0 /\ 4 * a <= r1 - 2
        /\ r2 # 1
        /\ \/ r3 = 0
           \/ is_rsn /\ r3 >= 2 /\ 16 * n <= r3 - 2 /\ r3 - 2 - 16 * n \in {0, 4}
  BY <1>2, <1>3 DEF parse_security_suites
<1>5. Grammar(len, is_rsn, s) <=>
        /\ s.version = 1 /\ p >= 1
        /\ \/ r1 = 0
           \/ /\ a >= 1
              /\ \/ r1 = 2 + 4 * a \/ r1 = 4 + 4 * a
                 \/ is_rsn /\ \/ r1 = 6 + 4 * a + 16 * n
                              \/ r1 = 10 + 4 * a + 16 * n
  BY <1>1 DEF Grammar
<1>6. r1 \in Int /\ (r1 >= 0 => len >= 8) /\ (r1 >= 2 => r2 = r1 - 2 - 4 * a)
      /\ (r1 < 2 => r2 = r1)
  BY <1>1
<1>7. r2 \in Int /\ (r2 >= 2 => r3 = r2 - 2) /\ (r2 < 2 => r3 = r2)
  BY <1>1, <1>6
<1> HIDE DEF p, a, n, r1, r2, r3
<1>8. CASE r1 < 2
  BY <1>1, <1>4, <1>5, <1>6, <1>7, <1>8
<1>9. CASE r1 >= 2 /\ r2 < 2
  BY <1>1, <1>4, <1>5, <1>6, <1>7, <1>9
<1>10. CASE r1 >= 2 /\ r2 >= 2
  BY <1>1, <1>4, <1>5, <1>6, <1>7, <1>10
<1> QED
  BY <1>6, <1>7, <1>8, <1>9, <1>10

-----------------------------------------------------------------------------
(* Where the elements of a frame begin *)

\* Induction over a set of naturals: the initial segments of its complement
\* are finite sets, which inclusion orders well.
LEMMA SetInduction ==
    ASSUME NEW S, 0 \in S, \A n \in Nat : n \in S => n + 1 \in S
    PROVE  \A n \in Nat : n \in S
<1> SUFFICES ASSUME NEW z \in Nat, z \notin S PROVE FALSE
  OBVIOUS
<1> DEFINE Rest == {n \in Nat : n \notin S}
           Segments == {0..n : n \in Rest}
<1>1. Segments \subseteq FiniteSubsetsOf(Nat) /\ Segments # {}
  <2>1. \A n \in Rest : 0..n \in SUBSET Nat /\ IsFiniteSet(0..n)
    BY FS_Interval
  <2>2. z \in Rest
    OBVIOUS
  <2>3. QED
    BY <2>1, <2>2 DEF FiniteSubsetsOf
<1>2. IsWellFoundedOn(StrictSubsetOrdering(Nat), FiniteSubsetsOf(Nat))
  BY FS_StrictSubsetOrderingWellFounded
<1>3. \E X \in Segments : \A Y \in Segments : ~(<<Y, X>> \in StrictSubsetOrdering(Nat))
  <2> HIDE DEF Segments
  <2>1. QED
    BY <1>1, <1>2, WFMin
<1>4. PICK x \in Rest : \A y \in Rest : ~(<<0..y, 0..x>> \in StrictSubsetOrdering(Nat))
  BY <1>3
<1>5. x \in Nat /\ x # 0
  OBVIOUS
<1>6. x - 1 \in Rest
  <2>1. x - 1 \in Nat /\ (x - 1) + 1 = x
    BY <1>5
  <2>2. QED
    BY <2>1
<1>7. 0..(x - 1) \in SUBSET Nat /\ 0..x \in SUBSET Nat /\ 0..(x - 1) \subseteq 0..x
      /\ x \in 0..x /\ x \notin 0..(x - 1)
  BY <1>5
<1>8. QED
  BY <1>4, <1>6, <1>7 DEF StrictSubsetOrdering

\* The positions of the elements of a frame f, and of its end.
Positions(f, off) ==
    /\ off[1] = 0
    /\ \A k \in 1..Len(f) : off[k + 1] = off[k] + 2 + f[k].len
    /\ \A k \in 1..(Len(f) + 1) : off[k] \in Nat /\ off[k] <= off[Len(f) + 1]

\* The recursive definition of Offset has a solution.
LEMMA OffsetDefined ==
    Offset = [k \in 1..(MAX_ELEMENTS + 1) |->
                IF k = 1 THEN 0 ELSE Offset[k - 1] + 2 + ies[k - 1].len]
<1> DEFINE Solves(g, n) == g = [k \in 1..n |->
                                  IF k = 1 THEN 0 ELSE g[k - 1] + 2 + ies[k - 1].len]
           S == {n \in Nat : \E g : Solves(g, n + 1)}
<1>1. 0 \in S
  <2> DEFINE g == [k \in 1..1 |-> 0]
  <2>1. Solves(g, 0 + 1)
    OBVIOUS
  <2> HIDE DEF g, Solves
  <2>2. QED
    BY <2>1
<1>2. ASSUME NEW n \in Nat, n \in S PROVE n + 1 \in S
  <2>1. PICK g : Solves(g, n + 1)
    BY <1>2
  <2> DEFINE h == [k \in 1..(n + 2) |-> IF k <= n + 1 THEN g[k]
                                        ELSE g[n + 1] + 2 + ies[n + 1].len]
  <2>2. ASSUME NEW k \in 1..(n + 2)
        PROVE  h[k] = IF k = 1 THEN 0 ELSE h[k - 1] + 2 + ies[k - 1].len
    <3>1. CASE k = 1
      BY <2>1, <3>1
    <3>2. CASE k # 1 /\ k <= n + 1
      <4>1. k \in 1..(n + 1) /\ k - 1 \in 1..(n + 2) /\ k - 1 <= n + 1
        BY <3>2
      <4>2. h[k] = g[k] /\ h[k - 1] = g[k - 1]
        BY <3>2, <4>1
      <4>3. g[k] = g[k - 1] + 2 + ies[k - 1].len
        BY <2>1, <3>2, <4>1
      <4>4. QED
        BY <3>2, <4>2, <4>3
    <3>3. CASE k = n + 2
      <4>1. k # 1 /\ k - 1 = n + 1 /\ n + 1 \in 1..(n + 2) /\ ~(k <= n + 1)
        BY <3>3
      <4>2. h[k] = g[n + 1] + 2 + ies[n + 1].len /\ h[n + 1] = g[n + 1]
        BY <3>3, <4>1
      <4>3. QED
        BY <4>1, <4>2
    <3>4. QED
      BY <3>1, <3>2, <3>3
  <2>3. h = [k \in 1..(n + 2) |-> IF k = 1 THEN 0 ELSE h[k - 1] + 2 + ies[k - 1].len]
    <3>1. h = [k \in 1..(n + 2) |-> h[k]]
      OBVIOUS
    <3> HIDE DEF h
    <3>2. QED
      BY <2>2, <3>1
  <2>4. (n + 1) + 1 = n + 2
    OBVIOUS
  <2> HIDE DEF h
  <2>5. QED
    BY <2>3, <2>4
<1>3. \A n \in Nat : n \in S
  <2> HIDE DEF S
  <2>1. QED
    BY <1>1, <1>2, SetInduction
<1>4. \E g : Solves(g, MAX_ELEMENTS + 1)
  BY <1>3, BoundAssumption
<1>5. Offset = CHOOSE g : Solves(g, MAX_ELEMENTS + 1)
  BY DEF Offset
<1>6. Solves(CHOOSE g : Solves(g, MAX_ELEMENTS + 1), MAX_ELEMENTS + 1)
  <2> HIDE DEF Solves
  <2>1. QED
    BY <1>4
<1>7. QED
  BY <1>5, <1>6

LEMMA OffsetPositions ==
    ASSUME ies \in Seq(Element), Len(ies) <= MAX_ELEMENTS
    PROVE  Positions(ies, Offset)
<1> DEFINE L == Len(ies)
<1>0. L \in Nat /\ L <= MAX_ELEMENTS /\ MAX_ELEMENTS \in Nat
  BY BoundAssumption
<1>1. \A k \in 1..L : ies[k].len \in Nat
  BY ElementAssumption
<1>2. Offset[1] = 0
  BY <1>0, OffsetDefined
<1>3. ASSUME NEW k \in 1..L PROVE Offset[k + 1] = Offset[k] + 2 + ies[k].len
  <2>1. k + 1 \in 1..(MAX_ELEMENTS + 1) /\ k + 1 # 1 /\ (k + 1) - 1 = k
    BY <1>0
  <2>2. QED
    BY <2>1, OffsetDefined
<1>4. \A n \in Nat : n <= L => Offset[n + 1] \in Nat
  <2> DEFINE S == {n \in Nat : n <= L => Offset[n + 1] \in Nat}
  <2>1. 0 \in S
    BY <1>2
  <2>2. ASSUME NEW n \in Nat, n \in S PROVE n + 1 \in S
    <3>1. SUFFICES ASSUME n + 1 <= L PROVE Offset[(n + 1) + 1] \in Nat
      OBVIOUS
    <3>2. n + 1 \in 1..L /\ Offset[n + 1] \in Nat
      BY <1>0, <2>2, <3>1
    <3>3. Offset[(n + 1) + 1] = Offset[n + 1] + 2 + ies[n + 1].len
      BY <1>3, <3>2
    <3>4. QED
      BY <1>1, <3>2, <3>3
  <2> HIDE DEF S
  <2>3. \A n \in Nat : n \in S
    BY <2>1, <2>2, SetInduction
  <2>4. QED
    BY <2>3 DEF S
<1>5. ASSUME NEW k \in 1..(L + 1) PROVE Offset[k] \in Nat
  <2>1. k - 1 \in Nat /\ k - 1 <= L /\ (k - 1) + 1 = k
    BY <1>0
  <2>2. QED
    BY <1>4, <2>1
<1>6. \A n \in Nat : n <= L => Offset[(L - n) + 1] <= Offset[L + 1]
  <2> DEFINE S == {n \in Nat : n <= L => Offset[(L - n) + 1] <= Offset[L + 1]}
  <2>1. 0 \in S
    <3>1. L - 0 = L /\ L + 1 \in 1..(L + 1)
      BY <1>0
    <3>2. Offset[L + 1] <= Offset[L + 1]
      BY <1>5, <3>1
    <3>3. QED
      BY <3>1, <3>2
  <2>2. ASSUME NEW n \in Nat, n \in S PROVE n + 1 \in S
    <3>1. SUFFICES ASSUME n + 1 <= L PROVE Offset[(L - (n + 1)) + 1] <= Offset[L + 1]
      OBVIOUS
    <3> DEFINE k == L - n
    <3>2. /\ k \in 1..L /\ k \in 1..(L + 1) /\ k + 1 \in 1..(L + 1) /\ L + 1 \in 1..(L + 1)
          /\ (L - (n + 1)) + 1 = k
      BY <1>0, <3>1
    <3>3. Offset[k + 1] <= Offset[L + 1]
      BY <1>0, <2>2, <3>1
    <3> HIDE DEF k
    <3>4. Offset[k + 1] = Offset[k] + 2 + ies[k].len /\ ies[k].len \in Nat
      BY <1>1, <1>3, <3>2
    <3>5. Offset[k] \in Nat /\ Offset[L + 1] \in Nat
      BY <1>5, <3>2
    <3>6. Offset[k] <= Offset[L + 1]
      BY <3>3, <3>4, <3>5
    <3>7. QED
      BY <3>2, <3>6
  <2> HIDE DEF S
  <2>3. \A n \in Nat : n \in S
    BY <2>1, <2>2, SetInduction
  <2>4. QED
    BY <2>3 DEF S
<1>7. ASSUME NEW k \in 1..(L + 1) PROVE Offset[k] <= Offset[L + 1]
  <2>1. L + 1 - k \in Nat /\ L + 1 - k <= L /\ (L - (L + 1 - k)) + 1 = k
    BY <1>0
  <2>2. QED
    BY <1>6, <2>1
<1>8. QED
  BY <1>2, <1>3, <1>5, <1>7 DEF Positions

-----------------------------------------------------------------------------
(* What a walker has heard *)

\* The elements of a frame f with some identifier that begin before its n-th.
Prior(f, id, n) == {k \in 1..(n - 1) : f[k].id = id}
Once(f, id, n) == \A j, k \in Prior(f, id, n) : j = k
First(f, id, n, k) == k \in Prior(f, id, n) /\ \A j \in Prior(f, id, n) : k <= j

LEMMA PriorGrows ==
    ASSUME NEW f, NEW id, NEW n \in Nat \ {0}
    PROVE  /\ Prior(f, id, n + 1) = {} <=> Prior(f, id, n) = {} /\ f[n].id # id
           /\ Once(f, id, n + 1) <=> Once(f, id, n) /\ (f[n].id = id => Prior(f, id, n) = {})
           /\ \A k : First(f, id, n + 1, k) <=>
                       \/ First(f, id, n, k)
                       \/ Prior(f, id, n) = {} /\ f[n].id = id /\ k = n
<1>1. Prior(f, id, n + 1) = Prior(f, id, n) \cup {k \in {n} : f[k].id = id}
  BY DEF Prior
<1>2. n \notin Prior(f, id, n) /\ \A k \in Prior(f, id, n) : k \in Nat /\ k < n
  BY DEF Prior
<1>3. Prior(f, id, n + 1) = {} <=> Prior(f, id, n) = {} /\ f[n].id # id
  BY <1>1
<1>4. Once(f, id, n + 1) <=> Once(f, id, n) /\ (f[n].id = id => Prior(f, id, n) = {})
  <2>1. CASE f[n].id = id
    BY <1>1, <1>2, <2>1 DEF Once
  <2>2. CASE f[n].id # id
    BY <1>1, <2>2 DEF Once
  <2>3. QED
    BY <2>1, <2>2
<1>5. ASSUME NEW k
      PROVE  First(f, id, n + 1, k) <=>
               \/ First(f, id, n, k)
               \/ Prior(f, id, n) = {} /\ f[n].id = id /\ k = n
  <2>1. CASE f[n].id = id
    BY <1>1, <1>2, <2>1 DEF First
  <2>2. CASE f[n].id # id
    BY <1>1, <2>2 DEF First
  <2>3. QED
    BY <2>1, <2>2
<1>6. QED
  BY <1>3, <1>4, <1>5

LEMMA PriorStarts == \A f, id : Prior(f, id, 1) = {} /\ Once(f, id, 1)
BY DEF Prior, Once

\* A later walker has heard what an earlier one did, and heard it first.
LEMMA PriorMonotone ==
    ASSUME NEW f, NEW id, NEW n \in Nat \ {0}, NEW m \in Nat \ {0}, n <= m
    PROVE  /\ Prior(f, id, n) # {} => Prior(f, id, m) # {}
           /\ Once(f, id, m) => Once(f, id, n)
           /\ \A k : First(f, id, n, k) => First(f, id, m, k)
<1>1. Prior(f, id, n) \subseteq Prior(f, id, m)
  BY DEF Prior
<1>2. \A k \in Prior(f, id, n) : k \in Nat /\ k < n
  BY DEF Prior
<1>3. \A k \in Prior(f, id, m) : k \notin Prior(f, id, n) => k \in Nat /\ k >= n
  BY DEF Prior
<1>4. QED
  BY <1>1, <1>2, <1>3 DEF Once, First

\* Something that was heard was heard first at some element.
LEMMA FirstExists ==
    ASSUME NEW f, NEW id, NEW n \in Nat \ {0}, Prior(f, id, n) # {}
    PROVE  \E k : First(f, id, n, k)
<1> DEFINE S == {m \in Nat : Prior(f, id, m + 1) # {} => \E k : First(f, id, m + 1, k)}
<1>1. 0 \in S
  BY PriorStarts
<1>2. ASSUME NEW m \in Nat, m \in S PROVE m + 1 \in S
  <2> DEFINE n2 == m + 1
  <2>1. n2 \in Nat \ {0} /\ (Prior(f, id, n2) # {} => \E k : First(f, id, n2, k))
    BY <1>2
  <2> HIDE DEF n2
  <2>2. Prior(f, id, n2 + 1) # {} => \E k : First(f, id, n2 + 1, k)
    BY <2>1, PriorGrows
  <2>3. QED
    BY <2>2 DEF n2
<1>3. \A m \in Nat : m \in S
  <2> HIDE DEF S
  <2>1. QED
    BY <1>1, <1>2, SetInduction
<1>4. n - 1 \in S /\ (n - 1) + 1 = n
  BY <1>3
<1>5. QED
  BY <1>4

\* The element a walker stops at, in a frame of mode m.
Refused(m, f, k) ==
    \/ f[k].id = "ssid" /\ f[k].len > SSID_MAX
    \/ f[k].id = "ds" /\ f[k].len # 1
    \/ f[k].id \in {"rsn", "wpa"} /\ m = "ap" /\ Prior(f, f[k].id, k) = {} /\ ~Decodes(f[k])

Hardware(b) == IF b \in 1..HW_MAX THEN b ELSE 0

\* What a walker in front of the n-th element has seen, and has written.
Heard(m, f, n, seen, o) ==
    /\ \A k \in 1..(n - 1) : ~Refused(m, f, k)
    /\ \A id \in {"ssid", "ds"} : id \in seen <=> Prior(f, id, n) # {}
    /\ m = "ap" => \A id \in {"rsn", "wpa"} : id \in seen <=> Prior(f, id, n) # {}
    /\ o.dup_critical <=> ~Once(f, "ssid", n) \/ (m = "ap" /\ ~Once(f, "ds", n))
    /\ o.dup_security <=> m = "ap" /\ ~(Once(f, "rsn", n) /\ Once(f, "wpa", n))
    /\ Prior(f, "ssid", n) = {} => o.ssid = "none"
    /\ \A k : First(f, "ssid", n, k) => o.ssid = f[k].body
    /\ m # "ap" \/ Prior(f, "ds", n) = {} => o.channel = 0
    /\ m = "ap" => \A k : First(f, "ds", n, k) => o.channel = Hardware(f[k].body)
    /\ m # "ap" \/ Prior(f, "rsn", n) = {} => o.rsn = NoSuites
    /\ m = "ap" => \A k : First(f, "rsn", n, k) => o.rsn = f[k].body
    /\ m # "ap" \/ Prior(f, "wpa", n) = {} => o.wpa = NoSuites
    /\ m = "ap" => \A k : First(f, "wpa", n, k) => o.wpa = f[k].body

\* Whose presence it has noted.
Noted(m, f, n, o) ==
    /\ o.rsn_present <=> m = "ap" /\ Prior(f, "rsn", n) # {}
    /\ o.wpa_present <=> m = "ap" /\ Prior(f, "wpa", n) # {}

OutShape(o) ==
    /\ DOMAIN o = {"ssid", "channel", "rsn_present", "wpa_present", "rsn", "wpa", "malformed",
                   "incomplete", "dup_critical", "dup_security", "complete"}
    /\ o.rsn_present \in BOOLEAN /\ o.wpa_present \in BOOLEAN
    /\ o.malformed \in BOOLEAN /\ o.incomplete \in BOOLEAN
    /\ o.dup_critical \in BOOLEAN /\ o.dup_security \in BOOLEAN /\ o.complete \in BOOLEAN

Shape(r) ==
    /\ DOMAIN r = {"next", "pos", "seen", "out", "done"}
    /\ OutShape(r.out) /\ r.done \in BOOLEAN

\* What taking in the n-th element adds to what was seen and written: the
\* first of a kind is written, the others are noted as duplicates.
Takes(m, f, n, seen, o, seen2, o2) ==
    LET e == f[n]
        New(id) == e.id = id /\ id \notin seen
        Again(id) == e.id = id /\ id \in seen
        ap == m = "ap"
    IN /\ \A id \in {"ssid", "ds"} : id \in seen2 <=> id \in seen \/ e.id = id
       /\ \A id \in {"rsn", "wpa"} : id \in seen2 <=> id \in seen \/ (e.id = id /\ ap)
       /\ o2.dup_critical <=> o.dup_critical \/ Again("ssid") \/ (ap /\ Again("ds"))
       /\ o2.dup_security <=> o.dup_security \/ (ap /\ (Again("rsn") \/ Again("wpa")))
       /\ o2.ssid = IF New("ssid") THEN e.body ELSE o.ssid
       /\ o2.channel = IF ap /\ New("ds") THEN Hardware(e.body) ELSE o.channel
       /\ o2.rsn = IF ap /\ New("rsn") THEN e.body ELSE o.rsn
       /\ o2.wpa = IF ap /\ New("wpa") THEN e.body ELSE o.wpa
       /\ o2.rsn_present <=> o.rsn_present \/ (ap /\ e.id = "rsn")
       /\ o2.wpa_present <=> o.wpa_present \/ (ap /\ e.id = "wpa")

LEMMA HeardGrows ==
    ASSUME NEW m, NEW f, NEW n \in Nat \ {0}, NEW seen, NEW o, NEW seen2, NEW o2,
           OutShape(o), OutShape(o2),
           Heard(m, f, n, seen, o), ~Refused(m, f, n), Takes(m, f, n, seen, o, seen2, o2)
    PROVE  /\ Heard(m, f, n + 1, seen2, o2)
           /\ Noted(m, f, n, o) => Noted(m, f, n + 1, o2)
<1> DEFINE N == n + 1
           e == f[n]
<1>1. \A id : /\ Prior(f, id, N) = {} <=> Prior(f, id, n) = {} /\ e.id # id
              /\ Once(f, id, N) <=> Once(f, id, n) /\ (e.id = id => Prior(f, id, n) = {})
              /\ \A k : First(f, id, N, k) <=>
                          \/ First(f, id, n, k)
                          \/ Prior(f, id, n) = {} /\ e.id = id /\ k = n
  BY PriorGrows
<1>2. \A id, k : First(f, id, n, k) => Prior(f, id, n) # {}
  BY DEF First
<1>3. \A k \in 1..(N - 1) : ~Refused(m, f, k)
  <2>1. \A k \in 1..(N - 1) : k = n \/ k \in 1..(n - 1)
    OBVIOUS
  <2>2. QED
    BY <2>1 DEF Heard
<1> HIDE DEF N
<1>4. \A id \in {"ssid", "ds"} : id \in seen2 <=> Prior(f, id, N) # {}
  BY <1>1 DEF Heard, Takes
<1>5. m = "ap" => \A id \in {"rsn", "wpa"} : id \in seen2 <=> Prior(f, id, N) # {}
  BY <1>1 DEF Heard, Takes
<1>6. o2.dup_critical <=> ~Once(f, "ssid", N) \/ (m = "ap" /\ ~Once(f, "ds", N))
  <2>1. /\ "ssid" \in seen <=> Prior(f, "ssid", n) # {}
        /\ "ds" \in seen <=> Prior(f, "ds", n) # {}
        /\ o.dup_critical <=> ~Once(f, "ssid", n) \/ (m = "ap" /\ ~Once(f, "ds", n))
    BY DEF Heard
  <2>2. o2.dup_critical <=> \/ o.dup_critical
                            \/ e.id = "ssid" /\ "ssid" \in seen
                            \/ m = "ap" /\ e.id = "ds" /\ "ds" \in seen
    BY DEF Takes
  <2>3. QED
    BY <1>1, <2>1, <2>2
<1>7. o2.dup_security <=> m = "ap" /\ ~(Once(f, "rsn", N) /\ Once(f, "wpa", N))
  <2>1. /\ m = "ap" => ("rsn" \in seen <=> Prior(f, "rsn", n) # {})
        /\ m = "ap" => ("wpa" \in seen <=> Prior(f, "wpa", n) # {})
        /\ o.dup_security <=> m = "ap" /\ ~(Once(f, "rsn", n) /\ Once(f, "wpa", n))
    BY DEF Heard
  <2>2. o2.dup_security <=> \/ o.dup_security
                            \/ m = "ap" /\ e.id = "rsn" /\ "rsn" \in seen
                            \/ m = "ap" /\ e.id = "wpa" /\ "wpa" \in seen
    BY DEF Takes
  <2>3. QED
    BY <1>1, <2>1, <2>2
<1>8. /\ Prior(f, "ssid", N) = {} => o2.ssid = "none"
      /\ \A k : First(f, "ssid", N, k) => o2.ssid = f[k].body
  BY <1>1, <1>2 DEF Heard, Takes
<1>9. /\ m # "ap" \/ Prior(f, "ds", N) = {} => o2.channel = 0
      /\ m = "ap" => \A k : First(f, "ds", N, k) => o2.channel = Hardware(f[k].body)
  BY <1>1, <1>2 DEF Heard, Takes
<1>10. /\ m # "ap" \/ Prior(f, "rsn", N) = {} => o2.rsn = NoSuites
       /\ m = "ap" => \A k : First(f, "rsn", N, k) => o2.rsn = f[k].body
  BY <1>1, <1>2 DEF Heard, Takes
<1>11. /\ m # "ap" \/ Prior(f, "wpa", N) = {} => o2.wpa = NoSuites
       /\ m = "ap" => \A k : First(f, "wpa", N, k) => o2.wpa = f[k].body
  BY <1>1, <1>2 DEF Heard, Takes
<1>12. Heard(m, f, N, seen2, o2)
  BY <1>3, <1>4, <1>5, <1>6, <1>7, <1>8, <1>9, <1>10, <1>11 DEF Heard
<1>13. ASSUME Noted(m, f, n, o) PROVE Noted(m, f, N, o2)
  <2>1. /\ o2.rsn_present <=> o.rsn_present \/ (m = "ap" /\ e.id = "rsn")
        /\ o2.wpa_present <=> o.wpa_present \/ (m = "ap" /\ e.id = "wpa")
    BY DEF Takes
  <2>2. QED
    BY <1>1, <1>13, <2>1 DEF Noted
<1>14. QED
  BY <1>12, <1>13 DEF N

-----------------------------------------------------------------------------
(* What the actions do to a walker *)

Walks == DOMAIN walk = Walker /\ \A w \in Walker : Shape(walk[w])

Others(w) == \A v \in Walker : v # w => walk'[v] = walk[v]

LEMMA AdvanceEffect ==
    ASSUME Walks, NEW w \in Walker, NEW out, NEW seen, Advance(w, out, seen), OutShape(out)
    PROVE  /\ Walks' /\ Others(w) /\ UNCHANGED frameVars
           /\ walk'[w].next = walk[w].next + 1
           /\ walk'[w].pos = walk[w].pos + 2 + ies[walk[w].next].len
           /\ walk'[w].seen = walk[w].seen \cup seen
           /\ walk'[w].out = out /\ walk'[w].done = walk[w].done
<1>1. /\ DOMAIN walk' = Walker /\ Others(w)
      /\ DOMAIN walk'[w] = {"next", "pos", "seen", "out", "done"}
      /\ walk'[w].next = walk[w].next + 1
      /\ walk'[w].pos = walk[w].pos + 2 + ies[walk[w].next].len
      /\ walk'[w].seen = walk[w].seen \cup seen
      /\ walk'[w].out = out /\ walk'[w].done = walk[w].done
  BY DEF Walks, Shape, Advance, Others, Ie
<1>2. Walks'
  BY <1>1 DEF Walks, Shape, Others
<1>3. QED
  BY <1>1, <1>2 DEF Advance

\* What the caller adds to what a walker wrote.
Told(w, out, o2) ==
    /\ o2.incomplete <=> out.incomplete \/ w = "cut"
    /\ o2.complete <=> ~(out.malformed \/ o2.incomplete \/ out.dup_critical \/ out.dup_security)
    /\ o2.ssid = out.ssid /\ o2.channel = out.channel /\ o2.rsn = out.rsn /\ o2.wpa = out.wpa
    /\ o2.rsn_present = out.rsn_present /\ o2.wpa_present = out.wpa_present
    /\ o2.malformed = out.malformed /\ o2.dup_critical = out.dup_critical
    /\ o2.dup_security = out.dup_security

LEMMA StopEffect ==
    ASSUME Walks, NEW w \in Walker, NEW out, Stop(w, out), OutShape(out)
    PROVE  /\ Walks' /\ Others(w) /\ UNCHANGED frameVars
           /\ walk'[w].next = walk[w].next /\ walk'[w].pos = walk[w].pos
           /\ walk'[w].seen = walk[w].seen /\ walk'[w].done
           /\ Told(w, out, walk'[w].out)
<1> DEFINE told == [out EXCEPT !.incomplete = @ \/ w = "cut"]
           o2 == [told EXCEPT !.complete =
                    ~(told.malformed \/ told.incomplete
                      \/ told.dup_critical \/ told.dup_security)]
<1>1. walk' = [walk EXCEPT ![w].done = TRUE, ![w].out = o2] /\ UNCHANGED frameVars
  BY DEF Stop
<1>2. /\ OutShape(told) /\ (told.incomplete <=> out.incomplete \/ w = "cut")
      /\ told.ssid = out.ssid /\ told.channel = out.channel /\ told.rsn = out.rsn
      /\ told.wpa = out.wpa /\ told.rsn_present = out.rsn_present
      /\ told.wpa_present = out.wpa_present /\ told.malformed = out.malformed
      /\ told.dup_critical = out.dup_critical /\ told.dup_security = out.dup_security
  BY DEF OutShape
<1> HIDE DEF told
<1>3. OutShape(o2) /\ Told(w, out, o2)
  BY <1>2 DEF OutShape, Told
<1> HIDE DEF o2
<1>4. /\ DOMAIN walk' = Walker /\ Others(w)
      /\ DOMAIN walk'[w] = {"next", "pos", "seen", "out", "done"}
      /\ walk'[w].next = walk[w].next /\ walk'[w].pos = walk[w].pos
      /\ walk'[w].seen = walk[w].seen /\ walk'[w].out = o2 /\ walk'[w].done = TRUE
  BY <1>1 DEF Walks, Shape, Others
<1>5. Walks'
  BY <1>3, <1>4 DEF Walks, Shape, Others
<1>6. QED
  BY <1>1, <1>3, <1>4, <1>5

-----------------------------------------------------------------------------
(* The inductive invariant *)

\* The frame and the place its capture ends; len is the length of the element
\* area a walker sees.
FrameOK(m, f, e, c, off) ==
    /\ m \in {"ap", "probe"} /\ f \in Seq(Element) /\ Positions(f, off)
    /\ e \in Nat /\ e \in {off[Len(f) + 1] + d : d \in {-1, 0, 1}} /\ c \in -1..(e - 1)

Seen(w, e, c) == IF w = "whole" THEN e ELSE c

Reading(m, f, off, r) ==
    /\ r.next \in 1..(Len(f) + 1) /\ r.pos = off[r.next]
    /\ Heard(m, f, r.next, r.seen, r.out)

OnTheWay(m, f, r) ==
    /\ Noted(m, f, r.next, r.out)
    /\ ~r.out.malformed /\ ~r.out.incomplete /\ ~r.out.complete

\* Where and why a walker stopped: in front of an element it refuses, in front
\* of one that is not all there, or at the end.
Refuses(m, f, off, len, n) == n <= Len(f) /\ off[n + 1] <= len /\ Refused(m, f, n)
Lacks(f, off, len, n) == \/ len = off[n] + 1
                         \/ n <= Len(f) /\ off[n + 1] > len

Stopped(m, f, off, len, w, r) ==
    LET n == r.next o == r.out
    IN /\ \/ ~o.malformed /\ Noted(m, f, n, o)
          \/ w = "whole" /\ Lacks(f, off, len, n) /\ Noted(m, f, n, o)
          \/ Refuses(m, f, off, len, n) /\ Noted(m, f, n + 1, o)
       /\ o.malformed => \/ Refuses(m, f, off, len, n)
                         \/ w = "whole" /\ Lacks(f, off, len, n)
       /\ IF w = "cut" THEN ~o.complete
          ELSE /\ o.complete <=> ~(o.malformed \/ o.dup_critical \/ o.dup_security)
               /\ ~o.malformed => off[n] = len

At(m, f, off, len, w, r) ==
    /\ Reading(m, f, off, r)
    /\ IF r.done THEN Stopped(m, f, off, len, w, r) ELSE OnTheWay(m, f, r)

IInv ==
    /\ FrameOK(mode, ies, end, cut, Offset) /\ Walks
    /\ \A w \in Walker : At(mode, ies, Offset, Seen(w, end, cut), w, walk[w])
    /\ walk["cut"].next <= walk["whole"].next
    /\ walk["cut"].done => walk["whole"].done

LEMMA InitIInv == Init => IInv
<1> SUFFICES ASSUME Init PROVE IInv
  OBVIOUS
<1>1. ies \in Seq(Element) /\ Len(ies) <= MAX_ELEMENTS
  <2>1. PICK n \in 0..MAX_ELEMENTS : ies \in [1..n -> Element]
    BY DEF Init
  <2>2. QED
    BY <2>1, BoundAssumption
<1>2. Positions(ies, Offset)
  BY <1>1, OffsetPositions
<1>3. FrameOK(mode, ies, end, cut, Offset)
  BY <1>1, <1>2 DEF Init, FrameOK, Total
<1>4. Walks
  BY DEF Init, Walks, Shape, OutShape, Silence
<1>5. ASSUME NEW w \in Walker PROVE At(mode, ies, Offset, Seen(w, end, cut), w, walk[w])
  <2>1. /\ walk[w].next = 1 /\ walk[w].pos = 0 /\ walk[w].seen = {} /\ ~walk[w].done
        /\ walk[w].out = Silence
    BY DEF Init
  <2>2. \A id : Prior(ies, id, 1) = {} /\ Once(ies, id, 1) /\ \A k : ~First(ies, id, 1, k)
    BY PriorStarts DEF First
  <2>3. Heard(mode, ies, 1, {}, Silence) /\ Noted(mode, ies, 1, Silence)
    BY <2>2 DEF Heard, Noted, Silence
  <2>4. Reading(mode, ies, Offset, walk[w]) /\ OnTheWay(mode, ies, walk[w])
    BY <1>1, <1>2, <2>1, <2>3 DEF Reading, OnTheWay, Positions, Silence
  <2>5. QED
    BY <2>1, <2>4 DEF At
<1>6. walk["cut"].next <= walk["whole"].next /\ (walk["cut"].done => walk["whole"].done)
  BY DEF Init, Walker
<1>7. QED
  BY <1>3, <1>4, <1>5, <1>6 DEF IInv

-----------------------------------------------------------------------------
(* Every action either takes an element in or stops *)

\* The element the walker is in front of, when there are two bytes for it.
LEMMA InFront ==
    ASSUME IInv, NEW w \in Walker, Walking(w)
    PROVE  LET n == walk[w].next len == Seen(w, end, cut)
           IN /\ Length(w) = len /\ n \in Nat \ {0} /\ len \in Int
              /\ Left(w) = len - Offset[n]
              /\ Offset[n] \in Nat /\ ~walk[w].done
              /\ Reading(mode, ies, Offset, walk[w]) /\ OnTheWay(mode, ies, walk[w])
              /\ Left(w) >= 2 =>
                   /\ n \in 1..Len(ies) /\ Ie(w) = ies[n]
                   /\ Offset[n + 1] = Offset[n] + 2 + ies[n].len
                   /\ ies[n].len \in Nat /\ Offset[n + 1] \in Nat
                   /\ Ie(w).len <= Left(w) - 2 <=> Offset[n + 1] <= len
<1> DEFINE n == walk[w].next
           len == Seen(w, end, cut)
           L == Len(ies)
<1>1. /\ FrameOK(mode, ies, end, cut, Offset) /\ L \in Nat /\ Walks
      /\ Reading(mode, ies, Offset, walk[w])
      /\ ~walk[w].done /\ OnTheWay(mode, ies, walk[w])
  BY DEF IInv, FrameOK, At, Walking
<1>2. len \in Int /\ Length(w) = len /\ len <= end /\ end <= Offset[L + 1] + 1 /\ end \in Nat
  BY <1>1 DEF FrameOK, Seen, Walker, Length, Positions
<1>3. n \in 1..(L + 1) /\ Offset[n] \in Nat /\ walk[w].pos = Offset[n]
  BY <1>1 DEF Reading, FrameOK, Positions
<1>4. Left(w) = len - Offset[n]
  BY <1>2, <1>3 DEF Left
<1>5. ASSUME Left(w) >= 2 PROVE n \in 1..L
  <2>1. n # L + 1
    BY <1>1, <1>2, <1>3, <1>4, <1>5 DEF FrameOK, Positions
  <2>2. QED
    BY <1>1, <1>3, <2>1
<1>6. ASSUME n \in 1..L
      PROVE  /\ Offset[n + 1] = Offset[n] + 2 + ies[n].len
             /\ ies[n].len \in Nat /\ Offset[n + 1] \in Nat /\ Ie(w) = ies[n]
             /\ Ie(w).len <= Left(w) - 2 <=> Offset[n + 1] <= len
  <2>1. ies[n].len \in Nat /\ Offset[n + 1] = Offset[n] + 2 + ies[n].len
    BY SMTT(30), <1>1, <1>6, ElementAssumption DEF FrameOK, Positions
  <2>2. Ie(w) = ies[n]
    BY DEF Ie
  <2> DEFINE o == Offset[n]
             l == ies[n].len
  <2>3. o \in Nat /\ l \in Nat /\ Offset[n + 1] = o + 2 + l /\ Ie(w).len = l /\ Left(w) = len - o
    BY <1>3, <1>4, <2>1, <2>2
  <2> HIDE DEF o, l, n, len
  <2>4. Offset[n + 1] \in Nat /\ (Ie(w).len <= Left(w) - 2 <=> Offset[n + 1] <= len)
    BY <1>2, <2>3
  <2>5. QED
    BY <2>1, <2>2, <2>4 DEF n, len
<1>7. QED
  BY <1>1, <1>2, <1>3, <1>4, <1>5, <1>6

\* Taking in the element a walker is in front of.
Reads(w) ==
    LET r == walk[w] r2 == walk'[w] n == r.next
    IN /\ Walking(w) /\ n \in 1..Len(ies) /\ Offset[n + 1] <= Seen(w, end, cut)
       /\ ~Refused(mode, ies, n)
       /\ Walks' /\ Others(w) /\ UNCHANGED frameVars
       /\ r2.next = n + 1 /\ r2.pos = r.pos + 2 + ies[n].len /\ r2.done = r.done
       /\ Takes(mode, ies, n, r.seen, r.out, r2.seen, r2.out)
       /\ ~r2.out.malformed /\ ~r2.out.incomplete /\ ~r2.out.complete

LEMMA ReadsKeeps ==
    ASSUME IInv, NEW w \in Walker, Reads(w)
    PROVE  At(mode, ies, Offset, Seen(w, end, cut), w, walk'[w]) /\ ~walk'[w].done
<1> DEFINE r == walk[w]
           r2 == walk'[w]
           n == r.next
<1>1. /\ n \in Nat \ {0} /\ Reading(mode, ies, Offset, r) /\ OnTheWay(mode, ies, r)
      /\ ~r.done /\ n \in 1..Len(ies)
  BY InFront DEF Reads
<1>2. OutShape(r.out) /\ OutShape(r2.out)
  BY DEF Reads, IInv, Walks, Shape
<1>3. /\ Heard(mode, ies, n + 1, r2.seen, r2.out)
      /\ Noted(mode, ies, n + 1, r2.out)
  <2>1. /\ Heard(mode, ies, n, r.seen, r.out) /\ ~Refused(mode, ies, n)
        /\ Takes(mode, ies, n, r.seen, r.out, r2.seen, r2.out) /\ Noted(mode, ies, n, r.out)
    BY <1>1 DEF Reads, Reading, OnTheWay
  <2> HIDE DEF r, r2, n
  <2>2. QED
    BY <1>1, <1>2, <2>1, HeardGrows
<1>4. Offset[n + 1] = Offset[n] + 2 + ies[n].len /\ n + 1 \in 1..(Len(ies) + 1)
  BY SMTT(30), <1>1 DEF IInv, FrameOK, Positions
<1>5. r2.next = n + 1 /\ r2.pos = Offset[n + 1] /\ ~r2.done
  BY <1>1, <1>4 DEF Reads, Reading
<1>6. QED
  BY <1>3, <1>4, <1>5 DEF Reads, At, Reading, OnTheWay

\* Fields a walker that goes on leaves alone.
Quiet(o, o2) == /\ o2.malformed = o.malformed /\ o2.incomplete = o.incomplete
                /\ o2.complete = o.complete

LEMMA FittingReads ==
    ASSUME IInv, NEW w \in Walker, NEW id, Fits(w, id), NEW out, NEW seen,
           Advance(w, out, seen), OutShape(out), Quiet(walk[w].out, out),
           ~Refused(mode, ies, walk[w].next),
           Takes(mode, ies, walk[w].next, walk[w].seen, walk[w].out,
                 walk[w].seen \cup seen, out)
    PROVE  Reads(w)
<1> DEFINE r == walk[w]
           n == r.next
<1>1. /\ Walking(w) /\ n \in 1..Len(ies) /\ Offset[n + 1] <= Seen(w, end, cut)
      /\ OnTheWay(mode, ies, r)
  BY InFront DEF Fits
<1>2. /\ Walks' /\ Others(w) /\ UNCHANGED frameVars
      /\ walk'[w].next = n + 1 /\ walk'[w].pos = r.pos + 2 + ies[n].len
      /\ walk'[w].seen = r.seen \cup seen /\ walk'[w].out = out /\ walk'[w].done = r.done
  BY AdvanceEffect DEF IInv
<1>3. ~out.malformed /\ ~out.incomplete /\ ~out.complete
  BY <1>1 DEF Quiet, OnTheWay
<1>4. QED
  BY <1>1, <1>2, <1>3 DEF Reads

\* What a walker knows of the element it fits.
LEMMA Fitting ==
    ASSUME IInv, NEW w \in Walker, NEW id, Fits(w, id)
    PROVE  LET n == walk[w].next e == ies[n] s == walk[w].seen
           IN /\ Ie(w) = e /\ e.id = id /\ OutShape(Out(w)) /\ Out(w) = walk[w].out
              /\ mode \in {"ap", "probe"}
              /\ \A i \in {"ssid", "ds"} : i \in s <=> Prior(ies, i, n) # {}
              /\ mode = "ap" => \A i \in {"rsn", "wpa"} : i \in s <=> Prior(ies, i, n) # {}
BY InFront DEF Fits, IInv, Walks, Shape, FrameOK, Out, Reading, Heard

LEMMA SsidReads ==
    ASSUME IInv, NEW w \in Walker, ssid_first(w) \/ ssid_again(w)
    PROVE  Reads(w)
<1> DEFINE n == walk[w].next
           e == ies[n]
           s == walk[w].seen
           o == walk[w].out
<1>1. /\ Fits(w, "ssid") /\ Ie(w) = e /\ e.id = "ssid" /\ e.len <= SSID_MAX
      /\ OutShape(o) /\ Out(w) = o
  BY Fitting DEF ssid_first, ssid_again
<1>2. ~Refused(mode, ies, n)
  <2>1. CASE e.len \in Nat
    BY <1>1, <2>1, BoundAssumption DEF Refused
  <2>2. e.len \in Nat
    BY <1>1, InFront DEF Fits
  <2>3. QED
    BY <2>1, <2>2
<1>3. CASE ssid_first(w)
  <2> DEFINE out == [o EXCEPT !.ssid = e.body]
  <2>1. Advance(w, out, {"ssid"}) /\ "ssid" \notin s
    BY <1>1, <1>3 DEF ssid_first
  <2>2. OutShape(out) /\ Quiet(o, out)
    BY <1>1 DEF OutShape, Quiet
  <2>3. Takes(mode, ies, n, s, o, s \cup {"ssid"}, out)
    BY <1>1, <2>1 DEF OutShape, Takes
  <2> HIDE DEF out
  <2>4. QED
    BY <1>1, <1>2, <2>1, <2>2, <2>3, FittingReads
<1>4. CASE ssid_again(w)
  <2> DEFINE out == [o EXCEPT !.dup_critical = TRUE]
  <2>1. Advance(w, out, {}) /\ "ssid" \in s
    BY <1>1, <1>4 DEF ssid_again
  <2>2. OutShape(out) /\ Quiet(o, out)
    BY <1>1 DEF OutShape, Quiet
  <2>3. Takes(mode, ies, n, s, o, s \cup {}, out)
    BY <1>1, <2>1 DEF OutShape, Takes
  <2> HIDE DEF out
  <2>4. QED
    BY <1>1, <1>2, <2>1, <2>2, <2>3, FittingReads
<1>5. QED
  BY <1>3, <1>4

LEMMA DsReads ==
    ASSUME IInv, NEW w \in Walker, ds_first(w) \/ ds_again(w)
    PROVE  Reads(w)
<1> DEFINE n == walk[w].next
           e == ies[n]
           s == walk[w].seen
           o == walk[w].out
<1>1. /\ Fits(w, "ds") /\ Ie(w) = e /\ e.id = "ds" /\ e.len = 1
      /\ OutShape(o) /\ Out(w) = o
  BY Fitting DEF ds_first, ds_again
<1>2. ~Refused(mode, ies, n)
  BY <1>1 DEF Refused
<1>3. CASE ds_first(w)
  <2> DEFINE out == IF mode = "ap" /\ e.body \in 1..HW_MAX
                    THEN [o EXCEPT !.channel = e.body] ELSE o
  <2>1. Advance(w, out, {"ds"}) /\ "ds" \notin s
    BY <1>1, <1>3 DEF ds_first
  <2>2. OutShape(out) /\ Quiet(o, out)
    BY <1>1 DEF OutShape, Quiet
  <2>3. Takes(mode, ies, n, s, o, s \cup {"ds"}, out)
    <3>1. mode = "ap" => o.channel = 0
      BY <1>1, <2>1, Fitting, InFront DEF Fits, Reading, Heard
    <3>2. CASE mode = "ap" /\ e.body \in 1..HW_MAX
      BY <1>1, <2>1, <3>1, <3>2 DEF OutShape, Takes, Hardware
    <3>3. CASE ~(mode = "ap" /\ e.body \in 1..HW_MAX)
      BY <1>1, <2>1, <3>1, <3>3 DEF OutShape, Takes, Hardware
    <3>4. QED
      BY <3>2, <3>3
  <2> HIDE DEF out
  <2>4. QED
    BY <1>1, <1>2, <2>1, <2>2, <2>3, FittingReads
<1>4. CASE ds_again(w)
  <2> DEFINE out == [o EXCEPT !.dup_critical = @ \/ mode = "ap"]
  <2>1. Advance(w, out, {}) /\ "ds" \in s
    BY <1>1, <1>4 DEF ds_again
  <2>2. OutShape(out) /\ Quiet(o, out)
    BY <1>1 DEF OutShape, Quiet
  <2>3. Takes(mode, ies, n, s, o, s \cup {}, out)
    BY <1>1, <2>1 DEF OutShape, Takes
  <2> HIDE DEF out
  <2>4. QED
    BY <1>1, <1>2, <2>1, <2>2, <2>3, FittingReads
<1>5. QED
  BY <1>3, <1>4

LEMMA SecurityReads ==
    ASSUME IInv, NEW w \in Walker, NEW id \in {"rsn", "wpa"},
           security_first(w, id) \/ security_again(w, id)
    PROVE  Reads(w)
<1> DEFINE n == walk[w].next
           e == ies[n]
           s == walk[w].seen
           o == walk[w].out
<1>1. /\ Fits(w, id) /\ Ie(w) = e /\ e.id = id /\ mode = "ap"
      /\ OutShape(o) /\ Out(w) = o /\ (id \in s <=> Prior(ies, id, n) # {})
  BY Fitting DEF security_first, security_again
<1>2. CASE security_first(w, id)
  <2> DEFINE out == [Present(w, id) EXCEPT ![id] = e.body]
  <2>1. Advance(w, out, {id}) /\ id \notin s /\ Decodes(e)
    BY <1>1, <1>2 DEF security_first
  <2>2. ~Refused(mode, ies, n)
    BY <1>1, <2>1 DEF Refused
  <2>3. CASE id = "rsn"
    <3> DEFINE p == [o EXCEPT !.rsn_present = TRUE]
    <3>1. out = [p EXCEPT ![id] = e.body] /\ OutShape(p) /\ Quiet(o, p)
      BY <1>1, <2>3 DEF Present, OutShape, Quiet
    <3>2. OutShape(out) /\ Quiet(o, out)
      BY <2>3, <3>1 DEF OutShape, Quiet
    <3>3. Takes(mode, ies, n, s, o, s \cup {id}, out)
      BY ZenonT(30), <1>1, <2>1, <2>3, <3>1 DEF OutShape, Takes
    <3> HIDE DEF out
    <3>4. QED
      BY <1>1, <2>1, <2>2, <3>2, <3>3, FittingReads
  <2>4. CASE id = "wpa"
    <3> DEFINE p == [o EXCEPT !.wpa_present = TRUE]
    <3>1. out = [p EXCEPT ![id] = e.body] /\ OutShape(p) /\ Quiet(o, p)
      BY <1>1, <2>4 DEF Present, OutShape, Quiet
    <3>2. OutShape(out) /\ Quiet(o, out)
      BY <2>4, <3>1 DEF OutShape, Quiet
    <3>3. Takes(mode, ies, n, s, o, s \cup {id}, out)
      BY <1>1, <2>1, <2>4, <3>1 DEF OutShape, Takes
    <3> HIDE DEF out
    <3>4. QED
      BY <1>1, <2>1, <2>2, <3>2, <3>3, FittingReads
  <2>5. QED
    BY <2>3, <2>4
<1>3. CASE security_again(w, id)
  <2> DEFINE out == [o EXCEPT !.dup_security = TRUE]
  <2>1. Advance(w, out, {}) /\ id \in s
    BY <1>1, <1>3 DEF security_again
  <2>2. OutShape(out) /\ Quiet(o, out)
    BY <1>1 DEF OutShape, Quiet
  <2>3. Takes(mode, ies, n, s, o, s \cup {}, out)
    <3>1. o.rsn_present = TRUE \/ id # "rsn"
      BY <1>1, <2>1, Fitting, InFront DEF Fits, OnTheWay, Noted, OutShape
    <3>2. o.wpa_present = TRUE \/ id # "wpa"
      BY <1>1, <2>1, Fitting, InFront DEF Fits, OnTheWay, Noted, OutShape
    <3>3. QED
      BY <1>1, <2>1, <3>1, <3>2 DEF OutShape, Takes
  <2>4. ~Refused(mode, ies, n)
    BY <1>1, <2>1 DEF Refused
  <2> HIDE DEF out
  <2>5. QED
    BY <1>1, <2>1, <2>2, <2>3, <2>4, FittingReads
<1>4. QED
  BY <1>2, <1>3

LEMMA SkippedReads ==
    ASSUME IInv, NEW w \in Walker, skipped(w)
    PROVE  Reads(w)
<1> DEFINE n == walk[w].next
           e == ies[n]
           s == walk[w].seen
           o == walk[w].out
<1>1. PICK id \in {"other", "rsn", "wpa"} : Fits(w, id) /\ (id = "other" \/ mode = "probe")
  BY DEF skipped
<1>2. e.id = id /\ OutShape(o) /\ Out(w) = o
  BY <1>1, Fitting
<1>3. ~Refused(mode, ies, n)
  BY <1>1, <1>2 DEF Refused
<1>4. Takes(mode, ies, n, s, o, s \cup {}, o) /\ Quiet(o, o)
  BY <1>1, <1>2 DEF OutShape, Takes, Quiet
<1>5. Advance(w, o, {})
  BY <1>2 DEF skipped
<1>6. QED
  BY <1>1, <1>2, <1>3, <1>4, <1>5, FittingReads

\* Stopping in front of an element, or at the end.
Halts(w) ==
    LET r == walk[w] r2 == walk'[w]
    IN /\ Walking(w) /\ Walks' /\ Others(w) /\ UNCHANGED frameVars
       /\ r2.next = r.next /\ r2.done
       /\ At(mode, ies, Offset, Seen(w, end, cut), w, r2)

\* What a walker that stops has written already it does not write again.
Keeps(o, o2) ==
    /\ o2.ssid = o.ssid /\ o2.channel = o.channel /\ o2.rsn = o.rsn /\ o2.wpa = o.wpa
    /\ o2.dup_critical = o.dup_critical /\ o2.dup_security = o.dup_security

Reason(w, out) ==
    LET n == walk[w].next len == Seen(w, end, cut)
    IN \/ /\ ~out.malformed /\ Noted(mode, ies, n, out)
          /\ w = "whole" => ~out.incomplete /\ Offset[n] = len
       \/ /\ out.malformed /\ Noted(mode, ies, n, out)
          /\ w = "whole" /\ Lacks(ies, Offset, len, n) /\ ~out.incomplete
       \/ /\ out.malformed /\ Noted(mode, ies, n + 1, out) /\ ~out.incomplete
          /\ Refuses(mode, ies, Offset, len, n)

LEMMA StopHalts ==
    ASSUME IInv, NEW w \in Walker, Walking(w), NEW out, Stop(w, out), OutShape(out),
           Keeps(walk[w].out, out), Reason(w, out)
    PROVE  Halts(w)
<1> DEFINE r == walk[w]
           r2 == walk'[w]
           n == r.next
           len == Seen(w, end, cut)
<1>1. /\ Walks' /\ Others(w) /\ UNCHANGED frameVars
      /\ r2.next = n /\ r2.pos = r.pos /\ r2.seen = r.seen /\ r2.done
      /\ Told(w, out, r2.out)
  BY StopEffect DEF IInv
<1>2. Reading(mode, ies, Offset, r)
  BY InFront
<1>3. Reading(mode, ies, Offset, r2)
  <2>1. Heard(mode, ies, n, r.seen, r.out)
    BY <1>2 DEF Reading
  <2>2. Keeps(r.out, r2.out)
    BY <1>1 DEF Keeps, Told
  <2> DEFINE o == r.out
             o2 == r2.out
             s == r.seen
  <2> HIDE DEF o, o2, s, n
  <2>3. Heard(mode, ies, n, s, o2)
    BY <2>1, <2>2 DEF Heard, Keeps, o, o2, s
  <2>4. QED
    BY <1>1, <1>2, <2>3 DEF Reading, o2, s, n
<1>4. \A k : Noted(mode, ies, k, out) => Noted(mode, ies, k, r2.out)
  BY <1>1 DEF Noted, Told
<1>5. Stopped(mode, ies, Offset, len, w, r2)
  <2>1. \/ ~r2.out.malformed /\ Noted(mode, ies, n, r2.out)
        \/ w = "whole" /\ Lacks(ies, Offset, len, n) /\ Noted(mode, ies, n, r2.out)
        \/ Refuses(mode, ies, Offset, len, n) /\ Noted(mode, ies, n + 1, r2.out)
    BY <1>1, <1>4 DEF Reason, Told
  <2>2. r2.out.malformed => \/ Refuses(mode, ies, Offset, len, n)
                            \/ w = "whole" /\ Lacks(ies, Offset, len, n)
    BY <1>1 DEF Reason, Told
  <2>3. w = "cut" => ~r2.out.complete
    BY <1>1 DEF Told
  <2>4. w = "whole" =>
           /\ r2.out.complete <=> ~(r2.out.malformed \/ r2.out.dup_critical
                                    \/ r2.out.dup_security)
           /\ ~r2.out.malformed => Offset[n] = len
    BY <1>1 DEF Told, Reason
  <2>5. w = "whole" \/ w = "cut"
    BY DEF Walker
  <2> HIDE DEF len
  <2>6. QED
    BY <1>1, <2>1, <2>2, <2>3, <2>4, <2>5 DEF Stopped
<1>6. QED
  BY <1>1, <1>3, <1>5 DEF Halts, At

\* What a walker that goes on knows of what it wrote.
LEMMA Writing ==
    ASSUME IInv, NEW w \in Walker, Walking(w)
    PROVE  LET o == walk[w].out
           IN /\ OutShape(o) /\ Out(w) = o /\ ~o.malformed /\ ~o.incomplete /\ ~o.complete
              /\ Noted(mode, ies, walk[w].next, o)
BY InFront DEF IInv, Walks, Shape, OnTheWay, Out

LEMMA EndHalts ==
    ASSUME IInv, NEW w \in Walker, walk_ends(w) \/ refuse(w)
    PROVE  Halts(w)
<1> DEFINE r == walk[w]
           r2 == walk'[w]
           n == r.next
           o == r.out
           len == Seen(w, end, cut)
<1>1. Walking(w)
  BY DEF walk_ends, refuse
<1>2. OutShape(o) /\ Out(w) = o /\ ~o.malformed /\ ~o.incomplete /\ ~o.complete
      /\ Noted(mode, ies, n, o)
  BY <1>1, Writing
<1>3. CASE walk_ends(w)
  <2>1. Stop(w, o)
    BY <1>2, <1>3 DEF walk_ends
  <2>2. Offset[n] = len
    BY <1>1, <1>3, InFront DEF walk_ends
  <2>3. Reason(w, o) /\ Keeps(o, o)
    BY <1>2, <2>2 DEF Reason, Keeps
  <2>4. QED
    BY <1>1, <1>2, <2>1, <2>3, StopHalts
<1>4. CASE refuse(w)
  <2>1. w = "cut"
    <3>1. end \in Nat
      BY DEF IInv, FrameOK
    <3>2. QED
      BY <1>4, <3>1 DEF refuse, Length, Walker
  <2>2. DOMAIN walk = Walker /\ Shape(r)
    BY DEF IInv, Walks
  <2>3. /\ DOMAIN walk' = Walker /\ Others(w) /\ UNCHANGED frameVars
        /\ DOMAIN r2 = DOMAIN r /\ r2.next = n /\ r2.pos = r.pos /\ r2.seen = r.seen
        /\ r2.out = o /\ r2.done = TRUE
    BY <1>4, <2>2 DEF refuse, Others, Shape
  <2>4. Walks'
    BY <2>2, <2>3 DEF IInv, Walks, Shape, Others
  <2>5. Reading(mode, ies, Offset, r2)
    BY <1>1, <2>3, InFront DEF Reading
  <2>6. Stopped(mode, ies, Offset, len, w, r2)
    BY <1>2, <2>1, <2>3 DEF Stopped
  <2>7. QED
    BY <1>1, <2>3, <2>4, <2>5, <2>6 DEF Halts, At
<1>5. QED
  BY <1>3, <1>4

LEMMA TailHalts ==
    ASSUME IInv, NEW w \in Walker, byte_left(w) \/ overruns(w)
    PROVE  Halts(w)
<1> DEFINE n == walk[w].next
           o == walk[w].out
           len == Seen(w, end, cut)
<1>1. Walking(w) /\ BadTail(w)
  BY DEF byte_left, overruns
<1>2. OutShape(o) /\ Out(w) = o /\ ~o.malformed /\ ~o.incomplete /\ ~o.complete
      /\ Noted(mode, ies, n, o)
  BY <1>1, Writing
<1>3. Lacks(ies, Offset, len, n)
  <2>1. /\ len \in Int /\ Offset[n] \in Nat /\ Left(w) = len - Offset[n]
        /\ Left(w) >= 2 => /\ n \in 1..Len(ies) /\ Offset[n + 1] \in Nat
                           /\ Ie(w).len <= Left(w) - 2 <=> Offset[n + 1] <= len
                           /\ Ie(w).len \in Nat
    BY <1>1, InFront
  <2>2. Len(ies) \in Nat
    BY DEF IInv, FrameOK
  <2>3. CASE byte_left(w)
    <3> HIDE DEF n, len
    <3>1. len = Offset[n] + 1
      BY <2>1, <2>3 DEF byte_left
    <3>2. QED
      BY <3>1 DEF Lacks
  <2>4. CASE overruns(w)
    <3>1. Left(w) >= 2 /\ Ie(w).len > Left(w) - 2
      BY <2>4 DEF overruns
    <3> HIDE DEF n, len
    <3>2. n <= Len(ies) /\ Offset[n + 1] > len
      BY <2>1, <2>2, <3>1
    <3>3. QED
      BY <3>2 DEF Lacks
  <2>5. QED
    BY <2>3, <2>4
<1>4. CASE w = "cut"
  <2> DEFINE out == [o EXCEPT !.incomplete = TRUE]
  <2>1. Stop(w, out)
    BY <1>1, <1>2, <1>4 DEF BadTail
  <2>2. OutShape(out) /\ Keeps(o, out) /\ ~out.malformed /\ Noted(mode, ies, n, out)
    BY <1>2 DEF OutShape, Keeps, Noted
  <2>3. Reason(w, out)
    BY <1>4, <2>2 DEF Reason
  <2> HIDE DEF out
  <2>4. QED
    BY <1>1, <2>1, <2>2, <2>3, StopHalts
<1>5. CASE w = "whole"
  <2> DEFINE out == [o EXCEPT !.malformed = TRUE]
  <2>1. Stop(w, out)
    BY <1>1, <1>2, <1>5 DEF BadTail, Malformed
  <2>2. OutShape(out) /\ Keeps(o, out) /\ out.malformed /\ ~out.incomplete
        /\ Noted(mode, ies, n, out)
    BY <1>2 DEF OutShape, Keeps, Noted
  <2>3. Reason(w, out)
    BY <1>3, <1>5, <2>2 DEF Reason
  <2> HIDE DEF out
  <2>4. QED
    BY <1>1, <2>1, <2>2, <2>3, StopHalts
<1>6. QED
  BY <1>4, <1>5 DEF Walker

LEMMA RefusalHalts ==
    ASSUME IInv, NEW w \in Walker,
           \/ ssid_too_long(w) \/ ds_bad_length(w)
           \/ \E id \in {"rsn", "wpa"} : security_illegal(w, id)
    PROVE  Halts(w)
<1> DEFINE n == walk[w].next
           e == ies[n]
           o == walk[w].out
           len == Seen(w, end, cut)
<1>1. PICK id \in {"ssid", "ds", "rsn", "wpa"} : Fits(w, id)
  BY DEF ssid_too_long, ds_bad_length, security_illegal
<1>2. /\ Walking(w) /\ n \in 1..Len(ies) /\ n \in Nat \ {0} /\ Offset[n + 1] <= len
      /\ Ie(w) = e /\ e.len \in Nat
  BY <1>1, InFront DEF Fits
<1>3. OutShape(o) /\ Out(w) = o /\ ~o.malformed /\ ~o.incomplete /\ ~o.complete
      /\ Noted(mode, ies, n, o)
  BY <1>2, Writing
<1>4. \A i : Prior(ies, i, n + 1) = {} <=> Prior(ies, i, n) = {} /\ e.id # i
  <2>1. n \in Nat \ {0}
    BY <1>2
  <2>2. ASSUME NEW i
        PROVE  Prior(ies, i, n + 1) = {} <=> Prior(ies, i, n) = {} /\ ies[n].id # i
    <3> HIDE DEF n
    <3>1. QED
      BY SMTT(30), <2>1, PriorGrows
  <2>3. QED
    BY <2>2
<1>5. CASE ssid_too_long(w) \/ ds_bad_length(w)
  <2> DEFINE out == [o EXCEPT !.malformed = TRUE]
  <2>1. Stop(w, out)
    BY <1>3, <1>5 DEF ssid_too_long, ds_bad_length, Malformed
  <2>2. OutShape(out) /\ Keeps(o, out) /\ out.malformed /\ ~out.incomplete
        /\ out.rsn_present = o.rsn_present /\ out.wpa_present = o.wpa_present
    BY <1>3 DEF OutShape, Keeps
  <2>3. e.id \in {"ssid", "ds"} /\ Refused(mode, ies, n)
    <3>1. CASE ssid_too_long(w)
      BY <1>2, <3>1, BoundAssumption DEF ssid_too_long, Fits, Refused
    <3>2. CASE ds_bad_length(w)
      BY <1>2, <3>2 DEF ds_bad_length, Fits, Refused
    <3>3. QED
      BY <1>5, <3>1, <3>2
  <2> HIDE DEF out
  <2>4. Noted(mode, ies, n + 1, out)
    BY <1>3, <1>4, <2>2, <2>3 DEF Noted
  <2>5. Reason(w, out)
    BY <1>2, <2>2, <2>3, <2>4 DEF Reason, Refuses
  <2>6. QED
    BY <1>2, <2>1, <2>2, <2>5, StopHalts
<1>6. ASSUME NEW i \in {"rsn", "wpa"}, security_illegal(w, i) PROVE Halts(w)
  <2> DEFINE out == [Present(w, i) EXCEPT !.malformed = TRUE]
  <2>1. Stop(w, out) /\ e.id = i /\ mode = "ap" /\ ~Decodes(e) /\ i \notin walk[w].seen
    BY <1>2, <1>6 DEF security_illegal, Fits
  <2>2. OutShape(out) /\ Keeps(o, out) /\ out.malformed /\ ~out.incomplete
        /\ (out.rsn_present <=> o.rsn_present \/ i = "rsn")
        /\ (out.wpa_present <=> o.wpa_present \/ i = "wpa")
    <3>1. CASE i = "rsn"
      BY <1>3, <3>1 DEF Present, OutShape, Keeps
    <3>2. CASE i = "wpa"
      BY <1>3, <3>2 DEF Present, OutShape, Keeps
    <3>3. QED
      BY <3>1, <3>2
  <2>3. Prior(ies, i, n) = {}
    BY <2>1, <1>6, Fitting DEF security_illegal
  <2>4. Refused(mode, ies, n)
    BY <2>1, <2>3 DEF Refused
  <2> HIDE DEF out
  <2>5. Noted(mode, ies, n + 1, out)
    BY <1>3, <1>4, <2>1, <2>2 DEF Noted
  <2>6. Reason(w, out)
    BY <1>2, <2>2, <2>4, <2>5 DEF Reason, Refuses
  <2>7. QED
    BY <1>2, <2>1, <2>2, <2>6, StopHalts
<1>7. QED
  BY <1>5, <1>6

\* Every step is a walker taking an element in, or stopping.
LEMMA Steps == ASSUME IInv, Next PROVE \E w \in Walker : Reads(w) \/ Halts(w)
<1>1. PICK w \in Walker :
        \/ refuse(w) \/ walk_ends(w) \/ byte_left(w) \/ overruns(w)
        \/ ssid_too_long(w) \/ ssid_first(w) \/ ssid_again(w)
        \/ ds_bad_length(w) \/ ds_first(w) \/ ds_again(w)
        \/ \E id \in {"rsn", "wpa"} : \/ security_first(w, id)
                                      \/ security_illegal(w, id)
                                      \/ security_again(w, id)
        \/ skipped(w)
  BY DEF Next
<1>2. CASE ssid_first(w) \/ ssid_again(w)
  BY <1>2, SsidReads
<1>3. CASE ds_first(w) \/ ds_again(w)
  BY <1>3, DsReads
<1>4. CASE \E id \in {"rsn", "wpa"} : security_first(w, id) \/ security_again(w, id)
  BY <1>4, SecurityReads
<1>5. CASE skipped(w)
  BY <1>5, SkippedReads
<1>6. CASE walk_ends(w) \/ refuse(w)
  BY <1>6, EndHalts
<1>7. CASE byte_left(w) \/ overruns(w)
  BY <1>7, TailHalts
<1>8. CASE \/ ssid_too_long(w) \/ ds_bad_length(w)
           \/ \E id \in {"rsn", "wpa"} : security_illegal(w, id)
  BY <1>8, RefusalHalts
<1>9. QED
  BY <1>1, <1>2, <1>3, <1>4, <1>5, <1>6, <1>7, <1>8

LEMMA OffsetSame == ies' = ies => Offset' = Offset
BY DEF Offset

\* Where the walk of the whole frame stopped, the cut one stops too.
LEMMA NeverAhead ==
    ASSUME IInv, Reads("cut")
    PROVE  walk["cut"].next + 1 <= walk["whole"].next
<1> DEFINE n == walk["cut"].next
           r == walk["whole"]
           a == Offset[n]
           b == Offset[n + 1]
<1>1. r.done /\ n <= r.next
  BY DEF IInv, Reads, Walking
<1>2. Stopped(mode, ies, Offset, end, "whole", r) /\ r.next \in Nat
  BY <1>1 DEF IInv, At, Walker, Seen, Reading
<1>3. n \in 1..Len(ies) /\ b <= cut /\ ~Refused(mode, ies, n)
  BY DEF Reads, Seen
<1>4. cut \in Int /\ cut < end /\ end \in Nat /\ Len(ies) \in Nat
  BY DEF IInv, FrameOK
<1>5. a \in Nat /\ b \in Nat /\ b >= a + 2
  <2>1. ies[n].len \in Nat
    BY <1>3, ElementAssumption DEF IInv, FrameOK
  <2>2. n \in 1..(Len(ies) + 1) /\ n + 1 \in 1..(Len(ies) + 1)
    BY <1>3, <1>4
  <2>3. b = a + 2 + ies[n].len /\ a \in Nat
    BY <1>3, <2>2 DEF IInv, FrameOK, Positions
  <2>4. QED
    BY <2>1, <2>3
<1>6. SUFFICES ASSUME n = r.next PROVE FALSE
  BY <1>1, <1>2, <1>3, <1>4
<1>7. \/ r.out.malformed /\ (Refuses(mode, ies, Offset, end, n) \/ Lacks(ies, Offset, end, n))
      \/ a = end
  BY <1>2, <1>6 DEF Stopped
<1>8. ~Refuses(mode, ies, Offset, end, n)
  BY <1>3 DEF Refuses
<1>9. Lacks(ies, Offset, end, n) => end = a + 1 \/ b > end
  BY DEF Lacks
<1> DEFINE lacks == Lacks(ies, Offset, end, n)
<1>10. (lacks \/ a = end) /\ (lacks => end = a + 1 \/ b > end) /\ b <= cut
  BY <1>3, <1>7, <1>8, <1>9
<1> HIDE DEF a, b, lacks
<1>11. QED
  BY <1>4, <1>5, <1>10

LEMMA NextIInv == ASSUME IInv, [Next]_vars PROVE IInv'
<1>1. CASE UNCHANGED vars
  <2>1. Offset' = Offset /\ UNCHANGED <<mode, ies, end, cut, walk>>
    BY <1>1, OffsetSame DEF vars
  <2>2. QED
    BY <2>1 DEF IInv, Walks
<1>2. ASSUME NEW w \in Walker, Reads(w) \/ Halts(w) PROVE IInv'
  <2>1. /\ Walks' /\ Others(w) /\ UNCHANGED frameVars /\ Walking(w)
        /\ At(mode, ies, Offset, Seen(w, end, cut), w, walk'[w])
    BY <1>2, ReadsKeeps DEF Reads, Halts
  <2>2. UNCHANGED <<mode, ies, end, cut>> /\ Offset' = Offset
    BY <2>1, OffsetSame DEF frameVars
  <2>3. FrameOK(mode, ies, end, cut, Offset)'
    BY <2>2 DEF IInv
  <2>4. ASSUME NEW v \in Walker
        PROVE  At(mode, ies, Offset, Seen(v, end, cut), v, walk[v])'
    <3>1. At(mode, ies, Offset, Seen(v, end, cut), v, walk'[v])
      BY <2>1 DEF IInv, Others
    <3>2. QED
      BY <2>2, <3>1
  <2>5. walk'["cut"].next <= walk'["whole"].next
    <3>1. /\ walk["cut"].next <= walk["whole"].next
          /\ walk["cut"].next \in Nat /\ walk["whole"].next \in Nat
      BY DEF IInv, At, Reading, Walker, FrameOK
    <3>2. CASE Halts(w)
      BY <2>1, <3>1, <3>2 DEF Halts, Others, Walker
    <3>3. CASE Reads(w) /\ w = "whole"
      BY <2>1, <3>1, <3>3 DEF Reads, Others, Walker
    <3>4. CASE Reads(w) /\ w = "cut"
      <4>1. walk["cut"].next + 1 <= walk["whole"].next
        BY <3>4, NeverAhead
      <4>2. QED
        BY <2>1, <3>4, <4>1 DEF Reads, Others, Walker
    <3>5. QED
      BY <1>2, <3>2, <3>3, <3>4 DEF Walker
  <2>6. walk'["cut"].done => walk'["whole"].done
    BY <1>2, <2>1 DEF Reads, Halts, Walking, Others, Walker, IInv
  <2>7. QED
    BY <2>1, <2>3, <2>4, <2>5, <2>6 DEF IInv
<1>3. QED
  BY <1>1, <1>2, Steps

LEMMA InvHolds == Spec => []IInv
<1>1. QED
  BY InitIInv, NextIInv, PTL DEF Spec

-----------------------------------------------------------------------------
(* What a cut capture teaches *)

\* An element the cut walk refuses, the walk of the whole frame refuses too,
\* and both have noted the same elements.
LEMMA RefusedAlike ==
    ASSUME IInv, walk["cut"].done,
           Refuses(mode, ies, Offset, cut, walk["cut"].next)
    PROVE  LET n == walk["cut"].next r == walk["whole"]
           IN r.next = n /\ r.out.malformed /\ Noted(mode, ies, n + 1, r.out)
<1> DEFINE n == walk["cut"].next
           r == walk["whole"]
           a == Offset[n]
           b == Offset[n + 1]
<1>1. r.done /\ n <= r.next /\ n \in 1..(Len(ies) + 1) /\ r.next \in Nat
  BY DEF IInv, At, Reading, Walker, FrameOK
<1>2. Stopped(mode, ies, Offset, end, "whole", r) /\ Heard(mode, ies, r.next, r.seen, r.out)
  BY <1>1 DEF IInv, At, Walker, Seen, Reading
<1>3. n \in 1..Len(ies) /\ b <= cut /\ Refused(mode, ies, n)
  BY <1>1 DEF Refuses, IInv, FrameOK
<1>4. cut \in Int /\ cut < end /\ end \in Nat /\ Len(ies) \in Nat
  BY DEF IInv, FrameOK
<1>5. a \in Nat /\ b \in Nat /\ b >= a + 2
  <2>1. ies[n].len \in Nat
    BY <1>3, ElementAssumption DEF IInv, FrameOK
  <2>2. b = a + 2 + ies[n].len /\ a \in Nat
    BY <1>1, <1>3 DEF IInv, FrameOK, Positions
  <2>3. QED
    BY <2>1, <2>2
<1>6. n = r.next
  <2>1. \A k \in 1..(r.next - 1) : ~Refused(mode, ies, k)
    BY <1>2 DEF Heard
  <2>2. n \notin 1..(r.next - 1)
    BY <1>3, <2>1
  <2>3. QED
    BY <1>1, <1>3, <2>2
<1>7. a # end /\ ~(end = a + 1) /\ ~(b > end)
  BY <1>3, <1>4, <1>5
<1>8. ~Lacks(ies, Offset, end, n)
  BY <1>7 DEF Lacks
<1>9. QED
  BY <1>2, <1>6, <1>7, <1>8 DEF Stopped

LEMMA CutLess == IInv => CutLearnsLess
<1> SUFFICES ASSUME IInv, walk["cut"].done PROVE CutLearnsLess
  BY DEF CutLearnsLess
<1> DEFINE rc == walk["cut"]
           rw == walk["whole"]
           c == rc.out
           f == rw.out
           n == rc.next
           m == rw.next
<1>1. /\ rw.done /\ n \in Nat \ {0} /\ m \in Nat \ {0} /\ n <= m
      /\ Heard(mode, ies, n, rc.seen, c) /\ Heard(mode, ies, m, rw.seen, f)
      /\ Stopped(mode, ies, Offset, cut, "cut", rc)
      /\ Stopped(mode, ies, Offset, end, "whole", rw)
      /\ OutShape(c) /\ OutShape(f)
  BY DEF IInv, At, Reading, Walker, FrameOK, Seen, Walks, Shape
<1>2. \A id : /\ Prior(ies, id, n) # {} => Prior(ies, id, m) # {}
              /\ Once(ies, id, m) => Once(ies, id, n)
              /\ \A k : First(ies, id, n, k) => First(ies, id, m, k)
  <2> HIDE DEF n, m
  <2>1. QED
    BY <1>1, PriorMonotone
<1>3. \A id : Prior(ies, id, n) # {} =>
                \E k : First(ies, id, n, k) /\ First(ies, id, m, k)
  <2>1. ASSUME NEW id, Prior(ies, id, n) # {}
        PROVE  \E k : First(ies, id, n, k)
    <3> HIDE DEF n
    <3>1. QED
      BY <1>1, <2>1, FirstExists
  <2>2. QED
    BY <1>2, <2>1
<1>4. /\ c.ssid \in {"none", f.ssid} /\ c.channel \in {0, f.channel}
      /\ c.rsn \in {NoSuites, f.rsn} /\ c.wpa \in {NoSuites, f.wpa}
  <2>1. c.ssid \in {"none", f.ssid}
    BY <1>1, <1>3 DEF Heard
  <2>2. c.channel \in {0, f.channel}
    BY <1>1, <1>3 DEF Heard
  <2>3. c.rsn \in {NoSuites, f.rsn}
    BY <1>1, <1>3 DEF Heard
  <2>4. c.wpa \in {NoSuites, f.wpa}
    BY <1>1, <1>3 DEF Heard
  <2>5. QED
    BY <2>1, <2>2, <2>3, <2>4
<1>5. (c.dup_critical => f.dup_critical) /\ (c.dup_security => f.dup_security)
  BY <1>1, <1>2 DEF Heard
<1>6. ~c.complete
  BY <1>1 DEF Stopped
<1>7. Refuses(mode, ies, Offset, cut, n) =>
        m = n /\ f.malformed /\ Noted(mode, ies, n + 1, f)
  BY RefusedAlike
<1>8. c.malformed => f.malformed
  BY <1>1, <1>7 DEF Stopped
<1>9. (c.rsn_present => f.rsn_present) /\ (c.wpa_present => f.wpa_present)
  <2>1. CASE Refuses(mode, ies, Offset, cut, n)
    <3>1. \A id : Prior(ies, id, n) # {} => Prior(ies, id, n + 1) # {}
      BY <1>1, PriorMonotone
    <3>2. Noted(mode, ies, n, c) \/ Noted(mode, ies, n + 1, c)
      BY <1>1 DEF Stopped
    <3>3. QED
      BY <1>7, <2>1, <3>1, <3>2 DEF Noted
  <2>2. CASE ~Refuses(mode, ies, Offset, cut, n)
    <3>1. Noted(mode, ies, n, c)
      BY <1>1, <2>2 DEF Stopped
    <3>2. Noted(mode, ies, m, f) \/ Noted(mode, ies, m + 1, f)
      BY <1>1 DEF Stopped
    <3>3. \A id : Prior(ies, id, m) # {} => Prior(ies, id, m + 1) # {}
      BY <1>1, PriorMonotone
    <3>4. QED
      BY <1>2, <3>1, <3>2, <3>3 DEF Noted
  <2>3. QED
    BY <2>1, <2>2
<1>10. QED
  BY <1>4, <1>5, <1>6, <1>8, <1>9 DEF CutLearnsLess, Out

-----------------------------------------------------------------------------
(* What a complete observation says *)

LEMMA PlacesArePrior ==
    ASSUME Len(ies) \in Nat
    PROVE  \A id : /\ Places(id) = Prior(ies, id, Len(ies) + 1)
                   /\ Unique(id) <=> Once(ies, id, Len(ies) + 1)
<1>1. (Len(ies) + 1) - 1 = Len(ies)
  OBVIOUS
<1>2. \A id : Places(id) = Prior(ies, id, Len(ies) + 1)
  BY <1>1 DEF Places, Prior
<1>3. QED
  BY <1>2 DEF Unique, Once

\* The walk of the whole frame reads on to its end unless it finds it
\* malformed.
LEMMA ReadsThrough ==
    ASSUME IInv, walk["whole"].done, ~walk["whole"].out.malformed
    PROVE  walk["whole"].next = Len(ies) + 1 /\ end = Total
<1> DEFINE n == walk["whole"].next
           L == Len(ies)
           a == Offset[n]
           t == Offset[L + 1]
<1>1. a = end /\ n \in 1..(L + 1) /\ L \in Nat
  BY DEF IInv, At, Walker, Seen, Reading, Stopped, FrameOK
<1>2. end \in {t + d : d \in {-1, 0, 1}} /\ t \in Nat /\ end \in Nat
  BY <1>1 DEF IInv, FrameOK, Positions
<1>a. end >= t - 1
  <2> HIDE DEF t
  <2>1. QED
    BY <1>2
<1>3. n = L + 1
  <2>1. SUFFICES ASSUME n # L + 1 PROVE FALSE
    OBVIOUS
  <2>2. n \in 1..L /\ n + 1 \in 1..(L + 1)
    BY <1>1, <2>1
  <2>3. ies[n].len \in Nat
    BY <2>2, ElementAssumption DEF IInv, FrameOK
  <2>4. Offset[n + 1] = a + 2 + ies[n].len /\ Offset[n + 1] <= t
    BY <2>2 DEF IInv, FrameOK, Positions
  <2>5. a \in Nat /\ t \in Nat
    BY <1>1, <1>2
  <2> DEFINE l == ies[n].len
             o == Offset[n + 1]
  <2>6. l \in Nat /\ o = a + 2 + l /\ o <= t /\ a >= t - 1
    BY <1>1, <1>a, <2>3, <2>4
  <2> HIDE DEF a, t, l, o
  <2>7. QED
    BY <2>5, <2>6
<1>4. QED
  BY <1>1, <1>3 DEF Total

\* The frames the walk takes for complete: those that are well formed, and
\* the probe requests that repeat nothing but their channel.
Accepted ==
    /\ end = Total
    /\ \A k \in 1..Len(ies) : Legal(ies[k])
    /\ Unique("ssid")
    /\ mode = "ap" => Unique("ds") /\ Unique("rsn") /\ Unique("wpa")

LEMMA CompleteIsWell ==
    ASSUME IInv, walk["whole"].done, walk["whole"].out.complete
    PROVE  Accepted
<1> DEFINE r == walk["whole"]
           o == r.out
           N == Len(ies) + 1
<1>1. /\ Stopped(mode, ies, Offset, end, "whole", r)
      /\ Heard(mode, ies, r.next, r.seen, o) /\ Len(ies) \in Nat
  BY DEF IInv, At, Walker, Seen, Reading, FrameOK
<1>2. ~o.malformed /\ ~o.dup_critical /\ ~o.dup_security
  BY <1>1 DEF Stopped
<1>3. r.next = N /\ end = Total
  BY <1>2, ReadsThrough
<1>4. /\ \A k \in 1..Len(ies) : ~Refused(mode, ies, k)
      /\ Once(ies, "ssid", N) /\ (mode = "ap" => Once(ies, "ds", N))
      /\ mode = "ap" => Once(ies, "rsn", N) /\ Once(ies, "wpa", N)
  <2>1. N - 1 = Len(ies)
    BY <1>1
  <2>2. QED
    BY <1>1, <1>2, <1>3, <2>1 DEF Heard
<1>5. ASSUME NEW k \in 1..Len(ies) PROVE Legal(ies[k])
  <2> DEFINE e == ies[k]
  <2>1. ~Refused(mode, ies, k) /\ e.len \in Nat
    BY <1>4, <1>5, ElementAssumption DEF IInv, FrameOK
  <2>2. CASE e.id = "ssid"
    BY <2>1, <2>2, BoundAssumption DEF Refused, Legal
  <2>3. CASE e.id = "ds"
    BY <2>1, <2>3 DEF Refused, Legal
  <2>4. CASE e.id \in {"rsn", "wpa"}
    <3>1. SUFFICES ASSUME mode = "ap" PROVE Decodes(e)
      BY <2>4 DEF Legal
    <3>2. Once(ies, e.id, N)
      BY <1>4, <2>4, <3>1
    <3>3. k \in Prior(ies, e.id, N)
      BY <1>1, <1>5 DEF Prior
    <3>4. Prior(ies, e.id, k) \subseteq Prior(ies, e.id, N) /\ k \notin Prior(ies, e.id, k)
      BY <1>1, <1>5 DEF Prior
    <3>5. Prior(ies, e.id, k) = {}
      BY <3>2, <3>3, <3>4 DEF Once
    <3>6. QED
      BY <2>1, <2>4, <3>1, <3>5 DEF Refused
  <2>5. CASE e.id \notin {"ssid", "ds", "rsn", "wpa"}
    BY <2>5 DEF Legal
  <2>6. QED
    BY <2>2, <2>3, <2>4, <2>5
<1>6. QED
  BY <1>1, <1>3, <1>4, <1>5, PlacesArePrior DEF Accepted

LEMMA WellIsComplete ==
    ASSUME IInv, walk["whole"].done, Accepted
    PROVE  walk["whole"].out.complete
<1> DEFINE r == walk["whole"]
           o == r.out
           n == r.next
           L == Len(ies)
<1>1. /\ Stopped(mode, ies, Offset, end, "whole", r) /\ OutShape(o)
      /\ Heard(mode, ies, n, r.seen, o) /\ L \in Nat /\ n \in 1..(L + 1)
  BY DEF IInv, At, Walker, Seen, Reading, FrameOK, Walks, Shape
<1>2. ~o.dup_critical /\ ~o.dup_security
  <2>1. n \in Nat \ {0} /\ L + 1 \in Nat \ {0} /\ n <= L + 1
    BY <1>1
  <2>2. \A id : Once(ies, id, L + 1) => Once(ies, id, n)
    <3> HIDE DEF n, L
    <3>1. QED
      BY <2>1, PriorMonotone
  <2>3. QED
    BY <1>1, <2>2, PlacesArePrior DEF Accepted, Heard
<1>3. ~o.malformed
  <2>1. ASSUME Refuses(mode, ies, Offset, end, n) PROVE FALSE
    <3>1. n \in 1..L /\ Refused(mode, ies, n)
      BY <1>1, <2>1 DEF Refuses
    <3>2. ies[n].len \in Nat
      BY <3>1, ElementAssumption DEF IInv, FrameOK
    <3>3. Legal(ies[n])
      BY <3>1 DEF Accepted
    <3>4. QED
      BY <3>1, <3>2, <3>3, BoundAssumption DEF Refused, Legal
  <2>2. ASSUME Lacks(ies, Offset, end, n) PROVE FALSE
    <3>1. end = Offset[L + 1] /\ Offset[n] \in Nat
      BY <1>1 DEF Accepted, Total, IInv, FrameOK, Positions
    <3>2. n # L + 1 => /\ ies[n].len \in Nat
                       /\ Offset[n + 1] = Offset[n] + 2 + ies[n].len
                       /\ Offset[n + 1] <= Offset[L + 1]
      <4>1. SUFFICES ASSUME n # L + 1
                     PROVE  /\ ies[n].len \in Nat
                            /\ Offset[n + 1] = Offset[n] + 2 + ies[n].len
                            /\ Offset[n + 1] <= Offset[L + 1]
        OBVIOUS
      <4>2. n \in 1..L /\ n + 1 \in 1..(L + 1)
        BY <1>1, <4>1
      <4>3. ies[n].len \in Nat
        BY <4>2, ElementAssumption DEF IInv, FrameOK
      <4>4. QED
        BY <4>2, <4>3 DEF IInv, FrameOK, Positions
    <3>3. Offset[L + 1] \in Nat
      BY <1>1 DEF IInv, FrameOK, Positions
    <3>4. \/ end = Offset[n] + 1
          \/ n <= L /\ Offset[n + 1] > end
      BY <2>2 DEF Lacks
    <3>5. CASE n = L + 1
      BY <1>1, <3>1, <3>4, <3>5
    <3>6. CASE n # L + 1
      <4> DEFINE a == Offset[n]
                 b == Offset[n + 1]
                 t == Offset[L + 1]
                 l == ies[n].len
      <4>1. /\ a \in Nat /\ t \in Nat /\ l \in Nat /\ b = a + 2 + l /\ b <= t
            /\ t = a + 1 \/ b > t
        BY <3>1, <3>2, <3>3, <3>4, <3>6
      <4> HIDE DEF a, b, t, l
      <4>2. QED
        BY <4>1
    <3>7. QED
      BY <3>5, <3>6
  <2>3. QED
    BY <1>1, <2>1, <2>2 DEF Stopped
<1>4. QED
  BY <1>1, <1>2, <1>3 DEF Stopped

LEMMA CompleteFields ==
    ASSUME IInv, walk["whole"].done, walk["whole"].out.complete
    PROVE  LET f == walk["whole"].out
           IN /\ f.ssid = IF Places("ssid") = {} THEN "none"
                          ELSE ies[CHOOSE k \in Places("ssid") : TRUE].body
              /\ mode = "ap" =>
                    /\ f.rsn_present <=> Places("rsn") # {}
                    /\ f.wpa_present <=> Places("wpa") # {}
                    /\ \A k \in Places("rsn") : f.rsn = ies[k].body
                    /\ \A k \in Places("wpa") : f.wpa = ies[k].body
                    /\ \A k \in Places("ds") :
                          f.channel = IF ies[k].body \in 1..HW_MAX
                                      THEN ies[k].body ELSE 0
<1> DEFINE r == walk["whole"]
           f == r.out
           N == Len(ies) + 1
<1>1. /\ Stopped(mode, ies, Offset, end, "whole", r)
      /\ Heard(mode, ies, r.next, r.seen, f) /\ Len(ies) \in Nat
  BY DEF IInv, At, Walker, Seen, Reading, FrameOK
<1>2. ~f.malformed
  BY <1>1 DEF Stopped
<1>3. r.next = N
  BY <1>2, ReadsThrough
<1>4. Accepted
  BY CompleteIsWell
<1>5. Heard(mode, ies, N, r.seen, f) /\ Noted(mode, ies, N, f)
  <2>1. ~Refuses(mode, ies, Offset, end, r.next)
    <3>1. ~(r.next <= Len(ies))
      BY <1>1, <1>3
    <3>2. QED
      BY <3>1 DEF Refuses
  <2> HIDE DEF f, N
  <2>2. Noted(mode, ies, r.next, f)
    BY <1>1, <1>2, <2>1 DEF Stopped, f
  <2>3. QED
    BY <1>1, <1>3, <2>2
<1>6. \A id : Places(id) = Prior(ies, id, N) /\ \A k \in Places(id) : k \in Int
  BY <1>1, PlacesArePrior DEF Places
<1>7. \A id : Unique(id) => \A k \in Places(id) : First(ies, id, N, k)
  BY <1>6 DEF Unique, First
<1>8. f.ssid = IF Places("ssid") = {} THEN "none"
               ELSE ies[CHOOSE k \in Places("ssid") : TRUE].body
  <2>1. CASE Places("ssid") = {}
    BY <1>5, <1>6, <2>1 DEF Heard
  <2>2. CASE Places("ssid") # {}
    <3> DEFINE p == CHOOSE k \in Places("ssid") : TRUE
    <3>1. p \in Places("ssid")
      BY <2>2
    <3> HIDE DEF p
    <3>2. First(ies, "ssid", N, p)
      BY <1>4, <1>7, <3>1 DEF Accepted
    <3>3. f.ssid = ies[p].body
      BY <1>5, <3>2 DEF Heard
    <3>4. QED
      BY <2>2, <3>3 DEF p
  <2>3. QED
    BY <2>1, <2>2
<1>9. ASSUME mode = "ap"
      PROVE  /\ f.rsn_present <=> Places("rsn") # {}
             /\ f.wpa_present <=> Places("wpa") # {}
             /\ \A k \in Places("rsn") : f.rsn = ies[k].body
             /\ \A k \in Places("wpa") : f.wpa = ies[k].body
             /\ \A k \in Places("ds") : f.channel = Hardware(ies[k].body)
  <2>1. /\ f.rsn_present <=> Places("rsn") # {}
        /\ f.wpa_present <=> Places("wpa") # {}
    BY <1>5, <1>6, <1>9 DEF Noted
  <2>2. \A id \in {"ds", "rsn", "wpa"} : \A k \in Places(id) : First(ies, id, N, k)
    BY <1>4, <1>7, <1>9 DEF Accepted
  <2>3. \A k \in Places("rsn") : f.rsn = ies[k].body
    BY <1>5, <1>9, <2>2 DEF Heard
  <2>4. \A k \in Places("wpa") : f.wpa = ies[k].body
    BY <1>5, <1>9, <2>2 DEF Heard
  <2>5. \A k \in Places("ds") : f.channel = Hardware(ies[k].body)
    BY <1>5, <1>9, <2>2 DEF Heard
  <2>6. QED
    BY <2>1, <2>3, <2>4, <2>5
<1>10. QED
  BY <1>8, <1>9 DEF Hardware

LEMMA CompleteWell == IInv => CompleteMeansWellFormed
<1> SUFFICES ASSUME IInv, walk["whole"].done PROVE CompleteMeansWellFormed
  BY DEF CompleteMeansWellFormed
<1>1. walk["whole"].out.complete \in BOOLEAN
  BY DEF IInv, Walks, Walker, Shape, OutShape
<1>2. walk["whole"].out.complete <=> Accepted
  BY <1>1, CompleteIsWell, WellIsComplete
<1>3. Accepted <=> WellFormed \/ OnlyChannelRepeated
  BY DEF Accepted, WellFormed, OnlyChannelRepeated, IInv, FrameOK
<1>4. QED
  BY <1>2, <1>3, CompleteFields DEF CompleteMeansWellFormed, Out

\* Wherever its capture ends, a frame is never misread: every field a cut
\* observation fills is the frame's, it accuses only a frame that is wrong,
\* and it never calls itself complete.
THEOREM CutsNeverMislead == Spec => []CutLearnsLess
<1>1. QED
  BY InvHolds, CutLess, PTL

\* The observation of a whole frame is complete exactly when the frame is well
\* formed or is a probe request whose only fault is a repeated channel, and
\* then carries its one element of each kind.
THEOREM CompleteIsWellFormed == Spec => []CompleteMeansWellFormed
<1>1. QED
  BY InvHolds, CompleteWell, PTL
=============================================================================
