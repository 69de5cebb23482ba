---------------------------- MODULE WorldProofs ----------------------------
(***************************************************************************)
(* The bookkeeping of World, proved for every size of the tables, every    *)
(* set of addresses and every clock.  Each operator of World is shown to   *)
(* keep a world value well formed; the theorems about the specification    *)
(* then follow one action at a time.                                       *)
(***************************************************************************)
EXTENDS World, FiniteSetTheorems, WellFoundedInduction, TLAPS

\* A world value that is typed, whose counters and relations agree with its
\* tables, and in which no address occurs twice.
Good(w) ==
    w \in WorldType /\ CountersExact(w) /\ RelationsSound(w) /\ KeysUnique(w)

\* Two world values with the same tables and the same table counters.
SameTables(v, w) ==
    /\ v.ap = w.ap /\ v.sta = w.sta
    /\ v.ap_used = w.ap_used /\ v.sta_used = w.sta_used
    /\ v.rel_used = w.rel_used

-----------------------------------------------------------------------------
(* Finite tables *)

LEMMA FiniteTables ==
    /\ IsFiniteSet(ApSlot) /\ IsFiniteSet(StaSlot)
    /\ \A S \in SUBSET ApSlot : IsFiniteSet(S) /\ Cardinality(S) \in Nat
    /\ \A S \in SUBSET StaSlot : IsFiniteSet(S) /\ Cardinality(S) \in Nat
<1>1. IsFiniteSet(ApSlot) /\ IsFiniteSet(StaSlot)
  BY FS_Interval, TableAssumption DEF ApSlot, StaSlot
<1>2. QED
  BY <1>1, FS_Subset, FS_CardinalityType

LEMMA CountKeepsTables ==
    ASSUME NEW w \in WorldType, NEW c, NEW n \in Nat
    PROVE  CountN(w, c, n) \in WorldType /\ SameTables(CountN(w, c, n), w)
<1>1. ASSUME NEW k \in Tracked
      PROVE  (w.stats[k] + n) % CounterMod \in 0..(CounterMod - 1)
  <2>1. w.stats[k] + n \in Int /\ CounterMod \in Nat /\ CounterMod > 0
    BY CounterAssumption DEF WorldType
  <2>2. QED
    BY <2>1
<1>2. QED
  BY <1>1 DEF CountN, WorldType, SameTables

LEMMA SameTablesGood ==
    ASSUME NEW v \in WorldType, NEW w, Good(w), SameTables(v, w)
    PROVE  Good(v)
BY DEF Good, SameTables, CountersExact, RelationsSound, KeysUnique, UsedAps,
       UsedStas, Bound, BoundTo

LEMMA CountGood ==
    ASSUME NEW w, Good(w), NEW c, NEW n \in Nat
    PROVE  Good(CountN(w, c, n)) /\ SameTables(CountN(w, c, n), w)
BY CountKeepsTables, SameTablesGood DEF Good

-----------------------------------------------------------------------------
(* Removing relations and records *)

\* The same slots hold the same addresses, table by table.
SameAps(v, w) ==
    \A i \in ApSlot : v.ap[i].used = w.ap[i].used /\ v.ap[i].bssid = w.ap[i].bssid
SameStas(v, w) ==
    \A j \in StaSlot : v.sta[j].used = w.sta[j].used /\ v.sta[j].mac = w.sta[j].mac

LEMMA SameKeys ==
    ASSUME NEW v, NEW w, SameAps(v, w), SameStas(v, w), KeysUnique(w)
    PROVE  /\ KeysUnique(v)
           /\ UsedAps(v) = UsedAps(w) /\ UsedStas(v) = UsedStas(w)
BY DEF SameAps, SameStas, KeysUnique, UsedAps, UsedStas

LEMMA ClearedRelation ==
    ASSUME NEW r \in StaRecord
    PROVE  LET c == [r EXCEPT !.rel_ap = 0, !.rel_evidence = NONE]
           IN /\ c \in StaRecord
              /\ c.used = r.used /\ c.rel_ap = 0 /\ c.rel_evidence = NONE
              /\ c.mac = r.mac /\ c.rssi = r.rssi
<1>1. 0 \in 0..AP_MAX
  BY TableAssumption
<1> DEFINE d == [r EXCEPT !.rel_ap = 0]
<1>2. /\ d \in StaRecord /\ d.used = r.used /\ d.rel_ap = 0
      /\ d.mac = r.mac /\ d.rssi = r.rssi
  BY <1>1 DEF StaRecord
<1> HIDE DEF d
<1> DEFINE e == [d EXCEPT !.rel_evidence = NONE]
<1>3. /\ e \in StaRecord /\ e.used = d.used /\ e.rel_ap = d.rel_ap
      /\ e.rel_evidence = NONE /\ e.mac = d.mac /\ e.rssi = d.rssi
  BY <1>2 DEF StaRecord
<1>4. [r EXCEPT !.rel_ap = 0, !.rel_evidence = NONE] = e
  BY DEF d
<1>5. QED
  BY <1>2, <1>3, <1>4

LEMMA UnbindAllGood ==
    ASSUME NEW w, Good(w), NEW S \in SUBSET StaSlot
    PROVE  LET v == UnbindAll(w, S)
           IN /\ Good(v) /\ SameAps(v, w) /\ SameStas(v, w)
              /\ \A j \in S : v.sta[j].rel_ap = 0
              /\ \A j \in StaSlot \ S : v.sta[j] = w.sta[j]
<1> DEFINE v == UnbindAll(w, S)
<1>0. w \in WorldType /\ CountersExact(w) /\ RelationsSound(w) /\ KeysUnique(w)
  BY DEF Good
<1> DEFINE newAp == [i \in ApSlot |-> [w.ap[i] EXCEPT !.station_count =
                        IF w.ap[i].used
                        THEN LowerClamped(@, Cardinality(BoundTo(w, S, i))) ELSE @]]
           newSta == [j \in StaSlot |->
                        IF j \in S THEN [w.sta[j] EXCEPT !.rel_ap = 0,
                                                         !.rel_evidence = NONE]
                        ELSE w.sta[j]]
<1>1. v = [ap |-> newAp, sta |-> newSta, ap_used |-> w.ap_used,
           sta_used |-> w.sta_used, stats |-> w.stats,
           rel_used |-> w.rel_used - Cardinality(Bound(w, S))]
  <2> HIDE DEF newAp, newSta
  <2>1. v = [w EXCEPT !.ap = newAp, !.sta = newSta,
                      !.rel_used = w.rel_used - Cardinality(Bound(w, S))]
    BY DEF UnbindAll, newAp, newSta
  <2>2. QED
    BY <2>1, <1>0 DEF WorldType
<1> HIDE DEF newAp, newSta, v
<1>2. \A T \in SUBSET StaSlot : IsFiniteSet(T) /\ Cardinality(T) \in Nat
  BY FiniteTables
<1>4. ASSUME NEW j \in StaSlot
      PROVE  /\ v.sta[j] \in StaRecord /\ v.sta[j].used = w.sta[j].used
             /\ v.sta[j].mac = w.sta[j].mac
             /\ v.sta[j].rel_ap = (IF j \in S THEN 0 ELSE w.sta[j].rel_ap)
             /\ v.sta[j].rel_evidence = (IF j \in S THEN NONE ELSE w.sta[j].rel_evidence)
             /\ j \notin S => v.sta[j] = w.sta[j]
  <2>1. w.sta[j] \in StaRecord /\ v.sta[j] = newSta[j]
    BY <1>0, <1>1 DEF WorldType
  <2>2. CASE j \in S
    <3>1. v.sta[j] = [w.sta[j] EXCEPT !.rel_ap = 0, !.rel_evidence = NONE]
      BY <2>1, <2>2 DEF newSta
    <3>2. QED
      BY <3>1, <2>1, <2>2, ClearedRelation
  <2>3. CASE j \notin S
    BY <2>1, <2>3 DEF newSta
  <2>4. QED
    BY <2>2, <2>3
<1>3. ASSUME NEW i \in ApSlot
      PROVE  /\ v.ap[i].used = w.ap[i].used /\ v.ap[i].bssid = w.ap[i].bssid
             /\ v.ap[i] \in ApRecord
             /\ v.ap[i].station_count = Cardinality(BoundTo(v, StaSlot, i))
  <2> DEFINE A == BoundTo(w, StaSlot, i)
             B == BoundTo(w, S, i)
  <2>0. w.ap[i] \in ApRecord
    BY <1>0 DEF WorldType
  <2>b. i # 0
    BY DEF ApSlot
  <2>1. BoundTo(v, StaSlot, i) = A \ B
    BY <1>4, <2>b DEF BoundTo
  <2>a. v.ap[i] = [w.ap[i] EXCEPT !.station_count =
                    IF w.ap[i].used
                    THEN LowerClamped(w.ap[i].station_count, Cardinality(B))
                    ELSE w.ap[i].station_count]
    BY <1>1 DEF newAp
  <2>2. A \in SUBSET StaSlot /\ B \in SUBSET StaSlot /\ A \cap B = B
    BY DEF BoundTo
  <2>3. Cardinality(A \ B) = Cardinality(A) - Cardinality(B)
    BY <2>2, <1>2, FS_Difference
  <2>4. /\ Cardinality(A) \in Nat /\ Cardinality(B) \in Nat
        /\ Cardinality(A \ B) \in Nat
    BY <2>2, <1>2
  <2>5. w.ap[i].station_count = Cardinality(A)
    BY <1>0 DEF CountersExact
  <2>6. ~w.ap[i].used => A = {}
    BY <1>0 DEF BoundTo, RelationsSound, ApSlot
  <2>7. CASE w.ap[i].used
    <3>1. v.ap[i] = [w.ap[i] EXCEPT !.station_count = Cardinality(A \ B)]
      BY <2>7, <2>a, <2>3, <2>4, <2>5 DEF LowerClamped
    <3>2. QED
      BY <3>1, <2>0, <2>1, <2>4 DEF ApRecord
  <2>8. CASE ~w.ap[i].used
    <3>1. A \ B = A
      BY <2>8, <2>6
    <3>2. v.ap[i] = w.ap[i]
      BY <2>8, <2>a, <2>0 DEF ApRecord
    <3>3. QED
      BY <3>1, <3>2, <2>0, <2>1, <2>5
  <2>9. QED
    BY <2>7, <2>8
<1>5. v.rel_used = Cardinality(Bound(v, StaSlot)) /\ v.rel_used \in Nat
  <2> DEFINE A == Bound(w, StaSlot)
             B == Bound(w, S)
  <2>1. Bound(v, StaSlot) = A \ B
    BY <1>4 DEF Bound
  <2>2. A \in SUBSET StaSlot /\ B \in SUBSET StaSlot /\ A \cap B = B
    BY DEF Bound
  <2>3. Cardinality(A \ B) = Cardinality(A) - Cardinality(B)
    BY <2>2, <1>2, FS_Difference
  <2>4. w.rel_used = Cardinality(A) /\ Cardinality(A \ B) \in Nat
    BY <1>0, <1>2 DEF CountersExact, Bound
  <2>5. QED
    BY <1>1, <2>1, <2>3, <2>4
<1>6. /\ SameAps(v, w) /\ SameStas(v, w)
      /\ KeysUnique(v) /\ UsedAps(v) = UsedAps(w) /\ UsedStas(v) = UsedStas(w)
  <2>1. SameAps(v, w) /\ SameStas(v, w)
    BY <1>3, <1>4 DEF SameAps, SameStas
  <2>2. QED
    BY <2>1, <1>0, SameKeys
<1>a. v \in WorldType
  <2>1. /\ w.ap_used \in Nat /\ w.sta_used \in Nat
        /\ w.stats \in [Tracked -> 0..(CounterMod - 1)]
    BY <1>0 DEF WorldType
  <2>2. newAp \in [ApSlot -> ApRecord]
    BY <1>1, <1>3 DEF newAp
  <2>3. newSta \in [StaSlot -> StaRecord]
    BY <1>1, <1>4 DEF newSta
  <2>4. QED
    BY <1>1, <1>5, <2>1, <2>2, <2>3 DEF WorldType
<1>7. CountersExact(v)
  BY <1>0, <1>1, <1>3, <1>5, <1>6 DEF CountersExact
<1>8. RelationsSound(v)
  <2>1. ASSUME NEW j \in StaSlot, v.sta[j].rel_ap # 0
        PROVE  v.sta[j].rel_ap \in ApSlot
    BY <2>1, <1>4 DEF StaRecord, ApSlot
  <2>2. QED
    BY <2>1, <1>0, <1>3, <1>4 DEF RelationsSound
<1>9. QED
  BY <1>3, <1>4, <1>6, <1>7, <1>8, <1>a DEF Good, v


LEMMA FreedAp ==
    ASSUME NEW r \in ApRecord
    PROVE  LET c == [r EXCEPT !.used = FALSE, !.station_count = 0]
           IN /\ c \in ApRecord
              /\ ~c.used /\ c.station_count = 0 /\ c.bssid = r.bssid
<1> DEFINE d == [r EXCEPT !.used = FALSE]
<1>1. d \in ApRecord /\ d.used = FALSE /\ d.bssid = r.bssid
  BY DEF ApRecord
<1> HIDE DEF d
<1> DEFINE e == [d EXCEPT !.station_count = 0]
<1>2. /\ e \in ApRecord /\ e.used = d.used /\ e.bssid = d.bssid
      /\ e.station_count = 0
  BY <1>1 DEF ApRecord
<1>3. [r EXCEPT !.used = FALSE, !.station_count = 0] = e
  BY DEF d
<1>4. QED
  BY <1>1, <1>2, <1>3

LEMMA RemoveApsGood ==
    ASSUME NEW w, Good(w), NEW R \in SUBSET UsedAps(w)
    PROVE  LET v == RemoveAps(w, R)
           IN /\ Good(v) /\ SameStas(v, w)
              /\ UsedAps(v) = UsedAps(w) \ R
              /\ \A i \in ApSlot \ R : v.ap[i] = w.ap[i]
<1> DEFINE v == RemoveAps(w, R)
           Orphan == {j \in StaSlot : w.sta[j].used /\ w.sta[j].rel_ap \in R}
           newSta == [j \in StaSlot |->
                        IF j \in Orphan
                        THEN [w.sta[j] EXCEPT !.rel_ap = 0, !.rel_evidence = NONE]
                        ELSE w.sta[j]]
           newAp == [i \in ApSlot |->
                        IF i \in R THEN [w.ap[i] EXCEPT !.used = FALSE,
                                                        !.station_count = 0]
                        ELSE w.ap[i]]
<1>0. w \in WorldType /\ CountersExact(w) /\ RelationsSound(w) /\ KeysUnique(w)
  BY DEF Good
<1>1. v = [ap |-> newAp, sta |-> newSta,
           ap_used |-> w.ap_used - Cardinality(R), sta_used |-> w.sta_used,
           rel_used |-> w.rel_used - Cardinality(Orphan), stats |-> w.stats]
  <2>1. v = [w EXCEPT !.sta = newSta,
                      !.rel_used = w.rel_used - Cardinality(Orphan),
                      !.ap = newAp, !.ap_used = w.ap_used - Cardinality(R)]
    BY DEF RemoveAps
  <2> HIDE DEF newAp, newSta, Orphan
  <2>2. QED
    BY <2>1, <1>0 DEF WorldType
<1> HIDE DEF newAp, newSta, v, Orphan
<1>2. /\ \A T \in SUBSET StaSlot : IsFiniteSet(T) /\ Cardinality(T) \in Nat
      /\ \A T \in SUBSET ApSlot : IsFiniteSet(T) /\ Cardinality(T) \in Nat
  BY FiniteTables
<1>3. ASSUME NEW j \in StaSlot
      PROVE  /\ v.sta[j] \in StaRecord /\ v.sta[j].used = w.sta[j].used
             /\ v.sta[j].mac = w.sta[j].mac
             /\ v.sta[j].rel_ap = (IF j \in Orphan THEN 0 ELSE w.sta[j].rel_ap)
             /\ v.sta[j].rel_evidence = (IF j \in Orphan THEN NONE
                                         ELSE w.sta[j].rel_evidence)
  <2>1. w.sta[j] \in StaRecord /\ v.sta[j] = newSta[j]
    BY <1>0, <1>1 DEF WorldType
  <2>2. CASE j \in Orphan
    <3>1. v.sta[j] = [w.sta[j] EXCEPT !.rel_ap = 0, !.rel_evidence = NONE]
      BY <2>1, <2>2 DEF newSta
    <3>2. QED
      BY <3>1, <2>1, <2>2, ClearedRelation
  <2>3. CASE j \notin Orphan
    BY <2>1, <2>3 DEF newSta
  <2>4. QED
    BY <2>2, <2>3
<1>4. R \in SUBSET ApSlot /\ Orphan \in SUBSET StaSlot
  BY DEF UsedAps, Orphan
<1>5. \A j \in StaSlot : w.sta[j].rel_ap \in R <=> j \in Orphan
  BY <1>0, <1>4 DEF Orphan, RelationsSound, ApSlot
<1>6. ASSUME NEW i \in ApSlot
      PROVE  /\ v.ap[i] \in ApRecord /\ v.ap[i].bssid = w.ap[i].bssid
             /\ v.ap[i].used = (w.ap[i].used /\ i \notin R)
             /\ v.ap[i].station_count = Cardinality(BoundTo(v, StaSlot, i))
             /\ i \notin R => v.ap[i] = w.ap[i]
  <2>1. w.ap[i] \in ApRecord /\ v.ap[i] = newAp[i] /\ w.ap[i].used \in BOOLEAN
    BY <1>0, <1>1 DEF WorldType, ApRecord
  <2>2. i # 0
    BY DEF ApSlot
  <2>3. CASE i \in R
    <3>1. v.ap[i] = [w.ap[i] EXCEPT !.used = FALSE, !.station_count = 0]
      BY <2>1, <2>3 DEF newAp
    <3>2. BoundTo(v, StaSlot, i) = {}
      BY <2>2, <2>3, <1>3, <1>5 DEF BoundTo
    <3>3. v.ap[i].station_count = 0 /\ ~v.ap[i].used
          /\ v.ap[i].bssid = w.ap[i].bssid /\ v.ap[i] \in ApRecord
      BY <3>1, <2>1, FreedAp
    <3>4. v.ap[i].used = FALSE
      BY <3>3 DEF ApRecord
    <3>5. QED
      BY <2>3, <3>2, <3>3, <3>4, FS_EmptySet
  <2>4. CASE i \notin R
    <3>1. v.ap[i] = w.ap[i]
      BY <2>1, <2>4 DEF newAp
    <3>2. BoundTo(v, StaSlot, i) = BoundTo(w, StaSlot, i)
      BY <2>2, <2>4, <1>3, <1>5 DEF BoundTo
    <3>3. QED
      BY <3>1, <3>2, <2>1, <2>4, <1>0 DEF CountersExact
  <2>5. QED
    BY <2>3, <2>4
<1>7. UsedAps(v) = UsedAps(w) \ R /\ UsedStas(v) = UsedStas(w)
  BY <1>3, <1>6 DEF UsedAps, UsedStas
<1>8. v.rel_used = Cardinality(Bound(v, StaSlot)) /\ v.rel_used \in Nat
  <2>1. Bound(v, StaSlot) = Bound(w, StaSlot) \ Orphan
    BY <1>3 DEF Bound
  <2>2. Bound(w, StaSlot) \in SUBSET StaSlot /\ Bound(w, StaSlot) \cap Orphan = Orphan
    BY <1>4, <1>5 DEF Bound, ApSlot
  <2>3. /\ Cardinality(Bound(w, StaSlot) \ Orphan)
             = Cardinality(Bound(w, StaSlot)) - Cardinality(Orphan)
        /\ Cardinality(Bound(w, StaSlot) \ Orphan) \in Nat
    BY ZenonT(30), <2>2, <1>2, FS_Difference
  <2>4. w.rel_used = Cardinality(Bound(w, StaSlot))
    BY <1>0 DEF CountersExact
  <2>5. v.rel_used = w.rel_used - Cardinality(Orphan)
    BY <1>1
  <2>6. QED
    BY <2>1, <2>3, <2>4, <2>5
<1>9. v.ap_used = Cardinality(UsedAps(v)) /\ v.ap_used \in Nat
  <2>1. UsedAps(w) \in SUBSET ApSlot /\ UsedAps(w) \cap R = R
    BY DEF UsedAps
  <2>2. /\ Cardinality(UsedAps(w) \ R) = Cardinality(UsedAps(w)) - Cardinality(R)
        /\ Cardinality(UsedAps(w) \ R) \in Nat
    BY ZenonT(30), <2>1, <1>2, FS_Difference
  <2>3. w.ap_used = Cardinality(UsedAps(w))
    BY <1>0 DEF CountersExact
  <2>4. v.ap_used = w.ap_used - Cardinality(R)
    BY <1>1
  <2>5. QED
    BY <2>2, <2>3, <2>4, <1>7
<1>10. v \in WorldType
  <2>1. /\ w.sta_used \in Nat /\ w.stats \in [Tracked -> 0..(CounterMod - 1)]
    BY <1>0 DEF WorldType
  <2>2. newAp \in [ApSlot -> ApRecord]
    BY <1>1, <1>6 DEF newAp
  <2>3. newSta \in [StaSlot -> StaRecord]
    BY <1>1, <1>3 DEF newSta
  <2>4. QED
    BY <1>1, <1>8, <1>9, <2>1, <2>2, <2>3 DEF WorldType
<1>11. CountersExact(v)
  <2>1. v.sta_used = w.sta_used
    BY <1>1
  <2>2. QED
    BY <1>0, <1>6, <1>7, <1>8, <1>9, <2>1 DEF CountersExact
<1>12. RelationsSound(v)
  <2>1. \A j \in StaSlot : v.sta[j].rel_ap \in 0..AP_MAX
    BY <1>3 DEF StaRecord
  <2>2. QED
    BY <1>0, <1>3, <1>5, <1>6, <2>1 DEF RelationsSound, ApSlot
<1>13. KeysUnique(v)
  BY <1>0, <1>3, <1>6, <1>7 DEF KeysUnique, UsedAps, UsedStas
<1>14. QED
  BY <1>3, <1>6, <1>7, <1>10, <1>11, <1>12, <1>13 DEF Good, SameStas, v


LEMMA RemoveStasGood ==
    ASSUME NEW w, Good(w), NEW R \in SUBSET UsedStas(w)
    PROVE  LET v == RemoveStas(w, R)
           IN /\ Good(v) /\ SameAps(v, w)
              /\ UsedStas(v) = UsedStas(w) \ R
              /\ \A j \in StaSlot \ R : v.sta[j] = w.sta[j]
<1> DEFINE v == RemoveStas(w, R)
           u == UnbindAll(w, R)
           newSta == [j \in StaSlot |->
                        IF j \in R THEN [u.sta[j] EXCEPT !.used = FALSE]
                        ELSE u.sta[j]]
<1>a. R \in SUBSET StaSlot
  BY DEF UsedStas
<1>0. /\ Good(u) /\ SameAps(u, w) /\ SameStas(u, w)
      /\ \A j \in R : u.sta[j].rel_ap = 0
      /\ \A j \in StaSlot \ R : u.sta[j] = w.sta[j]
  BY <1>a, UnbindAllGood
<1>1. v = [u EXCEPT !.sta = newSta, !.sta_used = u.sta_used - Cardinality(R)]
  BY DEF RemoveStas
<1> HIDE DEF u, newSta, v
<1>2. u \in WorldType /\ CountersExact(u) /\ RelationsSound(u) /\ KeysUnique(u)
  BY <1>0 DEF Good
<1>3. v = [ap |-> u.ap, sta |-> newSta, ap_used |-> u.ap_used,
           sta_used |-> u.sta_used - Cardinality(R),
           rel_used |-> u.rel_used, stats |-> u.stats]
  BY <1>1, <1>2 DEF WorldType
<1>4. ASSUME NEW j \in StaSlot
      PROVE  /\ v.sta[j] \in StaRecord
             /\ v.sta[j].used = (u.sta[j].used /\ j \notin R)
             /\ v.sta[j].mac = u.sta[j].mac
             /\ v.sta[j].rel_ap = u.sta[j].rel_ap
             /\ v.sta[j].rel_evidence = u.sta[j].rel_evidence
             /\ j \notin R => v.sta[j] = u.sta[j]
  <2>1. u.sta[j] \in StaRecord /\ v.sta[j] = newSta[j] /\ u.sta[j].used \in BOOLEAN
    BY <1>2, <1>3 DEF WorldType, StaRecord
  <2>2. CASE j \in R
    <3>1. v.sta[j] = [u.sta[j] EXCEPT !.used = FALSE]
      BY <2>1, <2>2 DEF newSta
    <3>2. QED
      BY <3>1, <2>1, <2>2 DEF StaRecord
  <2>3. CASE j \notin R
    BY <2>1, <2>3 DEF newSta
  <2>4. QED
    BY <2>2, <2>3
<1>5. v.ap = u.ap
  BY <1>3
<1>6. UsedStas(v) = UsedStas(u) \ R /\ UsedAps(v) = UsedAps(u)
  BY <1>4, <1>5 DEF UsedStas, UsedAps
<1>7. UsedStas(u) = UsedStas(w)
  BY <1>0 DEF SameStas, UsedStas
<1>8. v.sta_used = Cardinality(UsedStas(v)) /\ v.sta_used \in Nat
  <2>1. UsedStas(u) \in SUBSET StaSlot /\ UsedStas(u) \cap R = R
    BY <1>7 DEF UsedStas
  <2>2. /\ Cardinality(UsedStas(u) \ R) = Cardinality(UsedStas(u)) - Cardinality(R)
        /\ Cardinality(UsedStas(u) \ R) \in Nat
    BY ZenonT(30), <2>1, FiniteTables, FS_Difference
  <2>3. u.sta_used = Cardinality(UsedStas(u))
    BY <1>2 DEF CountersExact
  <2>4. v.sta_used = u.sta_used - Cardinality(R)
    BY <1>3
  <2>5. QED
    BY <2>2, <2>3, <2>4, <1>6
<1>9. v \in WorldType
  <2>1. newSta \in [StaSlot -> StaRecord]
    BY <1>3, <1>4 DEF newSta
  <2>2. /\ u.ap \in [ApSlot -> ApRecord] /\ u.ap_used \in Nat /\ u.rel_used \in Nat
        /\ u.stats \in [Tracked -> 0..(CounterMod - 1)]
    BY <1>2 DEF WorldType
  <2>3. QED
    BY <2>1, <2>2, <1>3, <1>8 DEF WorldType
<1>10. CountersExact(v)
  <2>1. /\ Bound(v, StaSlot) = Bound(u, StaSlot)
        /\ \A i \in ApSlot : BoundTo(v, StaSlot, i) = BoundTo(u, StaSlot, i)
    BY <1>4 DEF Bound, BoundTo
  <2>2. v.ap_used = u.ap_used /\ v.rel_used = u.rel_used
    BY <1>3
  <2>3. QED
    BY <2>1, <2>2, <1>2, <1>5, <1>6, <1>8 DEF CountersExact
<1>11. RelationsSound(v)
  BY <1>0, <1>2, <1>4, <1>5 DEF RelationsSound
<1>12. KeysUnique(v)
  BY <1>2, <1>4, <1>5, <1>6 DEF KeysUnique, UsedAps, UsedStas
<1>13. SameAps(v, w)
  BY <1>0, <1>5 DEF SameAps
<1>14. QED
  BY <1>0, <1>4, <1>6, <1>7, <1>9, <1>10, <1>11, <1>12, <1>13 DEF Good, v

-----------------------------------------------------------------------------
(* Adding relations and records *)

LEMMA StaBindGood ==
    ASSUME NEW w, Good(w), NEW j \in UsedStas(w), NEW i \in UsedAps(w),
           NEW ev \in {DOWNLINK, UPLINK}, NEW t \in Times,
           w.sta[j].rel_ap = 0
    PROVE  LET v == sta_bind(w, j, i, ev, t)
           IN Good(v) /\ SameAps(v, w) /\ SameStas(v, w)
<1> DEFINE s1 == [w.sta[j] EXCEPT !.rel_ap = i]
           s2 == [s1 EXCEPT !.rel_evidence = ev]
           s3 == [s2 EXCEPT !.rel_last = t]
           a1 == [w.ap[i] EXCEPT !.station_count = w.ap[i].station_count + 1]
           newSta == [w.sta EXCEPT ![j] = s3]
           newAp == [w.ap EXCEPT ![i] = a1]
           u == [w EXCEPT !.sta = newSta, !.ap = newAp, !.rel_used = w.rel_used + 1]
<1>0. /\ w \in WorldType /\ CountersExact(w) /\ RelationsSound(w) /\ KeysUnique(w)
      /\ j \in StaSlot /\ i \in ApSlot /\ w.sta[j].used /\ w.ap[i].used
  BY DEF Good, UsedStas, UsedAps
<1>1. /\ w.sta \in [StaSlot -> StaRecord] /\ w.ap \in [ApSlot -> ApRecord]
      /\ w.sta[j] \in StaRecord /\ w.ap[i] \in ApRecord
  BY <1>0 DEF WorldType
<1>16. sta_bind(w, j, i, ev, t) = CountN(u, "rel_formed", 1)
  BY DEF sta_bind, Count
<1>a. i \in 0..AP_MAX /\ w.ap[i].station_count + 1 \in Nat
  <2>1. i \in 0..AP_MAX
    BY <1>0, TableAssumption DEF ApSlot
  <2>2. w.ap[i].station_count \in Nat
    BY <1>1 DEF ApRecord
  <2>3. QED
    BY <2>1, <2>2
<1>3. s1 \in StaRecord /\ s1.used = w.sta[j].used /\ s1.mac = w.sta[j].mac
      /\ s1.rel_ap = i
  BY <1>1, <1>a DEF StaRecord
<1> HIDE DEF s1
<1>4. s2 \in StaRecord /\ s2.used = s1.used /\ s2.mac = s1.mac
      /\ s2.rel_ap = s1.rel_ap /\ s2.rel_evidence = ev
  BY <1>3 DEF StaRecord
<1> HIDE DEF s2
<1>5. s3 \in StaRecord /\ s3.used = s2.used /\ s3.mac = s2.mac
      /\ s3.rel_ap = s2.rel_ap /\ s3.rel_evidence = s2.rel_evidence
  BY <1>4 DEF StaRecord
<1> HIDE DEF s3
<1>6. a1 \in ApRecord /\ a1.used = w.ap[i].used /\ a1.bssid = w.ap[i].bssid
      /\ a1.station_count = w.ap[i].station_count + 1
  BY <1>1, <1>a DEF ApRecord
<1> HIDE DEF a1
<1> HIDE DEF newSta, newAp
<1>b. u = [w EXCEPT !.sta = newSta, !.ap = newAp, !.rel_used = w.rel_used + 1]
  OBVIOUS
<1> HIDE DEF u
<1>2. u = [ap |-> newAp, sta |-> newSta, ap_used |-> w.ap_used,
           sta_used |-> w.sta_used, rel_used |-> w.rel_used + 1, stats |-> w.stats]
  BY <1>0, <1>b DEF WorldType
<1>7. newSta \in [StaSlot -> StaRecord] /\ newAp \in [ApSlot -> ApRecord]
  BY <1>1, <1>5, <1>6 DEF newSta, newAp
<1>8. /\ newSta[j] = s3 /\ \A k \in StaSlot \ {j} : newSta[k] = w.sta[k]
      /\ newAp[i] = a1 /\ \A k \in ApSlot \ {i} : newAp[k] = w.ap[k]
  BY <1>0, <1>1 DEF newSta, newAp
<1>9. u.ap = newAp /\ u.sta = newSta
  BY <1>2
<1>10. SameAps(u, w) /\ SameStas(u, w)
  BY <1>3, <1>4, <1>5, <1>6, <1>8, <1>9 DEF SameAps, SameStas
<1>11. u \in WorldType
  <2>1. /\ w.ap_used \in Nat /\ w.sta_used \in Nat /\ w.rel_used + 1 \in Nat
        /\ w.stats \in [Tracked -> 0..(CounterMod - 1)]
    BY <1>0 DEF WorldType
  <2>2. QED
    BY <1>2, <1>7, <2>1 DEF WorldType
<1>12. i # 0 /\ \A k \in ApSlot : k # 0
  BY <1>0 DEF ApSlot
<1>13. CountersExact(u)
  <2>1. /\ Bound(u, StaSlot) = Bound(w, StaSlot) \cup {j}
        /\ j \notin Bound(w, StaSlot)
    BY <1>0, <1>3, <1>4, <1>5, <1>8, <1>9, <1>12 DEF Bound
  <2>2. Bound(w, StaSlot) \in SUBSET StaSlot
    BY DEF Bound
  <2>3. Cardinality(Bound(u, StaSlot)) = w.rel_used + 1
    BY <1>0, <2>1, <2>2, FiniteTables, FS_AddElement DEF CountersExact
  <2>4. ASSUME NEW k \in ApSlot
        PROVE  u.ap[k].station_count = Cardinality(BoundTo(u, StaSlot, k))
    <3>1. BoundTo(w, StaSlot, k) \in SUBSET StaSlot
      BY DEF BoundTo
    <3>2. CASE k = i
      <4>1. /\ BoundTo(u, StaSlot, i) = BoundTo(w, StaSlot, i) \cup {j}
            /\ j \notin BoundTo(w, StaSlot, i)
        BY <1>0, <1>3, <1>4, <1>5, <1>8, <1>9, <1>12 DEF BoundTo
      <4>2. Cardinality(BoundTo(u, StaSlot, i)) = Cardinality(BoundTo(w, StaSlot, i)) + 1
        BY <3>1, <3>2, <4>1, FiniteTables, FS_AddElement
      <4>3. QED
        BY <1>0, <1>6, <1>8, <1>9, <3>2, <4>2 DEF CountersExact
    <3>3. CASE k # i
      <4>1. BoundTo(u, StaSlot, k) = BoundTo(w, StaSlot, k)
        BY <1>0, <1>3, <1>4, <1>5, <1>8, <1>9, <1>12, <3>3 DEF BoundTo
      <4>2. QED
        BY <1>0, <1>8, <1>9, <3>3, <4>1 DEF CountersExact
    <3>4. QED
      BY <3>2, <3>3
  <2>5. UsedAps(u) = UsedAps(w) /\ UsedStas(u) = UsedStas(w)
    BY <1>0, <1>10, SameKeys
  <2>6. u.ap_used = w.ap_used /\ u.sta_used = w.sta_used /\ u.rel_used = w.rel_used + 1
    BY <1>2
  <2>7. QED
    BY <1>0, <2>3, <2>4, <2>5, <2>6 DEF CountersExact
<1>14. RelationsSound(u)
  <2>1. ASSUME NEW k \in StaSlot
        PROVE  LET r == u.sta[k]
               IN /\ r.rel_ap # 0 => r.used /\ u.ap[r.rel_ap].used
                  /\ r.rel_ap # 0 <=> r.rel_evidence # NONE
    <3>1. CASE k = j
      <4>1. ev # NONE
        BY DEF NONE, DOWNLINK, UPLINK
      <4>2. QED
        BY <4>1, <1>0, <1>3, <1>4, <1>5, <1>6, <1>8, <1>9, <1>12, <3>1
    <3>2. CASE k # j
      <4>1. u.sta[k] = w.sta[k] /\ u.sta[k].rel_ap \in 0..AP_MAX
        BY <1>1, <1>8, <1>9, <3>2 DEF StaRecord
      <4>2. u.sta[k].rel_ap # 0 => u.ap[u.sta[k].rel_ap].used
        BY <4>1, <1>0, <1>10 DEF RelationsSound, SameAps, ApSlot
      <4>3. QED
        BY <4>1, <4>2, <1>0 DEF RelationsSound
    <3>3. QED
      BY <3>1, <3>2
  <2>2. QED
    BY <2>1 DEF RelationsSound
<1>15. Good(u)
  BY <1>0, <1>10, <1>11, <1>13, <1>14, SameKeys DEF Good
<1>17. QED
  BY <1>10, <1>15, <1>16, CountGood DEF SameTables, SameAps, SameStas


\* Overwriting the description of a used record changes no relation.
LEMMA DescribeApGood ==
    ASSUME NEW w, Good(w), NEW i \in UsedAps(w), NEW r \in ApRecord,
           r.used, r.bssid = w.ap[i].bssid,
           r.station_count = w.ap[i].station_count
    PROVE  LET v == [w EXCEPT !.ap[i] = r]
           IN Good(v) /\ SameAps(v, w) /\ SameStas(v, w) /\ v.sta = w.sta
<1> DEFINE v == [w EXCEPT !.ap[i] = r]
           newAp == [w.ap EXCEPT ![i] = r]
<1>0. /\ w \in WorldType /\ CountersExact(w) /\ RelationsSound(w) /\ KeysUnique(w)
      /\ i \in ApSlot /\ w.ap[i].used
  BY DEF Good, UsedAps
<1>1. v = [w EXCEPT !.ap = newAp]
  BY <1>0 DEF WorldType
<1> HIDE DEF v
<1>2. v = [ap |-> newAp, sta |-> w.sta, ap_used |-> w.ap_used,
           sta_used |-> w.sta_used, rel_used |-> w.rel_used, stats |-> w.stats]
  <2> HIDE DEF newAp
  <2>1. QED
    BY <1>0, <1>1 DEF WorldType
<1>3. newAp \in [ApSlot -> ApRecord]
  BY <1>0 DEF WorldType
<1>4. \A k \in ApSlot : /\ v.ap[k].used = w.ap[k].used
                        /\ v.ap[k].bssid = w.ap[k].bssid
                        /\ v.ap[k].station_count = w.ap[k].station_count
  <2>1. \A k \in ApSlot : v.ap[k] = IF k = i THEN r ELSE w.ap[k]
    BY <1>0, <1>2 DEF WorldType
  <2>2. r.used = w.ap[i].used
    BY <1>0 DEF ApRecord, WorldType
  <2>3. QED
    BY <2>1, <2>2
<1>5. v.sta = w.sta
  BY <1>2
<1>6. SameAps(v, w) /\ SameStas(v, w)
  BY <1>4, <1>5 DEF SameAps, SameStas
<1>7. v \in WorldType
  <2> HIDE DEF newAp
  <2>1. /\ w.sta \in [StaSlot -> StaRecord] /\ w.ap_used \in Nat
        /\ w.sta_used \in Nat /\ w.rel_used \in Nat
        /\ w.stats \in [Tracked -> 0..(CounterMod - 1)]
    BY <1>0 DEF WorldType
  <2>2. QED
    BY <1>2, <1>3, <2>1 DEF WorldType
<1>8. CountersExact(v)
  <2>1. UsedAps(v) = UsedAps(w) /\ UsedStas(v) = UsedStas(w)
    BY <1>0, <1>6, SameKeys
  <2>2. /\ Bound(v, StaSlot) = Bound(w, StaSlot)
        /\ \A k \in ApSlot : BoundTo(v, StaSlot, k) = BoundTo(w, StaSlot, k)
    BY <1>5 DEF Bound, BoundTo
  <2>3. /\ v.ap_used = w.ap_used /\ v.sta_used = w.sta_used
        /\ v.rel_used = w.rel_used
    BY <1>2
  <2>4. QED
    BY <1>0, <1>4, <2>1, <2>2, <2>3 DEF CountersExact
<1>9. RelationsSound(v)
  <2>1. \A j \in StaSlot : w.sta[j].rel_ap \in 0..AP_MAX
    BY <1>0 DEF WorldType, StaRecord
  <2>2. QED
    BY <1>0, <1>4, <1>5, <2>1 DEF RelationsSound, ApSlot
<1>10. QED
  BY <1>0, <1>5, <1>6, <1>7, <1>8, <1>9, SameKeys DEF Good, v

LEMMA DescribeStaGood ==
    ASSUME NEW w, Good(w), NEW j \in UsedStas(w), NEW r \in StaRecord,
           r.used, r.mac = w.sta[j].mac, r.rel_ap = w.sta[j].rel_ap,
           r.rel_ap # 0 <=> r.rel_evidence # NONE
    PROVE  LET v == [w EXCEPT !.sta[j] = r]
           IN Good(v) /\ SameAps(v, w) /\ SameStas(v, w) /\ v.ap = w.ap
<1> DEFINE v == [w EXCEPT !.sta[j] = r]
           newSta == [w.sta EXCEPT ![j] = r]
<1>0. /\ w \in WorldType /\ CountersExact(w) /\ RelationsSound(w) /\ KeysUnique(w)
      /\ j \in StaSlot /\ w.sta[j].used
  BY DEF Good, UsedStas
<1>1. v = [w EXCEPT !.sta = newSta]
  BY <1>0 DEF WorldType
<1> HIDE DEF v
<1>2. v = [ap |-> w.ap, sta |-> newSta, ap_used |-> w.ap_used,
           sta_used |-> w.sta_used, rel_used |-> w.rel_used, stats |-> w.stats]
  <2> HIDE DEF newSta
  <2>1. QED
    BY <1>0, <1>1 DEF WorldType
<1>3. newSta \in [StaSlot -> StaRecord]
  BY <1>0 DEF WorldType
<1>a. \A k \in StaSlot : v.sta[k] = IF k = j THEN r ELSE w.sta[k]
  BY <1>0, <1>2 DEF WorldType
<1>4. \A k \in StaSlot : /\ v.sta[k].used = w.sta[k].used
                         /\ v.sta[k].mac = w.sta[k].mac
                         /\ v.sta[k].rel_ap = w.sta[k].rel_ap
  <2>2. r.used = w.sta[j].used
    BY <1>0 DEF StaRecord, WorldType
  <2>3. QED
    BY <1>a, <2>2
<1>5. v.ap = w.ap
  BY <1>2
<1>6. SameAps(v, w) /\ SameStas(v, w)
  BY <1>4, <1>5 DEF SameAps, SameStas
<1>7. v \in WorldType
  <2> HIDE DEF newSta
  <2>1. /\ w.ap \in [ApSlot -> ApRecord] /\ w.ap_used \in Nat
        /\ w.sta_used \in Nat /\ w.rel_used \in Nat
        /\ w.stats \in [Tracked -> 0..(CounterMod - 1)]
    BY <1>0 DEF WorldType
  <2>2. QED
    BY <1>2, <1>3, <2>1 DEF WorldType
<1>8. CountersExact(v)
  <2>1. UsedAps(v) = UsedAps(w) /\ UsedStas(v) = UsedStas(w)
    BY <1>0, <1>6, SameKeys
  <2>2. /\ Bound(v, StaSlot) = Bound(w, StaSlot)
        /\ \A k \in ApSlot : BoundTo(v, StaSlot, k) = BoundTo(w, StaSlot, k)
    BY <1>4 DEF Bound, BoundTo
  <2>3. /\ v.ap_used = w.ap_used /\ v.sta_used = w.sta_used
        /\ v.rel_used = w.rel_used
    BY <1>2
  <2>4. QED
    BY <1>0, <1>5, <2>1, <2>2, <2>3 DEF CountersExact
<1>9. RelationsSound(v)
  BY <1>0, <1>4, <1>5, <1>a DEF RelationsSound
<1>10. QED
  BY <1>0, <1>5, <1>6, <1>7, <1>8, <1>9, SameKeys DEF Good, v

LEMMA ZeroRecords == ZeroAp \in ApRecord /\ ZeroSta \in StaRecord
<1>1. 0 \in Times /\ 0 \in 0..SatMax /\ 0 \in 0..AP_MAX
  BY TimeAssumption, CounterAssumption, TableAssumption DEF Times
<1>2. ZeroSecurity \in Security
  BY DEF ZeroSecurity, Security
<1>3. ZeroAp \in ApRecord
  BY <1>1, <1>2 DEF ZeroAp, ApRecord, Address
<1>4. ZeroSta \in StaRecord
  BY <1>1 DEF ZeroSta, StaRecord, Address, NONE
<1>5. QED
  BY <1>3, <1>4


LEMMA PlaceApGood ==
    ASSUME NEW w, Good(w), NEW i \in FreeAps(w), NEW b \in Mac, NEW t \in Times,
           NEW strong \in BOOLEAN, ApsNamed(w, b) = {}
    PROVE  LET v == PlaceAp(w, i, b, t, strong)
           IN /\ Good(v) /\ v.sta = w.sta /\ UsedAps(v) = UsedAps(w) \cup {i}
              /\ v.ap[i].bssid = b
<1> DEFINE fresh == [ZeroAp EXCEPT !.used = TRUE, !.bssid = b, !.last_seen = t,
                                   !.provisional = ~strong]
           newAp == [w.ap EXCEPT ![i] = fresh]
           v == [w EXCEPT !.ap = newAp, !.ap_used = w.ap_used + 1]
<1>0. /\ w \in WorldType /\ CountersExact(w) /\ RelationsSound(w) /\ KeysUnique(w)
      /\ i \in ApSlot /\ ~w.ap[i].used
  BY DEF Good, FreeAps
<1>1. /\ fresh \in ApRecord /\ fresh.used = TRUE /\ fresh.bssid = b
      /\ fresh.station_count = 0
  <2> DEFINE f1 == [ZeroAp EXCEPT !.used = TRUE]
             f2 == [f1 EXCEPT !.bssid = b]
             f3 == [f2 EXCEPT !.last_seen = t]
             f4 == [f3 EXCEPT !.provisional = ~strong]
  <2>0. fresh = f4
    OBVIOUS
  <2>1. b \in Address
    BY DEF Address
  <2>2. (~strong) \in BOOLEAN
    OBVIOUS
  <2>3. ZeroAp \in ApRecord /\ ZeroAp.station_count = 0
    BY ZeroRecords DEF ZeroAp
  <2>4. f1 \in ApRecord /\ f1.used = TRUE /\ f1.station_count = 0
    BY <2>3 DEF ApRecord
  <2> HIDE DEF f1, fresh
  <2>5. f2 \in ApRecord /\ f2.used = TRUE /\ f2.station_count = 0 /\ f2.bssid = b
    BY <2>1, <2>4 DEF ApRecord
  <2> HIDE DEF f2
  <2>6. f3 \in ApRecord /\ f3.used = TRUE /\ f3.station_count = 0 /\ f3.bssid = b
    BY <2>5 DEF ApRecord
  <2> HIDE DEF f3
  <2>7. f4 \in ApRecord /\ f4.used = TRUE /\ f4.station_count = 0 /\ f4.bssid = b
    BY <2>2, <2>6 DEF ApRecord
  <2>8. QED
    BY <2>0, <2>7
<1>2. PlaceAp(w, i, b, t, strong) = CountN(v, "ap_created", 1)
  BY DEF PlaceAp, Count
<1> HIDE DEF fresh
<1>3. newAp \in [ApSlot -> ApRecord]
  BY <1>0, <1>1 DEF WorldType
<1>4. \A k \in ApSlot : newAp[k] = IF k = i THEN fresh ELSE w.ap[k]
  BY <1>0 DEF WorldType
<1> HIDE DEF newAp
<1>5. v = [w EXCEPT !.ap = newAp, !.ap_used = w.ap_used + 1]
  OBVIOUS
<1> HIDE DEF v
<1>6. v = [ap |-> newAp, sta |-> w.sta, ap_used |-> w.ap_used + 1,
           sta_used |-> w.sta_used, rel_used |-> w.rel_used, stats |-> w.stats]
  BY <1>0, <1>5 DEF WorldType
<1>7. v.ap = newAp /\ v.sta = w.sta
  BY <1>6
<1>8. v \in WorldType
  <2>1. /\ w.sta \in [StaSlot -> StaRecord] /\ w.ap_used + 1 \in Nat
        /\ w.sta_used \in Nat /\ w.rel_used \in Nat
        /\ w.stats \in [Tracked -> 0..(CounterMod - 1)]
    BY <1>0 DEF WorldType
  <2>2. QED
    BY <1>3, <1>6, <2>1 DEF WorldType
<1>9. UsedAps(v) = UsedAps(w) \cup {i} /\ UsedStas(v) = UsedStas(w)
  BY <1>0, <1>1, <1>4, <1>7 DEF UsedAps, UsedStas
<1>10. CountersExact(v)
  <2>1. UsedAps(w) \in SUBSET ApSlot /\ i \notin UsedAps(w)
    BY <1>0 DEF UsedAps
  <2>2. Cardinality(UsedAps(v)) = w.ap_used + 1
    BY <1>0, <1>9, <2>1, FiniteTables, FS_AddElement DEF CountersExact
  <2>3. /\ Bound(v, StaSlot) = Bound(w, StaSlot)
        /\ \A k \in ApSlot : BoundTo(v, StaSlot, k) = BoundTo(w, StaSlot, k)
    BY <1>7 DEF Bound, BoundTo
  <2>4. ASSUME NEW k \in ApSlot
        PROVE  v.ap[k].station_count = Cardinality(BoundTo(v, StaSlot, k))
    <3>1. CASE k = i
      <4>1. BoundTo(w, StaSlot, i) = {}
        BY <1>0 DEF BoundTo, RelationsSound, ApSlot
      <4>2. QED
        BY <1>0, <1>1, <1>4, <1>7, <2>3, <3>1, <4>1, FS_EmptySet
    <3>2. CASE k # i
      BY <1>0, <1>4, <1>7, <2>3, <3>2 DEF CountersExact
    <3>3. QED
      BY <3>1, <3>2
  <2>5. /\ v.ap_used = w.ap_used + 1 /\ v.sta_used = w.sta_used
        /\ v.rel_used = w.rel_used
    BY <1>6
  <2>6. QED
    BY <1>0, <1>9, <2>2, <2>3, <2>4, <2>5 DEF CountersExact
<1>11. RelationsSound(v)
  <2>1. \A j \in StaSlot : w.sta[j].rel_ap \in 0..AP_MAX
    BY <1>0 DEF WorldType, StaRecord
  <2>2. QED
    BY <1>0, <1>1, <1>4, <1>7, <2>1 DEF RelationsSound, ApSlot
<1>12. KeysUnique(v)
  <2>1. \A k \in UsedAps(w) : w.ap[k].bssid # b /\ k \in ApSlot /\ k # i
    BY <1>0 DEF ApsNamed, UsedAps
  <2>2. QED
    BY <1>0, <1>1, <1>4, <1>7, <1>9, <2>1 DEF KeysUnique
<1>13. Good(v)
  BY <1>8, <1>10, <1>11, <1>12 DEF Good
<1>14. QED
  BY <1>0, <1>1, <1>2, <1>4, <1>7, <1>9, <1>13, CountGood DEF SameTables, UsedAps

LEMMA PlaceStaGood ==
    ASSUME NEW w, Good(w), NEW j \in FreeStas(w), NEW m \in Mac, NEW t \in Times,
           StasNamed(w, m) = {}
    PROVE  LET v == PlaceSta(w, j, m, t)
           IN /\ Good(v) /\ v.ap = w.ap /\ UsedStas(v) = UsedStas(w) \cup {j}
              /\ v.sta[j].mac = m
<1> DEFINE fresh == [ZeroSta EXCEPT !.used = TRUE, !.mac = m, !.last_observed = t]
           newSta == [w.sta EXCEPT ![j] = fresh]
           v == [w EXCEPT !.sta = newSta, !.sta_used = w.sta_used + 1]
<1>0. /\ w \in WorldType /\ CountersExact(w) /\ RelationsSound(w) /\ KeysUnique(w)
      /\ j \in StaSlot /\ ~w.sta[j].used
  BY DEF Good, FreeStas
<1>1. /\ fresh \in StaRecord /\ fresh.used = TRUE /\ fresh.mac = m
      /\ fresh.rel_ap = 0 /\ fresh.rel_evidence = NONE
  <2> DEFINE f1 == [ZeroSta EXCEPT !.used = TRUE]
             f2 == [f1 EXCEPT !.mac = m]
             f3 == [f2 EXCEPT !.last_observed = t]
  <2>0. fresh = f3
    OBVIOUS
  <2>1. m \in Address
    BY DEF Address
  <2>3. ZeroSta \in StaRecord /\ ZeroSta.rel_ap = 0 /\ ZeroSta.rel_evidence = NONE
    BY ZeroRecords DEF ZeroSta
  <2>4. f1 \in StaRecord /\ f1.used = TRUE /\ f1.rel_ap = 0 /\ f1.rel_evidence = NONE
    BY <2>3 DEF StaRecord
  <2> HIDE DEF f1, fresh
  <2>5. /\ f2 \in StaRecord /\ f2.used = TRUE /\ f2.rel_ap = 0
        /\ f2.rel_evidence = NONE /\ f2.mac = m
    BY <2>1, <2>4 DEF StaRecord
  <2> HIDE DEF f2
  <2>6. /\ f3 \in StaRecord /\ f3.used = TRUE /\ f3.rel_ap = 0
        /\ f3.rel_evidence = NONE /\ f3.mac = m
    BY <2>5 DEF StaRecord
  <2>8. QED
    BY <2>0, <2>6
<1>2. PlaceSta(w, j, m, t) = CountN(v, "sta_created", 1)
  BY DEF PlaceSta, Count
<1> HIDE DEF fresh
<1>3. newSta \in [StaSlot -> StaRecord]
  BY <1>0, <1>1 DEF WorldType
<1>4. \A k \in StaSlot : newSta[k] = IF k = j THEN fresh ELSE w.sta[k]
  BY <1>0 DEF WorldType
<1> HIDE DEF newSta
<1>5. v = [w EXCEPT !.sta = newSta, !.sta_used = w.sta_used + 1]
  OBVIOUS
<1> HIDE DEF v
<1>6. v = [ap |-> w.ap, sta |-> newSta, ap_used |-> w.ap_used,
           sta_used |-> w.sta_used + 1, rel_used |-> w.rel_used, stats |-> w.stats]
  BY <1>0, <1>5 DEF WorldType
<1>7. v.sta = newSta /\ v.ap = w.ap
  BY <1>6
<1>8. v \in WorldType
  <2>1. /\ w.ap \in [ApSlot -> ApRecord] /\ w.sta_used + 1 \in Nat
        /\ w.ap_used \in Nat /\ w.rel_used \in Nat
        /\ w.stats \in [Tracked -> 0..(CounterMod - 1)]
    BY <1>0 DEF WorldType
  <2>2. QED
    BY <1>3, <1>6, <2>1 DEF WorldType
<1>9. UsedStas(v) = UsedStas(w) \cup {j} /\ UsedAps(v) = UsedAps(w)
  BY <1>0, <1>1, <1>4, <1>7 DEF UsedAps, UsedStas
<1>a. w.sta[j].rel_ap = 0
  BY <1>0 DEF RelationsSound
<1>10. CountersExact(v)
  <2>1. UsedStas(w) \in SUBSET StaSlot /\ j \notin UsedStas(w)
    BY <1>0 DEF UsedStas
  <2>2. Cardinality(UsedStas(v)) = w.sta_used + 1
    BY <1>0, <1>9, <2>1, FiniteTables, FS_AddElement DEF CountersExact
  <2>3. \A k \in StaSlot : v.sta[k].rel_ap = w.sta[k].rel_ap
    BY <1>1, <1>4, <1>7, <1>a
  <2>4. /\ Bound(v, StaSlot) = Bound(w, StaSlot)
        /\ \A k \in ApSlot : BoundTo(v, StaSlot, k) = BoundTo(w, StaSlot, k)
    BY <2>3 DEF Bound, BoundTo
  <2>5. /\ v.sta_used = w.sta_used + 1 /\ v.ap_used = w.ap_used
        /\ v.rel_used = w.rel_used
    BY <1>6
  <2>6. QED
    BY <1>0, <1>7, <1>9, <2>2, <2>4, <2>5 DEF CountersExact
<1>11. RelationsSound(v)
  BY <1>0, <1>1, <1>4, <1>7 DEF RelationsSound
<1>12. KeysUnique(v)
  <2>1. \A k \in UsedStas(w) : w.sta[k].mac # m /\ k \in StaSlot /\ k # j
    BY <1>0 DEF StasNamed, UsedStas
  <2>2. QED
    BY <1>0, <1>1, <1>4, <1>7, <1>9, <2>1 DEF KeysUnique
<1>13. Good(v)
  BY <1>8, <1>10, <1>11, <1>12 DEF Good
<1>14. QED
  BY <1>0, <1>1, <1>2, <1>4, <1>7, <1>9, <1>13, CountGood DEF SameTables, UsedStas


-----------------------------------------------------------------------------
(* Sweeps and allocation *)

LEMMA SweepApsGood ==
    ASSUME NEW w, Good(w), NEW t \in Times
    PROVE  LET v == sweep_expired_aps(w, t)
           IN Good(v) /\ SameStas(v, w) /\ UsedAps(v) \subseteq UsedAps(w)
              /\ \A i \in UsedAps(v) : v.ap[i] = w.ap[i]
<1> DEFINE E == ExpiredAps(w, t)
           u == RemoveAps(w, E)
<1>1. E \in SUBSET UsedAps(w) /\ UsedAps(w) \subseteq ApSlot
  BY DEF ExpiredAps, UsedAps
<1>2. Cardinality(E) \in Nat
  BY <1>1, FiniteTables DEF UsedAps
<1>3. /\ Good(u) /\ SameStas(u, w) /\ UsedAps(u) = UsedAps(w) \ E
      /\ \A i \in ApSlot \ E : u.ap[i] = w.ap[i]
  BY <1>1, RemoveApsGood
<1>4. sweep_expired_aps(w, t) = CountN(u, "ap_expired", Cardinality(E))
  BY DEF sweep_expired_aps
<1> HIDE DEF E, u
<1>5. QED
  BY <1>1, <1>2, <1>3, <1>4, CountGood DEF SameTables, SameStas, UsedAps

LEMMA SweepStasGood ==
    ASSUME NEW w, Good(w), NEW t \in Times
    PROVE  LET v == sweep_expired_stas(w, t)
           IN Good(v) /\ SameAps(v, w) /\ UsedStas(v) \subseteq UsedStas(w)
              /\ \A j \in UsedStas(v) : v.sta[j] = w.sta[j]
<1> DEFINE E == ExpiredStas(w, t)
           u == RemoveStas(w, E)
<1>1. E \in SUBSET UsedStas(w) /\ UsedStas(w) \subseteq StaSlot
  BY DEF ExpiredStas, UsedStas
<1>2. Cardinality(E) \in Nat
  BY <1>1, FiniteTables DEF UsedStas
<1>3. /\ Good(u) /\ SameAps(u, w) /\ UsedStas(u) = UsedStas(w) \ E
      /\ \A j \in StaSlot \ E : u.sta[j] = w.sta[j]
  BY <1>1, RemoveStasGood
<1>4. sweep_expired_stas(w, t) = CountN(u, "sta_expired", Cardinality(E))
  BY DEF sweep_expired_stas
<1> HIDE DEF E, u
<1>5. QED
  BY <1>1, <1>2, <1>3, <1>4, CountGood DEF SameTables, SameAps, UsedStas

LEMMA SweepRelsGood ==
    ASSUME NEW w, Good(w), NEW t \in Times
    PROVE  Good(sweep_expired_rels(w, t))
<1> DEFINE E == ExpiredRels(w, t)
<1>1. E \in SUBSET StaSlot /\ Cardinality(E) \in Nat
  BY FiniteTables DEF ExpiredRels
<1>2. Good(UnbindAll(w, E))
  BY <1>1, UnbindAllGood
<1>3. QED
  BY <1>1, <1>2, CountGood DEF sweep_expired_rels

\* A non-empty set of naturals has a least element, and Min is it.  (The
\* initial segments of its elements are finite sets, which inclusion orders
\* well.)
LEMMA MinOfNats ==
    ASSUME NEW S \in SUBSET Nat, S # {}
    PROVE  Min(S) \in S /\ \A y \in S : Min(S) <= y
<1> DEFINE Segments == {0..n : n \in S}
<1>1. Segments \subseteq FiniteSubsetsOf(Nat) /\ Segments # {}
  <2>1. \A n \in S : 0..n \in SUBSET Nat /\ IsFiniteSet(0..n)
    BY FS_Interval
  <2>2. QED
    BY <2>1 DEF FiniteSubsetsOf
<1>2. IsWellFoundedOn(StrictSubsetOrdering(Nat), FiniteSubsetsOf(Nat))
  BY FS_StrictSubsetOrderingWellFounded
<1>3. \E X \in Segments : \A Y \in Segments : ~(<<Y, X>> \in StrictSubsetOrdering(Nat))
  <2> HIDE DEF Segments
  <2>1. QED
    BY <1>1, <1>2, WFMin
<1>4. PICK x \in S : \A y \in S : ~(<<0..y, 0..x>> \in StrictSubsetOrdering(Nat))
  BY <1>3
<1>5. ASSUME NEW y \in S, y < x
      PROVE  FALSE
  <2>1. 0..y \in SUBSET Nat /\ 0..x \in SUBSET Nat /\ 0..y \subseteq 0..x
    BY <1>5
  <2>2. x \in 0..x /\ x \notin 0..y
    BY <1>5
  <2>3. QED
    BY <1>4, <2>1, <2>2 DEF StrictSubsetOrdering
<1>6. \A y \in S : x <= y
  BY <1>5
<1>7. QED
  BY <1>6 DEF Min

LEMMA OldestIsASlot ==
    ASSUME NEW w \in WorldType
    PROVE  OldestAp(w) \in ApSlot /\ OldestSta(w) \in StaSlot
<1>1. ApSlot # {} /\ StaSlot # {} /\ ApSlot \subseteq Nat /\ StaSlot \subseteq Nat
  BY TableAssumption DEF ApSlot, StaSlot
<1>2. OldestAp(w) \in ApSlot
  <2> DEFINE V == {w.ap[i].last_seen : i \in ApSlot}
             Oldest == {i \in ApSlot :
                          \A k \in ApSlot : w.ap[i].last_seen <= w.ap[k].last_seen}
  <2>1. \A i \in ApSlot : w.ap[i].last_seen \in Nat
    BY DEF WorldType, ApRecord, Times
  <2>2. V \in SUBSET Nat /\ V # {}
    BY <1>1, <2>1
  <2>3. Min(V) \in V /\ \A y \in V : Min(V) <= y
    <3> HIDE DEF V
    <3>1. QED
      BY <2>2, MinOfNats
  <2>4. PICK i \in ApSlot : \A k \in ApSlot : w.ap[i].last_seen <= w.ap[k].last_seen
    BY <2>3
  <2>5. Oldest \in SUBSET Nat /\ Oldest # {} /\ Oldest \subseteq ApSlot
    BY <1>1, <2>4
  <2>6. OldestAp(w) = Min(Oldest)
    BY DEF OldestAp
  <2> HIDE DEF Oldest
  <2>7. QED
    BY <2>5, <2>6, MinOfNats
<1>3. OldestSta(w) \in StaSlot
  <2> DEFINE V == {w.sta[j].last_observed : j \in StaSlot}
             Oldest == {j \in StaSlot :
                          \A k \in StaSlot : w.sta[j].last_observed <= w.sta[k].last_observed}
  <2>1. \A j \in StaSlot : w.sta[j].last_observed \in Nat
    BY DEF WorldType, StaRecord, Times
  <2>2. V \in SUBSET Nat /\ V # {}
    BY <1>1, <2>1
  <2>3. Min(V) \in V /\ \A y \in V : Min(V) <= y
    <3> HIDE DEF V
    <3>1. QED
      BY <2>2, MinOfNats
  <2>4. PICK j \in StaSlot :
            \A k \in StaSlot : w.sta[j].last_observed <= w.sta[k].last_observed
    BY <2>3
  <2>5. Oldest \in SUBSET Nat /\ Oldest # {} /\ Oldest \subseteq StaSlot
    BY <1>1, <2>4
  <2>6. OldestSta(w) = Min(Oldest)
    BY DEF OldestSta
  <2> HIDE DEF Oldest
  <2>7. QED
    BY <2>5, <2>6, MinOfNats
<1>4. QED
  BY <1>2, <1>3

\* A free slot is found, or made by eviction, or refused; whatever happens
\* no record comes into being, so an address that was absent stays absent.
LEMMA AllocApGood ==
    ASSUME NEW w, Good(w), NEW t \in Times, NEW strong \in BOOLEAN,
           NEW b, ApsNamed(w, b) = {}
    PROVE  LET a == alloc_ap(w, t, strong)
           IN /\ Good(a.w) /\ SameStas(a.w, w) /\ ApsNamed(a.w, b) = {}
              /\ a.slot # 0 => a.slot \in FreeAps(a.w)
              /\ strong => a.slot # 0
<1> DEFINE swept == IF FreeAps(w) # {} THEN w ELSE sweep_expired_aps(w, t)
           victim == OldestAp(swept)
           out == ap_remove(swept, victim)
<1>1. /\ Good(swept) /\ SameStas(swept, w) /\ UsedAps(swept) \subseteq UsedAps(w)
      /\ \A i \in UsedAps(swept) : swept.ap[i] = w.ap[i]
  <2>1. CASE FreeAps(w) # {}
    BY <2>1 DEF SameStas
  <2>2. CASE FreeAps(w) = {}
    BY <2>2, SweepApsGood
  <2>3. QED
    BY <2>1, <2>2
<1> HIDE DEF swept
<1>2. ApsNamed(swept, b) = {}
  BY <1>1 DEF ApsNamed, UsedAps
<1>3. CASE FreeAps(swept) # {}
  <2>1. alloc_ap(w, t, strong) = [w |-> swept, slot |-> Min(FreeAps(swept))]
    BY <1>3 DEF alloc_ap, swept
  <2>2. FreeAps(swept) \in SUBSET Nat /\ 0 \notin FreeAps(swept)
    BY DEF FreeAps, ApSlot
  <2>3. Min(FreeAps(swept)) \in FreeAps(swept)
    BY <1>3, <2>2, MinOfNats
  <2>4. QED
    BY <1>1, <1>2, <2>1, <2>2, <2>3
<1>4. CASE FreeAps(swept) = {} /\ ~strong
  <2>1. alloc_ap(w, t, strong) = [w |-> CountN(swept, "ap_rejected", 1), slot |-> 0]
    BY <1>4 DEF alloc_ap, swept, Count
  <2>2. /\ Good(CountN(swept, "ap_rejected", 1))
        /\ SameTables(CountN(swept, "ap_rejected", 1), swept)
    BY <1>1, CountGood
  <2>3. QED
    BY <1>1, <1>2, <1>4, <2>1, <2>2 DEF SameTables, SameStas, ApsNamed
<1>5. CASE FreeAps(swept) = {} /\ strong
  <2>1. alloc_ap(w, t, strong) = [w |-> CountN(out, "ap_evicted", 1), slot |-> victim]
    BY <1>5 DEF alloc_ap, swept, Count
  <2>2. victim \in ApSlot
    BY <1>1, OldestIsASlot DEF Good
  <2> HIDE DEF victim
  <2>3. victim \in UsedAps(swept) /\ victim # 0
    BY <1>5, <2>2 DEF FreeAps, UsedAps, ApSlot
  <2>4. {victim} \in SUBSET UsedAps(swept) /\ out = RemoveAps(swept, {victim})
    BY <2>3 DEF ap_remove
  <2> HIDE DEF out
  <2>5. /\ Good(out) /\ SameStas(out, swept)
        /\ UsedAps(out) = UsedAps(swept) \ {victim}
        /\ \A i \in ApSlot \ {victim} : out.ap[i] = swept.ap[i]
    BY <1>1, <2>4, RemoveApsGood
  <2>6. /\ Good(CountN(out, "ap_evicted", 1))
        /\ SameTables(CountN(out, "ap_evicted", 1), out)
    BY <2>5, CountGood
  <2>7. ApsNamed(out, b) = {}
    BY <1>2, <2>5 DEF ApsNamed, UsedAps
  <2>8. victim \in FreeAps(out)
    BY <2>2, <2>5 DEF FreeAps, UsedAps
  <2>9. SameStas(out, w)
    BY <1>1, <2>5 DEF SameStas
  <2>10. QED
    BY <2>1, <2>3, <2>6, <2>7, <2>8, <2>9 DEF SameTables, SameStas, ApsNamed, FreeAps
<1>6. QED
  BY <1>3, <1>4, <1>5

LEMMA AllocStaGood ==
    ASSUME NEW w, Good(w), NEW t \in Times, NEW strong \in BOOLEAN,
           NEW m, StasNamed(w, m) = {}
    PROVE  LET a == alloc_sta(w, t, strong)
           IN /\ Good(a.w) /\ SameAps(a.w, w) /\ StasNamed(a.w, m) = {}
              /\ a.slot # 0 => a.slot \in FreeStas(a.w)
              /\ strong => a.slot # 0
<1> DEFINE swept == IF FreeStas(w) # {} THEN w ELSE sweep_expired_stas(w, t)
           victim == OldestSta(swept)
           out == sta_remove(swept, victim)
<1>1. /\ Good(swept) /\ SameAps(swept, w) /\ UsedStas(swept) \subseteq UsedStas(w)
      /\ \A j \in UsedStas(swept) : swept.sta[j] = w.sta[j]
  <2>1. CASE FreeStas(w) # {}
    BY <2>1 DEF SameAps
  <2>2. CASE FreeStas(w) = {}
    BY <2>2, SweepStasGood
  <2>3. QED
    BY <2>1, <2>2
<1> HIDE DEF swept
<1>2. StasNamed(swept, m) = {}
  BY <1>1 DEF StasNamed, UsedStas
<1>3. CASE FreeStas(swept) # {}
  <2>1. alloc_sta(w, t, strong) = [w |-> swept, slot |-> Min(FreeStas(swept))]
    BY <1>3 DEF alloc_sta, swept
  <2>2. FreeStas(swept) \in SUBSET Nat /\ 0 \notin FreeStas(swept)
    BY DEF FreeStas, StaSlot
  <2>3. Min(FreeStas(swept)) \in FreeStas(swept)
    BY <1>3, <2>2, MinOfNats
  <2>4. QED
    BY <1>1, <1>2, <2>1, <2>2, <2>3
<1>4. CASE FreeStas(swept) = {} /\ ~strong
  <2>1. alloc_sta(w, t, strong) = [w |-> CountN(swept, "sta_rejected", 1), slot |-> 0]
    BY <1>4 DEF alloc_sta, swept, Count
  <2>2. /\ Good(CountN(swept, "sta_rejected", 1))
        /\ SameTables(CountN(swept, "sta_rejected", 1), swept)
    BY <1>1, CountGood
  <2>3. QED
    BY <1>1, <1>2, <1>4, <2>1, <2>2 DEF SameTables, SameAps, StasNamed
<1>5. CASE FreeStas(swept) = {} /\ strong
  <2>1. alloc_sta(w, t, strong) = [w |-> CountN(out, "sta_evicted", 1), slot |-> victim]
    BY <1>5 DEF alloc_sta, swept, Count
  <2>2. victim \in StaSlot
    BY <1>1, OldestIsASlot DEF Good
  <2> HIDE DEF victim
  <2>3. victim \in UsedStas(swept) /\ victim # 0
    BY <1>5, <2>2 DEF FreeStas, UsedStas, StaSlot
  <2>4. {victim} \in SUBSET UsedStas(swept) /\ out = RemoveStas(swept, {victim})
    BY <2>3 DEF sta_remove
  <2> HIDE DEF out
  <2>5. /\ Good(out) /\ SameAps(out, swept)
        /\ UsedStas(out) = UsedStas(swept) \ {victim}
        /\ \A j \in StaSlot \ {victim} : out.sta[j] = swept.sta[j]
    BY <1>1, <2>4, RemoveStasGood
  <2>6. /\ Good(CountN(out, "sta_evicted", 1))
        /\ SameTables(CountN(out, "sta_evicted", 1), out)
    BY <2>5, CountGood
  <2>7. StasNamed(out, m) = {}
    BY <1>2, <2>5 DEF StasNamed, UsedStas
  <2>8. victim \in FreeStas(out)
    BY <2>2, <2>5 DEF FreeStas, UsedStas
  <2>9. SameAps(out, w)
    BY <1>1, <2>5 DEF SameAps
  <2>10. QED
    BY <2>1, <2>3, <2>6, <2>7, <2>8, <2>9 DEF SameTables, SameAps, StasNamed, FreeStas
<1>6. QED
  BY <1>3, <1>4, <1>5


\* Looking up an address, or creating its record, yields the slot that holds
\* it (or no slot), and leaves the addresses of the other table alone.
LEMMA ApForGood ==
    ASSUME NEW w, Good(w), NEW b \in Mac, NEW t \in Times, NEW strong \in BOOLEAN
    PROVE  LET a == ApFor(w, b, t, strong)
           IN /\ Good(a.w) /\ SameStas(a.w, w)
              /\ a.slot # 0 => a.slot \in UsedAps(a.w) /\ a.w.ap[a.slot].bssid = b
              /\ strong => a.slot # 0
<1>1. CASE ApsNamed(w, b) # {}
  <2>1. ApsNamed(w, b) \in SUBSET Nat /\ 0 \notin ApsNamed(w, b)
    BY DEF ApsNamed, ApSlot
  <2>2. Min(ApsNamed(w, b)) \in ApsNamed(w, b)
    BY <1>1, <2>1, MinOfNats
  <2>3. ApFor(w, b, t, strong) = [w |-> w, slot |-> Min(ApsNamed(w, b))]
    BY <1>1, <2>1, <2>2 DEF ApFor, find_ap
  <2> DEFINE i == Min(ApsNamed(w, b))
  <2>4. i \in UsedAps(w) /\ w.ap[i].bssid = b /\ i # 0
    BY <2>1, <2>2 DEF ApsNamed, UsedAps
  <2>5. SameStas(w, w)
    BY DEF SameStas
  <2> HIDE DEF i
  <2>6. ApFor(w, b, t, strong).w = w /\ ApFor(w, b, t, strong).slot = i
    BY <2>3 DEF i
  <2>7. QED
    BY <2>4, <2>5, <2>6
<1>2. CASE ApsNamed(w, b) = {}
  <2> DEFINE a == alloc_ap(w, t, strong)
             v == PlaceAp(a.w, a.slot, b, t, strong)
  <2>1. /\ Good(a.w) /\ SameStas(a.w, w) /\ ApsNamed(a.w, b) = {}
        /\ a.slot # 0 => a.slot \in FreeAps(a.w)
        /\ strong => a.slot # 0
    BY <1>2, AllocApGood
  <2>2. ApFor(w, b, t, strong) = ap_create(w, b, t, strong)
    BY <1>2 DEF ApFor, find_ap
  <2>3. CASE a.slot = 0
    <3>1. ap_create(w, b, t, strong) = a
      BY <2>3 DEF ap_create
    <3>2. QED
      BY <2>1, <2>2, <2>3, <3>1
  <2>4. CASE a.slot # 0
    <3>1. ap_create(w, b, t, strong) = [a EXCEPT !.w = v]
      BY <2>4 DEF ap_create
    <3>2. a = [w |-> a.w, slot |-> a.slot]
      BY DEF alloc_ap
    <3> HIDE DEF a
    <3>3. /\ Good(v) /\ v.sta = a.w.sta /\ a.slot \in UsedAps(v)
          /\ v.ap[a.slot].bssid = b
      BY <2>1, <2>4, PlaceApGood
    <3> HIDE DEF v
    <3>4. [a EXCEPT !.w = v] = [w |-> v, slot |-> a.slot]
      BY <3>2
    <3>5. SameStas(v, w)
      BY <2>1, <3>3 DEF SameStas
    <3>6. QED
      BY <2>1, <2>2, <2>4, <3>1, <3>3, <3>4, <3>5
  <2>5. QED
    BY <2>3, <2>4
<1>3. QED
  BY <1>1, <1>2

LEMMA StaForGood ==
    ASSUME NEW w, Good(w), NEW m \in Mac, NEW t \in Times, NEW strong \in BOOLEAN
    PROVE  LET a == StaFor(w, m, t, strong)
           IN /\ Good(a.w) /\ SameAps(a.w, w)
              /\ a.slot # 0 => a.slot \in UsedStas(a.w) /\ a.w.sta[a.slot].mac = m
              /\ strong => a.slot # 0
<1>1. CASE StasNamed(w, m) # {}
  <2>1. StasNamed(w, m) \in SUBSET Nat /\ 0 \notin StasNamed(w, m)
    BY DEF StasNamed, StaSlot
  <2>2. Min(StasNamed(w, m)) \in StasNamed(w, m)
    BY <1>1, <2>1, MinOfNats
  <2>3. StaFor(w, m, t, strong) = [w |-> w, slot |-> Min(StasNamed(w, m))]
    BY <1>1, <2>1, <2>2 DEF StaFor, find_sta
  <2> DEFINE i == Min(StasNamed(w, m))
  <2>4. i \in UsedStas(w) /\ w.sta[i].mac = m /\ i # 0
    BY <2>1, <2>2 DEF StasNamed, UsedStas
  <2>5. SameAps(w, w)
    BY DEF SameAps
  <2> HIDE DEF i
  <2>6. StaFor(w, m, t, strong).w = w /\ StaFor(w, m, t, strong).slot = i
    BY <2>3 DEF i
  <2>7. QED
    BY <2>4, <2>5, <2>6
<1>2. CASE StasNamed(w, m) = {}
  <2> DEFINE a == alloc_sta(w, t, strong)
             v == PlaceSta(a.w, a.slot, m, t)
  <2>1. /\ Good(a.w) /\ SameAps(a.w, w) /\ StasNamed(a.w, m) = {}
        /\ a.slot # 0 => a.slot \in FreeStas(a.w)
        /\ strong => a.slot # 0
    BY <1>2, AllocStaGood
  <2>2. StaFor(w, m, t, strong) = sta_create(w, m, t, strong)
    BY <1>2 DEF StaFor, find_sta
  <2>3. CASE a.slot = 0
    <3>1. sta_create(w, m, t, strong) = a
      BY <2>3 DEF sta_create
    <3>2. QED
      BY <2>1, <2>2, <2>3, <3>1
  <2>4. CASE a.slot # 0
    <3>1. sta_create(w, m, t, strong) = [a EXCEPT !.w = v]
      BY <2>4 DEF sta_create
    <3>2. a = [w |-> a.w, slot |-> a.slot]
      BY DEF alloc_sta
    <3> HIDE DEF a
    <3>3. /\ Good(v) /\ v.ap = a.w.ap /\ a.slot \in UsedStas(v)
          /\ v.sta[a.slot].mac = m
      BY <2>1, <2>4, PlaceStaGood
    <3> HIDE DEF v
    <3>4. [a EXCEPT !.w = v] = [w |-> v, slot |-> a.slot]
      BY <3>2
    <3>5. SameAps(v, w)
      BY <2>1, <3>3 DEF SameAps
    <3>6. QED
      BY <2>1, <2>2, <2>4, <3>1, <3>3, <3>4, <3>5
  <2>5. QED
    BY <2>3, <2>4
<1>3. QED
  BY <1>1, <1>2

-----------------------------------------------------------------------------
(* Records that were heard of again keep their place in the tables *)

ApRefreshed(q, r) ==
    /\ q \in ApRecord /\ q.used = r.used /\ q.bssid = r.bssid
    /\ q.station_count = r.station_count

StaRefreshed(q, r) ==
    /\ q \in StaRecord /\ q.used = r.used /\ q.mac = r.mac
    /\ q.rel_ap = r.rel_ap /\ q.rel_evidence = r.rel_evidence

LEMMA ApFields ==
    ASSUME NEW r \in ApRecord
    PROVE  /\ \A x \in Times : ApRefreshed([r EXCEPT !.last_seen = x], r)
           /\ \A x \in Address : ApRefreshed([r EXCEPT !.rssi = x], r)
           /\ \A x \in BOOLEAN : ApRefreshed([r EXCEPT !.provisional = x], r)
           /\ \A x \in 0..SatMax :
                 /\ ApRefreshed([r EXCEPT !.beacon_count = x], r)
                 /\ ApRefreshed([r EXCEPT !.probe_resp_count = x], r)
                 /\ ApRefreshed([r EXCEPT !.data_up_count = x], r)
                 /\ ApRefreshed([r EXCEPT !.data_down_count = x], r)
           /\ \A x \in Channel \cup {0} : ApRefreshed([r EXCEPT !.channel = x], r)
           /\ \A x \in Ssid \cup {NoSsid} : ApRefreshed([r EXCEPT !.ssid = x], r)
           /\ \A x \in Security : ApRefreshed([r EXCEPT !.sec = x], r)
<1>1. \A x \in Times : ApRefreshed([r EXCEPT !.last_seen = x], r)
  BY DEF ApRecord, ApRefreshed
<1>2. \A x \in Address : ApRefreshed([r EXCEPT !.rssi = x], r)
  BY DEF ApRecord, ApRefreshed
<1>3. \A x \in BOOLEAN : ApRefreshed([r EXCEPT !.provisional = x], r)
  BY DEF ApRecord, ApRefreshed
<1>4. \A x \in 0..SatMax : ApRefreshed([r EXCEPT !.beacon_count = x], r)
  BY DEF ApRecord, ApRefreshed
<1>5. \A x \in 0..SatMax : ApRefreshed([r EXCEPT !.probe_resp_count = x], r)
  BY DEF ApRecord, ApRefreshed
<1>6. \A x \in 0..SatMax : ApRefreshed([r EXCEPT !.data_up_count = x], r)
  BY DEF ApRecord, ApRefreshed
<1>7. \A x \in 0..SatMax : ApRefreshed([r EXCEPT !.data_down_count = x], r)
  BY DEF ApRecord, ApRefreshed
<1>8. \A x \in Channel \cup {0} : ApRefreshed([r EXCEPT !.channel = x], r)
  BY DEF ApRecord, ApRefreshed
<1>9. \A x \in Ssid \cup {NoSsid} : ApRefreshed([r EXCEPT !.ssid = x], r)
  BY DEF ApRecord, ApRefreshed
<1>10. \A x \in Security : ApRefreshed([r EXCEPT !.sec = x], r)
  BY DEF ApRecord, ApRefreshed
<1>11. QED
  BY <1>1, <1>2, <1>3, <1>4, <1>5, <1>6, <1>7, <1>8, <1>9, <1>10

LEMMA StaFields ==
    ASSUME NEW r \in StaRecord
    PROVE  /\ \A x \in Times : StaRefreshed([r EXCEPT !.last_observed = x], r)
           /\ \A x \in Address : StaRefreshed([r EXCEPT !.rssi = x], r)
           /\ \A x \in 0..SatMax :
                 /\ StaRefreshed([r EXCEPT !.tx_count = x], r)
                 /\ StaRefreshed([r EXCEPT !.probe_count = x], r)
                 /\ StaRefreshed([r EXCEPT !.dl_count = x], r)
<1>1. \A x \in Times : StaRefreshed([r EXCEPT !.last_observed = x], r)
  BY DEF StaRecord, StaRefreshed
<1>2. \A x \in Address : StaRefreshed([r EXCEPT !.rssi = x], r)
  BY DEF StaRecord, StaRefreshed
<1>3. \A x \in 0..SatMax : StaRefreshed([r EXCEPT !.tx_count = x], r)
  BY DEF StaRecord, StaRefreshed
<1>4. \A x \in 0..SatMax : StaRefreshed([r EXCEPT !.probe_count = x], r)
  BY DEF StaRecord, StaRefreshed
<1>5. \A x \in 0..SatMax : StaRefreshed([r EXCEPT !.dl_count = x], r)
  BY DEF StaRecord, StaRefreshed
<1>6. QED
  BY <1>1, <1>2, <1>3, <1>4, <1>5

LEMMA SatIncType == \A n \in 0..SatMax : SatInc(n) \in 0..SatMax
BY CounterAssumption DEF SatInc

LEMMA MergeSecurityType ==
    ASSUME NEW sec \in Security, NEW o \in Observation
    PROVE  MergeSecurity(sec, o) \in Security
<1> DEFINE rsn == MergeSuite(sec.rsn, o.rsn, o.complete)
           wpa == MergeSuite(sec.wpa, o.wpa, o.complete)
           state == CASE rsn # NoSuite \/ wpa # NoSuite -> "known"
                      [] OTHER ->
                           IF o.complete /\ o.rsn = Absent /\ o.wpa = Absent
                           THEN (IF o.privacy THEN "legacy_privacy" ELSE "open")
                           ELSE sec.state
<1>1. \A old \in Suite \cup {NoSuite} : \A seen, c :
          MergeSuite(old, seen, c) \in Suite \cup {NoSuite}
  BY DEF MergeSuite
<1>2. rsn \in Suite \cup {NoSuite} /\ wpa \in Suite \cup {NoSuite}
  BY <1>1 DEF Security
<1> HIDE DEF rsn, wpa
<1>3. state \in {"unknown", "known", "legacy_privacy", "open"}
  BY DEF Security
<1> HIDE DEF state
<1>4. o.privacy \in BOOLEAN
  BY DEF Observation
<1>5. [rsn |-> rsn, wpa |-> wpa, privacy |-> o.privacy, state |-> state] \in Security
  BY <1>2, <1>3, <1>4 DEF Security
<1>6. MergeSecurity(sec, o) \in
         {[rsn |-> rsn, wpa |-> wpa, privacy |-> o.privacy, state |-> state], sec}
  BY DEF MergeSecurity, rsn, wpa, state
<1>7. QED
  BY <1>5, <1>6


LEMMA ApRefreshedTrans ==
    ASSUME NEW p, NEW q, NEW r, ApRefreshed(p, q), ApRefreshed(q, r)
    PROVE  ApRefreshed(p, r)
BY DEF ApRefreshed

LEMMA ApSpokeRefreshes ==
    ASSUME NEW r \in ApRecord, NEW t \in Times, NEW rssi \in Address,
           NEW o \in Observation
    PROVE  ApRefreshed(ApSpoke(r, t, rssi, o), r)
<1> DEFINE beacons == IF o.beacon THEN SatInc(r.beacon_count) ELSE r.beacon_count
           probes  == IF o.beacon THEN r.probe_resp_count ELSE SatInc(r.probe_resp_count)
           channel == IF o.channel # 0 THEN o.channel ELSE r.channel
           ssid    == IF o.complete /\ o.ssid # NoSsid THEN o.ssid ELSE r.ssid
           sec     == MergeSecurity(r.sec, o)
           r1 == [r EXCEPT !.last_seen = t]
           r2 == [r1 EXCEPT !.rssi = rssi]
           r3 == [r2 EXCEPT !.provisional = FALSE]
           r4 == [r3 EXCEPT !.beacon_count = beacons]
           r5 == [r4 EXCEPT !.probe_resp_count = probes]
           r6 == [r5 EXCEPT !.channel = channel]
           r7 == [r6 EXCEPT !.ssid = ssid]
           r8 == [r7 EXCEPT !.sec = sec]
<1>1. /\ beacons \in 0..SatMax /\ probes \in 0..SatMax
      /\ channel \in Channel \cup {0} /\ ssid \in Ssid \cup {NoSsid}
      /\ sec \in Security
  BY SatIncType, MergeSecurityType DEF ApRecord, Observation
<1>2. ApSpoke(r, t, rssi, o) = r8
  <2> DEFINE flat == [r EXCEPT !.last_seen = t, !.rssi = rssi, !.provisional = FALSE,
                               !.beacon_count = beacons, !.probe_resp_count = probes,
                               !.channel = channel, !.ssid = ssid, !.sec = sec]
  <2>1. ApSpoke(r, t, rssi, o) = flat
    BY DEF ApSpoke, ApRecord
  <2>2. flat = r8
    OBVIOUS
  <2>3. QED
    BY <2>1, <2>2
<1> HIDE DEF beacons, probes, channel, ssid, sec
<1>3. ApRefreshed(r1, r)
  BY ApFields
<1> HIDE DEF r1
<1>4. ApRefreshed(r2, r1)
  BY <1>3, ApFields DEF ApRefreshed
<1> HIDE DEF r2
<1>5. ApRefreshed(r3, r2)
  BY <1>4, ApFields DEF ApRefreshed
<1> HIDE DEF r3
<1>6. ApRefreshed(r4, r3)
  BY <1>1, <1>5, ApFields DEF ApRefreshed
<1> HIDE DEF r4
<1>7. ApRefreshed(r5, r4)
  BY <1>1, <1>6, ApFields DEF ApRefreshed
<1> HIDE DEF r5
<1>8. ApRefreshed(r6, r5)
  BY <1>1, <1>7, ApFields DEF ApRefreshed
<1> HIDE DEF r6
<1>9. ApRefreshed(r7, r6)
  BY <1>1, <1>8, ApFields DEF ApRefreshed
<1> HIDE DEF r7
<1>10. ApRefreshed(r8, r7)
  BY <1>1, <1>9, ApFields DEF ApRefreshed
<1>11. QED
  BY <1>2, <1>3, <1>4, <1>5, <1>6, <1>7, <1>8, <1>9, <1>10 DEF ApRefreshed

LEMMA ApRelayedRefreshes ==
    ASSUME NEW r \in ApRecord, NEW t \in Times, NEW rssi \in Address
    PROVE  ApRefreshed(ApRelayed(r, t, rssi), r)
<1> DEFINE n  == SatInc(r.data_down_count)
           r1 == [r EXCEPT !.last_seen = t]
           r2 == [r1 EXCEPT !.rssi = rssi]
           r3 == [r2 EXCEPT !.data_down_count = n]
<1>1. n \in 0..SatMax
  BY SatIncType DEF ApRecord
<1>2. ApRelayed(r, t, rssi) = r3
  BY DEF ApRelayed, ApRecord
<1> HIDE DEF n
<1>3. ApRefreshed(r1, r)
  BY ApFields
<1> HIDE DEF r1
<1>4. ApRefreshed(r2, r1)
  BY <1>3, ApFields DEF ApRefreshed
<1> HIDE DEF r2
<1>5. ApRefreshed(r3, r2)
  BY <1>1, <1>4, ApFields DEF ApRefreshed
<1>6. QED
  BY <1>2, <1>3, <1>4, <1>5 DEF ApRefreshed

LEMMA StaSpokeRefreshes ==
    ASSUME NEW r \in StaRecord, NEW t \in Times, NEW rssi \in Address
    PROVE  /\ StaRefreshed(StaSpoke(r, t, rssi), r)
           /\ StaRefreshed(StaAddressed(r, t), r)
           /\ StaRefreshed(StaProbed(r), r)
<1> DEFINE n  == SatInc(r.tx_count)
           d  == SatInc(r.dl_count)
           p  == SatInc(r.probe_count)
           r1 == [r EXCEPT !.last_observed = t]
           r2 == [r1 EXCEPT !.rssi = rssi]
           r3 == [r2 EXCEPT !.tx_count = n]
           r4 == [r1 EXCEPT !.dl_count = d]
           r5 == [r EXCEPT !.probe_count = p]
<1>1. n \in 0..SatMax /\ d \in 0..SatMax /\ p \in 0..SatMax
  BY SatIncType DEF StaRecord
<1>2. StaSpoke(r, t, rssi) = r3
  BY DEF StaSpoke, StaRecord
<1>3. StaAddressed(r, t) = r4
  BY DEF StaAddressed, StaRecord
<1>a. StaProbed(r) = r5
  BY DEF StaProbed
<1> HIDE DEF n, d, p
<1>4. StaRefreshed(r1, r) /\ StaRefreshed(r5, r)
  BY <1>1, StaFields
<1> HIDE DEF r1, r5
<1>5. StaRefreshed(r2, r1) /\ StaRefreshed(r4, r1)
  BY ZenonT(30), <1>1, <1>4, StaFields DEF StaRefreshed
<1> HIDE DEF r2, r4
<1>6. StaRefreshed(r3, r2)
  BY <1>1, <1>5, StaFields DEF StaRefreshed
<1>7. QED
  BY <1>2, <1>3, <1>a, <1>4, <1>5, <1>6 DEF StaRefreshed

\* Storing a refreshed record keeps the world well formed.
LEMMA RefreshApGood ==
    ASSUME NEW w, Good(w), NEW i \in UsedAps(w), NEW r, ApRefreshed(r, w.ap[i])
    PROVE  LET v == [w EXCEPT !.ap[i] = r]
           IN Good(v) /\ SameAps(v, w) /\ SameStas(v, w)
<1>1. w.ap[i].used /\ r \in ApRecord
  BY DEF UsedAps, ApRefreshed
<1>2. r.used /\ r.bssid = w.ap[i].bssid /\ r.station_count = w.ap[i].station_count
  BY <1>1 DEF ApRefreshed
<1>3. QED
  BY <1>1, <1>2, DescribeApGood

LEMMA RefreshStaGood ==
    ASSUME NEW w, Good(w), NEW j \in UsedStas(w), NEW r, StaRefreshed(r, w.sta[j])
    PROVE  LET v == [w EXCEPT !.sta[j] = r]
           IN Good(v) /\ SameAps(v, w) /\ SameStas(v, w)
<1>1. w.sta[j].used /\ r \in StaRecord /\ j \in StaSlot
  BY DEF UsedStas, StaRefreshed
<1>2. r.used /\ r.mac = w.sta[j].mac /\ r.rel_ap = w.sta[j].rel_ap
  BY <1>1 DEF StaRefreshed
<1>3. r.rel_ap # 0 <=> r.rel_evidence # NONE
  BY <1>1 DEF StaRefreshed, Good, RelationsSound
<1>4. QED
  BY <1>1, <1>2, <1>3, DescribeStaGood

\* A used slot stays used, and keeps its address, in every value with the
\* same addresses.
LEMMA StillUsed ==
    ASSUME NEW v, NEW w
    PROVE  /\ SameAps(v, w) => UsedAps(v) = UsedAps(w)
           /\ SameStas(v, w) => UsedStas(v) = UsedStas(w)
BY DEF SameAps, SameStas, UsedAps, UsedStas

LEMMA StrengthenedType ==
    ASSUME NEW r \in StaRecord, NEW ev \in {DOWNLINK, UPLINK}, NEW t \in Times
    PROVE  LET q == Strengthened(r, ev, t)
           IN /\ q \in StaRecord /\ q.used = r.used /\ q.mac = r.mac
              /\ q.rel_ap = r.rel_ap /\ q.rel_evidence # NONE
<1> DEFINE e  == IF ev > r.rel_evidence THEN ev ELSE r.rel_evidence
           l  == IF t >= r.rel_last THEN t ELSE r.rel_last
           r1 == [r EXCEPT !.rel_evidence = e]
           r2 == [r1 EXCEPT !.rel_last = l]
<1>1. e \in {NONE, DOWNLINK, UPLINK} /\ e # NONE /\ l \in Times
  BY DEF StaRecord, NONE, DOWNLINK, UPLINK
<1>2. Strengthened(r, ev, t) = r2
  BY DEF Strengthened, StaRecord
<1> HIDE DEF e, l
<1>3. /\ r1 \in StaRecord /\ r1.used = r.used /\ r1.mac = r.mac
      /\ r1.rel_ap = r.rel_ap /\ r1.rel_evidence = e
  BY <1>1 DEF StaRecord
<1> HIDE DEF r1
<1>4. /\ r2 \in StaRecord /\ r2.used = r1.used /\ r2.mac = r1.mac
      /\ r2.rel_ap = r1.rel_ap /\ r2.rel_evidence = r1.rel_evidence
  BY <1>1, <1>3 DEF StaRecord
<1>5. QED
  BY <1>1, <1>2, <1>3, <1>4

\* Evidence is weighed: whatever the verdict, the relation it leaves joins
\* used slots and every counter follows.
LEMMA RelationEvidenceGood ==
    ASSUME NEW w, Good(w), NEW j \in UsedStas(w), NEW i \in UsedAps(w),
           NEW ev \in {DOWNLINK, UPLINK}, NEW t \in Times
    PROVE  Good(relation_evidence(w, j, i, ev, t))
<1> DEFINE r == w.sta[j]
           c == CountN(w, "rel_conflicts", 1)
           x == CountN(c, "rel_expired", 1)
           s == CountN(c, "rel_switched", 1)
<1>0. /\ j \in StaSlot /\ i \in ApSlot /\ i # 0 /\ r \in StaRecord /\ r.used
      /\ w \in WorldType
  BY DEF UsedStas, UsedAps, ApSlot, Good, WorldType
<1>1. Good(c) /\ SameTables(c, w)
  BY CountGood
<1> HIDE DEF c
<1>2. Good(x) /\ SameTables(x, w) /\ Good(s) /\ SameTables(s, w)
  BY <1>1, CountGood DEF SameTables
<1> HIDE DEF x, s
<1>3. ASSUME NEW v, Good(v), SameTables(v, w)
      PROVE  Good(sta_bind(sta_unbind(v, j), j, i, ev, t))
  <2> DEFINE u == UnbindAll(v, {j})
  <2>1. {j} \in SUBSET StaSlot
    BY <1>0
  <2>2. /\ Good(u) /\ SameAps(u, v) /\ SameStas(u, v) /\ u.sta[j].rel_ap = 0
    BY <1>3, <2>1, UnbindAllGood
  <2>3. j \in UsedStas(u) /\ i \in UsedAps(u)
    BY <1>3, <2>2, StillUsed DEF SameTables, UsedStas, UsedAps
  <2>4. sta_unbind(v, j) = u
    BY DEF sta_unbind
  <2> HIDE DEF u
  <2>5. QED
    BY <2>2, <2>3, <2>4, StaBindGood
<1>4. CASE r.rel_ap = i
  <2> DEFINE q == Strengthened(r, ev, t)
  <2>1. relation_evidence(w, j, i, ev, t) = [w EXCEPT !.sta[j] = q]
    BY <1>0, <1>4 DEF relation_evidence
  <2>2. /\ q \in StaRecord /\ q.used = r.used /\ q.mac = r.mac
        /\ q.rel_ap = r.rel_ap /\ q.rel_evidence # NONE
    BY <1>0, StrengthenedType
  <2> HIDE DEF q
  <2>3. q.used /\ (q.rel_ap # 0 <=> q.rel_evidence # NONE)
    BY <1>0, <1>4, <2>2
  <2>4. QED
    BY <2>1, <2>2, <2>3, DescribeStaGood
<1>5. CASE r.rel_ap = 0
  <2>1. relation_evidence(w, j, i, ev, t) = sta_bind(w, j, i, ev, t)
    BY <1>0, <1>5 DEF relation_evidence
  <2>2. QED
    BY <2>1, <1>5, StaBindGood
<1>6. CASE r.rel_ap \notin {0, i}
  <2>1. relation_evidence(w, j, i, ev, t) \in
           {sta_bind(sta_unbind(x, j), j, i, ev, t),
            sta_bind(sta_unbind(s, j), j, i, ev, t), c}
    <3>1. CASE rel_expired_at(r, t)
      BY <1>6, <3>1 DEF relation_evidence, Count, c, x
    <3>2. CASE ~rel_expired_at(r, t) /\ EvidenceWins(r, ev, t)
      BY <1>6, <3>2 DEF relation_evidence, Count, c, s
    <3>3. CASE ~rel_expired_at(r, t) /\ ~EvidenceWins(r, ev, t)
      BY <1>6, <3>3 DEF relation_evidence, Count, c
    <3>4. QED
      BY <3>1, <3>2, <3>3
  <2>2. QED
    BY <2>1, <1>1, <1>2, <1>3
<1>7. QED
  BY <1>4, <1>5, <1>6


-----------------------------------------------------------------------------
(* The handlers *)

LEMMA ApObservedGood ==
    ASSUME NEW w, Good(w), NEW b \in Mac, NEW t \in Times, NEW o \in Obs
    PROVE  Good(ap_observed(w, b, t, b, o))
<1> DEFINE a == ApFor(w, b, t, TRUE)
           q == ApSpoke(a.w.ap[a.slot], t, b, o)
<1>1. Good(a.w) /\ a.slot \in UsedAps(a.w)
  BY ApForGood
<1>2. a.w.ap[a.slot] \in ApRecord /\ b \in Address /\ o \in Observation
  BY <1>1, ObsAssumption DEF Good, WorldType, UsedAps, Address
<1>3. ap_observed(w, b, t, b, o) = [a.w EXCEPT !.ap[a.slot] = q]
  BY DEF ap_observed
<1> HIDE DEF a
<1>4. ApRefreshed(q, a.w.ap[a.slot])
  BY <1>2, ApSpokeRefreshes
<1> HIDE DEF q
<1>5. QED
  BY <1>1, <1>3, <1>4, RefreshApGood

LEMMA StaNotedGood ==
    ASSUME NEW w, Good(w), NEW m \in Mac, NEW t \in Times, NEW probe \in BOOLEAN
    PROVE  Good(sta_noted(w, m, t, m, probe))
<1> DEFINE st == StaFor(w, m, t, TRUE)
           heard == StaSpoke(st.w.sta[st.slot], t, m)
           q == IF probe THEN StaProbed(heard) ELSE heard
<1>1. Good(st.w) /\ st.slot \in UsedStas(st.w)
  BY StaForGood
<1>2. st.w.sta[st.slot] \in StaRecord /\ m \in Address
  BY <1>1 DEF Good, WorldType, UsedStas, Address
<1>3. sta_noted(w, m, t, m, probe) = [st.w EXCEPT !.sta[st.slot] = q]
  BY DEF sta_noted
<1> HIDE DEF st
<1>4. StaRefreshed(heard, st.w.sta[st.slot])
  BY <1>2, StaSpokeRefreshes
<1> HIDE DEF heard
<1>5. StaRefreshed(q, st.w.sta[st.slot])
  <2>1. StaRefreshed(StaProbed(heard), heard)
    BY <1>2, <1>4, StaSpokeRefreshes DEF StaRefreshed
  <2>2. QED
    BY <1>4, <2>1 DEF StaRefreshed
<1> HIDE DEF q
<1>6. QED
  BY <1>1, <1>3, <1>5, RefreshStaGood

\* The station of an uplink frame, its record refreshed.
LEMMA DataUplinkGood ==
    ASSUME NEW w, Good(w), NEW s \in Mac, NEW b \in Mac, NEW t \in Times
    PROVE  Good(data_uplink(w, s, b, t, s))
<1> DEFINE st == StaFor(w, s, t, TRUE)
           p == StaSpoke(st.w.sta[st.slot], t, s)
           heard == [st.w EXCEPT !.sta[st.slot] = p]
           a == ApFor(heard, b, t, FALSE)
           q == ApReached(a.w.ap[a.slot])
           v == [a.w EXCEPT !.ap[a.slot] = q]
<1>1. Good(st.w) /\ st.slot \in UsedStas(st.w)
  BY StaForGood
<1>2. data_uplink(w, s, b, t, s) =
         IF a.slot = 0 THEN a.w ELSE relation_evidence(v, st.slot, a.slot, UPLINK, t)
  BY DEF data_uplink
<1> HIDE DEF st
<1>3. StaRefreshed(p, st.w.sta[st.slot])
  BY <1>1, StaSpokeRefreshes DEF Good, WorldType, UsedStas, Address
<1> HIDE DEF p
<1>4. Good(heard) /\ SameStas(heard, st.w)
  BY <1>1, <1>3, RefreshStaGood
<1> HIDE DEF heard
<1>5. /\ Good(a.w) /\ SameStas(a.w, heard)
      /\ a.slot # 0 => a.slot \in UsedAps(a.w)
  BY <1>4, ApForGood
<1>6. st.slot \in UsedStas(a.w)
  BY <1>1, <1>4, <1>5, StillUsed
<1> HIDE DEF a
<1>7. ASSUME a.slot # 0
      PROVE  Good(relation_evidence(v, st.slot, a.slot, UPLINK, t))
  <2>1. a.w.ap[a.slot] \in ApRecord
    BY <1>5, <1>7 DEF Good, WorldType, UsedAps
  <2>2. SatInc(a.w.ap[a.slot].data_up_count) \in 0..SatMax
    BY <2>1, SatIncType DEF ApRecord
  <2>3. ApRefreshed(q, a.w.ap[a.slot])
    BY <2>1, <2>2, ApFields DEF ApReached
  <2> HIDE DEF q
  <2>4. Good(v) /\ SameAps(v, a.w) /\ SameStas(v, a.w)
    BY <1>5, <1>7, <2>3, RefreshApGood
  <2> HIDE DEF v
  <2>5. st.slot \in UsedStas(v) /\ a.slot \in UsedAps(v)
    BY <1>5, <1>6, <1>7, <2>4, StillUsed
  <2>6. QED
    BY <2>4, <2>5, RelationEvidenceGood
<1>8. QED
  BY <1>2, <1>5, <1>7

LEMMA DownlinkDestGood ==
    ASSUME NEW w, Good(w), NEW i \in UsedAps(w), NEW d \in Mac, NEW t \in Times
    PROVE  Good(downlink_dest(w, i, d, t))
<1> DEFINE st == StaFor(w, d, t, FALSE)
           q == StaAddressed(st.w.sta[st.slot], t)
           v == [st.w EXCEPT !.sta[st.slot] = q]
<1>1. /\ Good(st.w) /\ SameAps(st.w, w)
      /\ st.slot # 0 => st.slot \in UsedStas(st.w)
  BY StaForGood
<1>2. downlink_dest(w, i, d, t) =
         IF st.slot = 0 THEN st.w ELSE relation_evidence(v, st.slot, i, DOWNLINK, t)
  BY DEF downlink_dest
<1> HIDE DEF st
<1>3. ASSUME st.slot # 0
      PROVE  Good(relation_evidence(v, st.slot, i, DOWNLINK, t))
  <2>1. StaRefreshed(q, st.w.sta[st.slot])
    BY <1>1, <1>3, StaSpokeRefreshes, AddressAssumption
    DEF Good, WorldType, UsedStas, Address
  <2> HIDE DEF q
  <2>2. Good(v) /\ SameAps(v, st.w) /\ SameStas(v, st.w)
    BY <1>1, <1>3, <2>1, RefreshStaGood
  <2> HIDE DEF v
  <2>3. st.slot \in UsedStas(v) /\ i \in UsedAps(v)
    BY <1>1, <1>3, <2>2, StillUsed
  <2>4. QED
    BY <2>2, <2>3, RelationEvidenceGood
<1>4. QED
  BY <1>1, <1>2, <1>3

LEMMA DataDownlinkGood ==
    ASSUME NEW w, Good(w), NEW b \in Mac, NEW d, NEW t \in Times
    PROVE  Good(data_downlink(w, b, d, t, b))
<1> DEFINE a == ApFor(w, b, t, FALSE)
           q == ApRelayed(a.w.ap[a.slot], t, b)
           heard == [a.w EXCEPT !.ap[a.slot] = q]
<1>1. Good(a.w) /\ (a.slot # 0 => a.slot \in UsedAps(a.w))
  BY ApForGood
<1>2. data_downlink(w, b, d, t, b) =
         IF a.slot = 0 THEN a.w
         ELSE IF d \notin Mac \/ d = b \/ StaIsNewer(heard, d, t) THEN heard
         ELSE downlink_dest(heard, a.slot, d, t)
  BY DEF data_downlink
<1> HIDE DEF a
<1>3. ASSUME a.slot # 0
      PROVE  Good(heard) /\ a.slot \in UsedAps(heard)
  <2>1. ApRefreshed(q, a.w.ap[a.slot])
    BY <1>1, <1>3, ApRelayedRefreshes DEF Good, WorldType, UsedAps, Address
  <2> HIDE DEF q
  <2>2. Good(heard) /\ SameAps(heard, a.w)
    BY <1>1, <1>3, <2>1, RefreshApGood
  <2>3. QED
    BY <1>1, <1>3, <2>2, StillUsed
<1> HIDE DEF heard
<1>4. QED
  BY <1>1, <1>2, <1>3, DownlinkDestGood

LEMMA MaintainedGood ==
    ASSUME NEW w, Good(w), NEW t \in Times
    PROVE  Good(maintained(w, t))
<1>1. Good(sweep_expired_aps(w, t))
  BY SweepApsGood
<1>2. Good(sweep_expired_rels(sweep_expired_aps(w, t), t))
  BY <1>1, SweepRelsGood
<1>3. Good(sweep_expired_stas(sweep_expired_rels(sweep_expired_aps(w, t), t), t))
  BY <1>2, SweepStasGood
<1>4. QED
  BY <1>3, CountGood DEF maintained, Count

LEMMA WorldInitGood == Good(world_init)
<1> DEFINE w == world_init
<1>1. w \in WorldType
  BY ZeroRecords, CounterAssumption DEF world_init, WorldType
<1>2. /\ UsedAps(w) = {} /\ UsedStas(w) = {} /\ Bound(w, StaSlot) = {}
      /\ \A i \in ApSlot : BoundTo(w, StaSlot, i) = {}
  BY DEF world_init, ZeroAp, ZeroSta, UsedAps, UsedStas, Bound, BoundTo, ApSlot
<1>3. CountersExact(w)
  <2>1. Cardinality({}) = 0
    BY FS_EmptySet
  <2>2. /\ w.ap_used = 0 /\ w.sta_used = 0 /\ w.rel_used = 0
        /\ \A i \in ApSlot : w.ap[i].station_count = 0
    BY DEF world_init, ZeroAp
  <2>3. QED
    BY <1>2, <2>1, <2>2 DEF CountersExact
<1>4. RelationsSound(w)
  BY DEF world_init, ZeroSta, RelationsSound
<1>5. KeysUnique(w)
  BY <1>2 DEF KeysUnique
<1>6. QED
  BY <1>1, <1>3, <1>4, <1>5 DEF Good

-----------------------------------------------------------------------------
(* The specification *)

\* The inductive invariant: each conjunct of Good needs the others (the
\* counters are exact because relations join used slots, and lookups find
\* the only record of an address because addresses are unique).
IInv == Good(world) /\ now \in Times

LEMMA InitIInv == Init => IInv
BY WorldInitGood, TimeAssumption DEF Init, IInv, Times

LEMMA NextIInv == IInv /\ [Next]_vars => IInv'
<1> SUFFICES ASSUME IInv, [Next]_vars
             PROVE  IInv'
  OBVIOUS
<1>0. Good(world) /\ now \in Times
  BY DEF IInv
<1>a. \A c : Good(Count(world, c))
  BY <1>0, CountGood DEF Count
<1>1. CASE Clock
  BY <1>0, <1>1 DEF Clock, IInv
<1>2. ASSUME NEW b \in Address, NEW o \in Obs, world_on_ap_observation(b, o)
      PROVE  IInv'
  <2>1. CASE b \notin Mac /\ world' = Count(world, "obs_invalid")
    BY <1>0, <1>2, <1>a, <2>1 DEF world_on_ap_observation, IInv
  <2>2. CASE world' = Count(world, "obs_stale")
    BY <1>0, <1>2, <1>a, <2>2 DEF world_on_ap_observation, IInv
  <2>3. CASE b \in Mac /\ world' = ap_observed(world, b, now, b, o)
    BY <1>0, <1>2, <2>3, ApObservedGood DEF world_on_ap_observation, IInv
  <2>4. QED
    BY <1>2, <2>1, <2>2, <2>3 DEF world_on_ap_observation
<1>3. ASSUME NEW s \in Address, NEW b \in Address, world_on_uplink(s, b)
      PROVE  IInv'
  <2>1. CASE world' = Count(world, "obs_invalid")
    BY <1>0, <1>3, <1>a, <2>1 DEF world_on_uplink, IInv
  <2>2. CASE world' = Count(world, "obs_stale")
    BY <1>0, <1>3, <1>a, <2>2 DEF world_on_uplink, IInv
  <2>3. CASE s \in Mac /\ b \in Mac /\ world' = data_uplink(world, s, b, now, s)
    BY <1>0, <1>3, <2>3, DataUplinkGood DEF world_on_uplink, IInv
  <2>4. QED
    BY <1>3, <2>1, <2>2, <2>3 DEF world_on_uplink
<1>4. ASSUME NEW b \in Address, NEW d \in Address, world_on_downlink(b, d)
      PROVE  IInv'
  <2>1. CASE world' = Count(world, "obs_invalid")
    BY <1>0, <1>4, <1>a, <2>1 DEF world_on_downlink, IInv
  <2>2. CASE world' = Count(world, "obs_stale")
    BY <1>0, <1>4, <1>a, <2>2 DEF world_on_downlink, IInv
  <2>3. CASE b \in Mac /\ world' = data_downlink(world, b, d, now, b)
    BY <1>0, <1>4, <2>3, DataDownlinkGood DEF world_on_downlink, IInv
  <2>4. QED
    BY <1>4, <2>1, <2>2, <2>3 DEF world_on_downlink
<1>5. ASSUME NEW kind, world_on_unusable_data(kind)
      PROVE  IInv'
  BY <1>0, <1>5, <1>a DEF world_on_unusable_data, IInv
<1>6. ASSUME NEW m \in Address, NEW probe \in BOOLEAN, world_on_sta_tx(m, probe)
      PROVE  IInv'
  <2>1. CASE world' = Count(world, "obs_invalid")
    BY <1>0, <1>6, <1>a, <2>1 DEF world_on_sta_tx, IInv
  <2>2. CASE world' = Count(world, "obs_stale")
    BY <1>0, <1>6, <1>a, <2>2 DEF world_on_sta_tx, IInv
  <2>3. CASE m \in Mac /\ world' = sta_noted(world, m, now, m, probe)
    BY <1>0, <1>6, <2>3, StaNotedGood DEF world_on_sta_tx, IInv
  <2>4. QED
    BY <1>6, <2>1, <2>2, <2>3 DEF world_on_sta_tx
<1>7. CASE world_maintenance
  BY <1>0, <1>7, MaintainedGood DEF world_maintenance, IInv
<1>8. CASE UNCHANGED vars
  BY <1>0, <1>8 DEF vars, IInv
<1>9. QED
  BY <1>1, <1>2, <1>3, <1>4, <1>5, <1>6, <1>7, <1>8 DEF Next

LEMMA SpecIInv == Spec => []IInv
BY InitIInv, NextIInv, PTL DEF Spec

\* Every field of every record keeps its range through every handler, and the
\* unsigned table counters never go below zero.
THEOREM TypeCorrect == Spec => []TypeOK
<1>1. IInv => TypeOK
  BY DEF IInv, Good, TypeOK
<1>2. QED
  BY SpecIInv, <1>1, PTL

\* What world_check_invariants tests holds in every reachable state: the
\* incremental counters equal a recount, and every relation joins two used
\* slots, whatever is observed, evicted or expired in whatever order.
THEOREM WorldAlwaysConsistent == Spec => []WorldConsistent
<1>1. IInv => WorldConsistent
  BY DEF IInv, Good, WorldConsistent
<1>2. QED
  BY SpecIInv, <1>1, PTL

\* No address is ever stored in two used slots of a table.
THEOREM KeysStayUnique == Spec => []UniqueKeys
<1>1. IInv => UniqueKeys
  BY DEF IInv, Good, UniqueKeys
<1>2. QED
  BY SpecIInv, <1>1, PTL

-----------------------------------------------------------------------------
(* What the bookkeeping leaves alone *)

\* Two AP records that say the same of their AP, and two station records
\* that say the same of their station, apart from its relation.
SameApText(q, r) ==
    /\ q.bssid = r.bssid /\ q.last_seen = r.last_seen
    /\ q.provisional = r.provisional /\ q.rssi = r.rssi /\ q.ssid = r.ssid
    /\ q.channel = r.channel /\ q.sec = r.sec
    /\ q.beacon_count = r.beacon_count /\ q.probe_resp_count = r.probe_resp_count

SameStaText(q, r) ==
    /\ q.mac = r.mac /\ q.last_observed = r.last_observed /\ q.rssi = r.rssi
    /\ q.rel_last = r.rel_last

\* v is w without the APs of A, without the stations of S, and with the
\* relations of the stations of B undone.
Leaves(v, w, A, S, B) ==
    /\ \A i \in ApSlot : /\ v.ap[i].used = (w.ap[i].used /\ i \notin A)
                         /\ SameApText(v.ap[i], w.ap[i])
    /\ \A j \in StaSlot :
          /\ v.sta[j].used = (w.sta[j].used /\ j \notin S)
          /\ SameStaText(v.sta[j], w.sta[j])
          /\ v.sta[j].rel_ap = IF j \in B THEN 0 ELSE w.sta[j].rel_ap
          /\ v.sta[j].rel_evidence = IF j \in B THEN NONE ELSE w.sta[j].rel_evidence

\* The stations whose relation is with an AP of A.
Orphans(w, A) == {j \in StaSlot : w.sta[j].rel_ap \in A}

LEMMA ApTextFields ==
    ASSUME NEW r \in ApRecord
    PROVE  /\ SameApText([r EXCEPT !.used = FALSE, !.station_count = 0], r)
           /\ \A n : /\ SameApText([r EXCEPT !.station_count = n], r)
                     /\ [r EXCEPT !.station_count = n].used = r.used
BY DEF ApRecord, SameApText

LEMMA StaTextFields ==
    ASSUME NEW r \in StaRecord
    PROVE  LET c == [r EXCEPT !.rel_ap = 0, !.rel_evidence = NONE]
               d == [r EXCEPT !.used = FALSE]
           IN /\ SameStaText(c, r) /\ c.used = r.used
              /\ c.rel_ap = 0 /\ c.rel_evidence = NONE
              /\ SameStaText(d, r) /\ d.used = FALSE
              /\ d.rel_ap = r.rel_ap /\ d.rel_evidence = r.rel_evidence
BY DEF StaRecord, SameStaText

LEMMA SameTablesLeave ==
    ASSUME NEW v, NEW w \in WorldType, SameTables(v, w)
    PROVE  Leaves(v, w, {}, {}, {})
<1>1. /\ \A i \in ApSlot : w.ap[i].used \in BOOLEAN
      /\ \A j \in StaSlot : w.sta[j].used \in BOOLEAN
  BY DEF WorldType, ApRecord, StaRecord
<1>2. QED
  BY <1>1 DEF SameTables, Leaves, SameApText, SameStaText

LEMMA UnbindAllLeaves ==
    ASSUME NEW w \in WorldType, NEW S \in SUBSET StaSlot
    PROVE  Leaves(UnbindAll(w, S), w, {}, {}, S)
<1> DEFINE v == UnbindAll(w, S)
           count(i) == IF w.ap[i].used
                       THEN LowerClamped(w.ap[i].station_count, Cardinality(BoundTo(w, S, i)))
                       ELSE w.ap[i].station_count
<1>1. ASSUME NEW i \in ApSlot
      PROVE  v.ap[i].used = w.ap[i].used /\ SameApText(v.ap[i], w.ap[i])
             /\ w.ap[i].used \in BOOLEAN
  <2>1. w.ap[i] \in ApRecord /\ w.ap[i].used \in BOOLEAN
    BY DEF WorldType, ApRecord
  <2>2. v.ap[i] = [w.ap[i] EXCEPT !.station_count = count(i)]
    BY DEF UnbindAll, WorldType
  <2> HIDE DEF count, v
  <2>3. QED
    BY <2>1, <2>2, ApTextFields
<1>2. ASSUME NEW j \in StaSlot
      PROVE  /\ v.sta[j].used = w.sta[j].used /\ SameStaText(v.sta[j], w.sta[j])
             /\ v.sta[j].rel_ap = IF j \in S THEN 0 ELSE w.sta[j].rel_ap
             /\ v.sta[j].rel_evidence = IF j \in S THEN NONE ELSE w.sta[j].rel_evidence
             /\ w.sta[j].used \in BOOLEAN
  <2>1. w.sta[j] \in StaRecord /\ w.sta[j].used \in BOOLEAN
    BY DEF WorldType, StaRecord
  <2>2. v.sta[j] = IF j \in S THEN [w.sta[j] EXCEPT !.rel_ap = 0, !.rel_evidence = NONE]
                   ELSE w.sta[j]
    BY DEF UnbindAll, WorldType
  <2> HIDE DEF v
  <2>3. CASE j \in S
    BY <2>1, <2>2, <2>3, StaTextFields
  <2>4. CASE j \notin S
    BY <2>1, <2>2, <2>4 DEF SameStaText
  <2>5. QED
    BY <2>3, <2>4
<1> HIDE DEF v
<1>3. QED
  BY <1>1, <1>2 DEF Leaves, v

LEMMA RemoveApsLeaves ==
    ASSUME NEW w, Good(w), NEW R \in SUBSET UsedAps(w)
    PROVE  Leaves(RemoveAps(w, R), w, R, {}, Orphans(w, R))
<1> DEFINE v == RemoveAps(w, R)
           O == {j \in StaSlot : w.sta[j].used /\ w.sta[j].rel_ap \in R}
<1>0. w \in WorldType /\ O = Orphans(w, R)
  <2>1. R \subseteq ApSlot /\ 0 \notin R
    BY DEF UsedAps, ApSlot
  <2>2. QED
    BY <2>1 DEF Good, RelationsSound, Orphans
<1>1. ASSUME NEW i \in ApSlot
      PROVE  /\ v.ap[i].used = (w.ap[i].used /\ i \notin R)
             /\ SameApText(v.ap[i], w.ap[i])
  <2>1. w.ap[i] \in ApRecord /\ w.ap[i].used \in BOOLEAN
    BY <1>0 DEF WorldType, ApRecord
  <2>2. v.ap[i] = IF i \in R THEN [w.ap[i] EXCEPT !.used = FALSE, !.station_count = 0]
                  ELSE w.ap[i]
    BY <1>0 DEF RemoveAps, WorldType
  <2> HIDE DEF v
  <2>3. CASE i \in R
    <3>1. ~v.ap[i].used /\ v.ap[i] \in ApRecord
      BY <2>1, <2>2, <2>3, FreedAp
    <3>2. v.ap[i].used = FALSE
      BY <3>1 DEF ApRecord
    <3>3. QED
      BY <2>1, <2>2, <2>3, <3>2, ApTextFields
  <2>4. CASE i \notin R
    BY <2>1, <2>2, <2>4 DEF SameApText
  <2>5. QED
    BY <2>3, <2>4
<1>2. ASSUME NEW j \in StaSlot
      PROVE  /\ v.sta[j].used = (w.sta[j].used /\ j \notin {})
             /\ SameStaText(v.sta[j], w.sta[j])
             /\ v.sta[j].rel_ap = IF j \in O THEN 0 ELSE w.sta[j].rel_ap
             /\ v.sta[j].rel_evidence = IF j \in O THEN NONE ELSE w.sta[j].rel_evidence
  <2>1. w.sta[j] \in StaRecord /\ w.sta[j].used \in BOOLEAN
    BY <1>0 DEF WorldType, StaRecord
  <2>2. v.sta[j] = IF j \in O THEN [w.sta[j] EXCEPT !.rel_ap = 0, !.rel_evidence = NONE]
                   ELSE w.sta[j]
    BY <1>0 DEF RemoveAps, WorldType
  <2> HIDE DEF v, O
  <2>3. CASE j \in O
    BY <2>1, <2>2, <2>3, StaTextFields
  <2>4. CASE j \notin O
    BY <2>1, <2>2, <2>4 DEF SameStaText
  <2>5. QED
    BY <2>3, <2>4
<1> HIDE DEF v, O
<1>3. QED
  BY <1>0, <1>1, <1>2 DEF Leaves, v

LEMMA RemoveStasLeaves ==
    ASSUME NEW w, Good(w), NEW R \in SUBSET UsedStas(w)
    PROVE  Leaves(RemoveStas(w, R), w, {}, R, R)
<1> DEFINE v == RemoveStas(w, R)
           u == UnbindAll(w, R)
<1>0. w \in WorldType /\ R \in SUBSET StaSlot
  BY DEF Good, UsedStas
<1>1. Leaves(u, w, {}, {}, R) /\ u \in WorldType
  BY <1>0, UnbindAllLeaves, UnbindAllGood DEF Good
<1>2. /\ \A j \in StaSlot : v.sta[j] = IF j \in R THEN [u.sta[j] EXCEPT !.used = FALSE]
                                       ELSE u.sta[j]
      /\ v.ap = u.ap
  <2> HIDE DEF u
  <2>1. v = [u EXCEPT !.sta = [j \in StaSlot |->
                        IF j \in R THEN [u.sta[j] EXCEPT !.used = FALSE] ELSE u.sta[j]],
                      !.sta_used = u.sta_used - Cardinality(R)]
    BY DEF RemoveStas, u
  <2> HIDE DEF v
  <2>2. QED
    BY <1>1, <2>1 DEF WorldType
<1> HIDE DEF u, v
<1>3. ASSUME NEW j \in StaSlot
      PROVE  /\ v.sta[j].used = (w.sta[j].used /\ j \notin R)
             /\ SameStaText(v.sta[j], u.sta[j])
             /\ v.sta[j].rel_ap = u.sta[j].rel_ap
             /\ v.sta[j].rel_evidence = u.sta[j].rel_evidence
  <2>1. /\ u.sta[j] \in StaRecord /\ w.sta[j].used \in BOOLEAN
        /\ u.sta[j].used = w.sta[j].used
    BY <1>0, <1>1 DEF WorldType, StaRecord, Leaves
  <2>2. CASE j \in R
    <3>1. v.sta[j] = [u.sta[j] EXCEPT !.used = FALSE]
      BY <1>2, <2>2
    <3>2. v.sta[j].used = FALSE
      BY <2>1, <3>1, StaTextFields
    <3>3. QED
      BY <2>1, <2>2, <3>1, <3>2, StaTextFields
  <2>3. CASE j \notin R
    BY <1>2, <2>1, <2>3 DEF SameStaText
  <2>4. QED
    BY <2>2, <2>3
<1>4. QED
  BY <1>1, <1>2, <1>3 DEF Leaves, SameStaText, SameApText, v

-----------------------------------------------------------------------------
(* Who leaves to make room *)

\* The sets of slots that may be emptied so that a newcomer fits: nobody while
\* a slot is free; otherwise all the expired ones; and if there are none, a
\* strong newcomer pushes out one of the oldest.
OldestAps(w) ==
    {i \in ApSlot : \A k \in ApSlot : w.ap[i].last_seen <= w.ap[k].last_seen}
OldestStas(w) ==
    {j \in StaSlot : \A k \in StaSlot : w.sta[j].last_observed <= w.sta[k].last_observed}

ApsToLeave(w, t, strong) ==
    IF FreeAps(w) # {} THEN {{}}
    ELSE IF ExpiredAps(w, t) # {} THEN {ExpiredAps(w, t)}
    ELSE IF strong THEN {{i} : i \in OldestAps(w)}
    ELSE {}

StasToLeave(w, t, strong) ==
    IF FreeStas(w) # {} THEN {{}}
    ELSE IF ExpiredStas(w, t) # {} THEN {ExpiredStas(w, t)}
    ELSE IF strong THEN {{j} : j \in OldestStas(w)}
    ELSE {}

LEMMA SweepApsLeaves ==
    ASSUME NEW w, Good(w), NEW t \in Times
    PROVE  Leaves(sweep_expired_aps(w, t), w, ExpiredAps(w, t), {},
                  Orphans(w, ExpiredAps(w, t)))
<1> DEFINE E == ExpiredAps(w, t)
           u == RemoveAps(w, E)
           v == CountN(u, "ap_expired", Cardinality(E))
<1>1. E \in SUBSET UsedAps(w) /\ Cardinality(E) \in Nat
  BY FiniteTables DEF ExpiredAps, UsedAps
<1> HIDE DEF E
<1>2. Leaves(u, w, E, {}, Orphans(w, E)) /\ Good(u)
  BY <1>1, RemoveApsLeaves, RemoveApsGood
<1> HIDE DEF u
<1>3. SameTables(v, u)
  BY <1>1, <1>2, CountGood
<1>4. v = sweep_expired_aps(w, t)
  BY DEF sweep_expired_aps, E, u
<1> HIDE DEF v
<1>5. QED
  BY <1>2, <1>3, <1>4 DEF Leaves, SameTables, E

LEMMA SweepStasLeaves ==
    ASSUME NEW w, Good(w), NEW t \in Times
    PROVE  Leaves(sweep_expired_stas(w, t), w, {}, ExpiredStas(w, t), ExpiredStas(w, t))
<1> DEFINE E == ExpiredStas(w, t)
           u == RemoveStas(w, E)
           v == CountN(u, "sta_expired", Cardinality(E))
<1>1. E \in SUBSET UsedStas(w) /\ Cardinality(E) \in Nat
  BY FiniteTables DEF ExpiredStas, UsedStas
<1> HIDE DEF E
<1>2. Leaves(u, w, {}, E, E) /\ Good(u)
  BY <1>1, RemoveStasLeaves, RemoveStasGood
<1> HIDE DEF u
<1>3. SameTables(v, u)
  BY <1>1, <1>2, CountGood
<1>4. v = sweep_expired_stas(w, t)
  BY DEF sweep_expired_stas, E, u
<1> HIDE DEF v
<1>5. QED
  BY <1>2, <1>3, <1>4 DEF Leaves, SameTables, E

LEMMA SweepRelsLeaves ==
    ASSUME NEW w, Good(w), NEW t \in Times
    PROVE  Leaves(sweep_expired_rels(w, t), w, {}, {}, ExpiredRels(w, t))
<1> DEFINE E == ExpiredRels(w, t)
           u == UnbindAll(w, E)
           v == CountN(u, "rel_expired", Cardinality(E))
<1>1. E \in SUBSET StaSlot /\ Cardinality(E) \in Nat
  BY FiniteTables DEF ExpiredRels
<1> HIDE DEF E
<1>2. Leaves(u, w, {}, {}, E) /\ Good(u)
  BY <1>1, UnbindAllLeaves, UnbindAllGood DEF Good
<1> HIDE DEF u
<1>3. SameTables(v, u)
  BY <1>1, <1>2, CountGood
<1>4. v = sweep_expired_rels(w, t)
  BY DEF sweep_expired_rels, E, u
<1> HIDE DEF v
<1>5. QED
  BY <1>2, <1>3, <1>4 DEF Leaves, SameTables, E

LEMMA LeavesAfterNothing ==
    ASSUME NEW u, NEW v, NEW w \in WorldType, NEW A, NEW S, NEW B,
           Leaves(v, w, {}, {}, {}), Leaves(u, v, A, S, B)
    PROVE  Leaves(u, w, A, S, B)
<1>1. \A i \in ApSlot : v.ap[i].used = w.ap[i].used /\ SameApText(v.ap[i], w.ap[i])
  BY DEF Leaves, WorldType, ApRecord
<1>2. \A j \in StaSlot : /\ v.sta[j].used = w.sta[j].used
                         /\ SameStaText(v.sta[j], w.sta[j])
                         /\ v.sta[j].rel_ap = w.sta[j].rel_ap
                         /\ v.sta[j].rel_evidence = w.sta[j].rel_evidence
  BY DEF Leaves, WorldType, StaRecord
<1>3. \A i \in ApSlot : /\ u.ap[i].used = (w.ap[i].used /\ i \notin A)
                        /\ SameApText(u.ap[i], w.ap[i])
  BY <1>1 DEF Leaves, SameApText
<1>4. \A j \in StaSlot :
          /\ u.sta[j].used = (w.sta[j].used /\ j \notin S)
          /\ SameStaText(u.sta[j], w.sta[j])
          /\ u.sta[j].rel_ap = IF j \in B THEN 0 ELSE w.sta[j].rel_ap
          /\ u.sta[j].rel_evidence = IF j \in B THEN NONE ELSE w.sta[j].rel_evidence
  BY <1>2 DEF Leaves, SameStaText
<1>5. QED
  BY <1>3, <1>4 DEF Leaves

\* The victim of an eviction is one of the oldest.
LEMMA VictimIsOldest ==
    ASSUME NEW w \in WorldType
    PROVE  OldestAp(w) \in OldestAps(w) /\ OldestSta(w) \in OldestStas(w)
<1>1. ApSlot # {} /\ StaSlot # {} /\ ApSlot \subseteq Nat /\ StaSlot \subseteq Nat
  BY TableAssumption DEF ApSlot, StaSlot
<1>2. OldestAps(w) # {}
  <2> DEFINE V == {w.ap[i].last_seen : i \in ApSlot}
  <2>1. \A i \in ApSlot : w.ap[i].last_seen \in Nat
    BY DEF WorldType, ApRecord, Times
  <2>2. V \in SUBSET Nat /\ V # {}
    BY <1>1, <2>1
  <2>3. Min(V) \in V /\ \A y \in V : Min(V) <= y
    <3> HIDE DEF V
    <3>1. QED
      BY <2>2, MinOfNats
  <2>4. PICK i \in ApSlot : \A k \in ApSlot : w.ap[i].last_seen <= w.ap[k].last_seen
    BY <2>3
  <2>5. QED
    BY <2>4 DEF OldestAps
<1>3. OldestStas(w) # {}
  <2> DEFINE V == {w.sta[j].last_observed : j \in StaSlot}
  <2>1. \A j \in StaSlot : w.sta[j].last_observed \in Nat
    BY DEF WorldType, StaRecord, Times
  <2>2. V \in SUBSET Nat /\ V # {}
    BY <1>1, <2>1
  <2>3. Min(V) \in V /\ \A y \in V : Min(V) <= y
    <3> HIDE DEF V
    <3>1. QED
      BY <2>2, MinOfNats
  <2>4. PICK j \in StaSlot :
            \A k \in StaSlot : w.sta[j].last_observed <= w.sta[k].last_observed
    BY <2>3
  <2>5. QED
    BY <2>4 DEF OldestStas
<1>4. OldestAps(w) \subseteq Nat /\ OldestStas(w) \subseteq Nat
  BY <1>1 DEF OldestAps, OldestStas
<1>5. OldestAp(w) = Min(OldestAps(w)) /\ OldestSta(w) = Min(OldestStas(w))
  BY DEF OldestAp, OldestSta, OldestAps, OldestStas
<1>6. QED
  BY <1>2, <1>3, <1>4, <1>5, MinOfNats

LEMMA AllocApLeaves ==
    ASSUME NEW w, Good(w), NEW t \in Times, NEW strong \in BOOLEAN
    PROVE  LET a == alloc_ap(w, t, strong)
           IN IF ApsToLeave(w, t, strong) = {}
              THEN a.slot = 0 /\ Leaves(a.w, w, {}, {}, {})
              ELSE /\ a.slot # 0
                   /\ \E A \in ApsToLeave(w, t, strong) :
                         /\ A \subseteq UsedAps(w)
                         /\ Leaves(a.w, w, A, {}, Orphans(w, A))
<1> DEFINE swept == IF FreeAps(w) # {} THEN w ELSE sweep_expired_aps(w, t)
           victim == OldestAp(swept)
           out == ap_remove(swept, victim)
           E == ExpiredAps(w, t)
           a == alloc_ap(w, t, strong)
<1> SUFFICES IF ApsToLeave(w, t, strong) = {}
             THEN a.slot = 0 /\ Leaves(a.w, w, {}, {}, {})
             ELSE /\ a.slot # 0
                  /\ \E A \in ApsToLeave(w, t, strong) :
                        /\ A \subseteq UsedAps(w)
                        /\ Leaves(a.w, w, A, {}, Orphans(w, A))
  OBVIOUS
<1>0. w \in WorldType /\ E \subseteq UsedAps(w) /\ 0 \notin ApSlot
  BY DEF Good, ExpiredAps, UsedAps, ApSlot
<1>1. CASE FreeAps(w) # {}
  <2>1. alloc_ap(w, t, strong) = [w |-> w, slot |-> Min(FreeAps(w))]
    BY <1>1 DEF alloc_ap
  <2>2. FreeAps(w) \in SUBSET Nat /\ 0 \notin FreeAps(w)
    BY DEF FreeAps, ApSlot
  <2>3. Min(FreeAps(w)) # 0
    BY <1>1, <2>2, MinOfNats
  <2>4. Leaves(w, w, {}, {}, {}) /\ Orphans(w, {}) = {}
    BY <1>0, SameTablesLeave DEF SameTables, Orphans
  <2>5. ApsToLeave(w, t, strong) = {{}}
    BY <1>1 DEF ApsToLeave
  <2>6. a.w = w /\ a.slot # 0
    BY <2>1, <2>3
  <2> HIDE DEF a
  <2>7. QED
    BY <2>4, <2>5, <2>6
<1>2. CASE FreeAps(w) = {}
  <2>1. /\ swept = sweep_expired_aps(w, t) /\ Good(swept)
        /\ Leaves(swept, w, E, {}, Orphans(w, E))
    BY <1>2, SweepApsLeaves, SweepApsGood
  <2>2. FreeAps(swept) = E
    BY <1>0, <1>2, <2>1 DEF Leaves, FreeAps, UsedAps
  <2>a. /\ FreeAps(swept) # {} => alloc_ap(w, t, strong)
                                    = [w |-> swept, slot |-> Min(FreeAps(swept))]
        /\ (FreeAps(swept) = {} /\ ~strong) =>
              alloc_ap(w, t, strong) = [w |-> CountN(swept, "ap_rejected", 1), slot |-> 0]
        /\ (FreeAps(swept) = {} /\ strong) =>
              alloc_ap(w, t, strong) = [w |-> CountN(out, "ap_evicted", 1), slot |-> victim]
    BY DEF alloc_ap, Count
  <2> HIDE DEF swept, E
  <2>3. CASE E # {}
    <3>1. alloc_ap(w, t, strong) = [w |-> swept, slot |-> Min(E)]
      BY <2>2, <2>3, <2>a
    <3>2. E \in SUBSET Nat /\ 0 \notin E
      BY <1>0 DEF ApSlot, UsedAps
    <3>3. Min(E) # 0
      BY <2>3, <3>2, MinOfNats
    <3>4. ApsToLeave(w, t, strong) = {E}
      BY <1>2, <2>3 DEF ApsToLeave, E
    <3>5. a.w = swept /\ a.slot # 0
      BY <3>1, <3>3
    <3> HIDE DEF a
    <3>6. QED
      BY <1>0, <2>1, <3>4, <3>5
  <2>4. CASE E = {}
    <3>1. Leaves(swept, w, {}, {}, {})
      BY <2>1, <2>4 DEF Orphans
    <3>2. CASE ~strong
      <4>1. alloc_ap(w, t, strong) = [w |-> CountN(swept, "ap_rejected", 1), slot |-> 0]
        BY <2>2, <2>4, <2>a, <3>2
      <4>2. ApsToLeave(w, t, strong) = {}
        BY <1>2, <2>4, <3>2 DEF ApsToLeave, E
      <4>3. SameTables(CountN(swept, "ap_rejected", 1), swept)
        BY <2>1, CountGood
      <4>4. Leaves(CountN(swept, "ap_rejected", 1), w, {}, {}, {})
        BY <3>1, <4>3 DEF Leaves, SameTables
      <4>5. a.w = CountN(swept, "ap_rejected", 1) /\ a.slot = 0
        BY <4>1
      <4> HIDE DEF a
      <4>6. QED
        BY <4>2, <4>4, <4>5
    <3>3. CASE strong
      <4>1. alloc_ap(w, t, strong) = [w |-> CountN(out, "ap_evicted", 1), slot |-> victim]
        BY <2>2, <2>4, <2>a, <3>3
      <4>2. ApsToLeave(w, t, strong) = {{i} : i \in OldestAps(w)}
        BY <1>2, <2>4, <3>3 DEF ApsToLeave, E
      <4>3. OldestAps(swept) = OldestAps(w)
        BY <3>1 DEF OldestAps, Leaves, SameApText
      <4>4. victim \in OldestAps(w)
        BY <2>1, <4>3, VictimIsOldest DEF Good
      <4>5. victim \in ApSlot /\ victim # 0
        BY <1>0, <4>4 DEF OldestAps
      <4>6. {victim} \in SUBSET UsedAps(swept) /\ {victim} \subseteq UsedAps(w)
        BY <1>2, <2>2, <2>4, <4>5 DEF FreeAps, UsedAps
      <4> HIDE DEF victim
      <4>7. out = RemoveAps(swept, {victim})
        BY DEF ap_remove
      <4> HIDE DEF out
      <4>8. Leaves(out, swept, {victim}, {}, Orphans(swept, {victim})) /\ Good(out)
        BY <2>1, <4>6, <4>7, RemoveApsLeaves, RemoveApsGood
      <4>9. Orphans(swept, {victim}) = Orphans(w, {victim})
        BY <3>1 DEF Leaves, Orphans
      <4>10. SameTables(CountN(out, "ap_evicted", 1), out)
        BY <4>8, CountGood
      <4>13. Leaves(out, w, {victim}, {}, Orphans(w, {victim}))
        BY <1>0, <3>1, <4>8, <4>9, LeavesAfterNothing
      <4>14. Leaves(CountN(out, "ap_evicted", 1), w, {victim}, {}, Orphans(w, {victim}))
        BY ZenonT(30), <4>13, <4>10 DEF Leaves, SameTables
      <4>15. a.w = CountN(out, "ap_evicted", 1) /\ a.slot = victim
        BY <4>1
      <4> HIDE DEF a
      <4>16. {victim} \in ApsToLeave(w, t, strong)
        BY <4>2, <4>4
      <4>17. QED
        BY <4>5, <4>6, <4>14, <4>15, <4>16
    <3>4. QED
      BY <3>2, <3>3
  <2>5. QED
    BY <2>3, <2>4
<1>3. QED
  BY <1>1, <1>2

LEMMA AllocStaLeaves ==
    ASSUME NEW w, Good(w), NEW t \in Times, NEW strong \in BOOLEAN
    PROVE  LET a == alloc_sta(w, t, strong)
           IN IF StasToLeave(w, t, strong) = {}
              THEN a.slot = 0 /\ Leaves(a.w, w, {}, {}, {})
              ELSE /\ a.slot # 0
                   /\ \E A \in StasToLeave(w, t, strong) :
                         /\ A \subseteq UsedStas(w)
                         /\ Leaves(a.w, w, {}, A, A)
<1> DEFINE swept == IF FreeStas(w) # {} THEN w ELSE sweep_expired_stas(w, t)
           victim == OldestSta(swept)
           out == sta_remove(swept, victim)
           E == ExpiredStas(w, t)
           a == alloc_sta(w, t, strong)
<1> SUFFICES IF StasToLeave(w, t, strong) = {}
             THEN a.slot = 0 /\ Leaves(a.w, w, {}, {}, {})
             ELSE /\ a.slot # 0
                  /\ \E A \in StasToLeave(w, t, strong) :
                        /\ A \subseteq UsedStas(w)
                        /\ Leaves(a.w, w, {}, A, A)
  OBVIOUS
<1>0. w \in WorldType /\ E \subseteq UsedStas(w) /\ 0 \notin StaSlot
  BY DEF Good, ExpiredStas, UsedStas, StaSlot
<1>1. CASE FreeStas(w) # {}
  <2>1. alloc_sta(w, t, strong) = [w |-> w, slot |-> Min(FreeStas(w))]
    BY <1>1 DEF alloc_sta
  <2>2. FreeStas(w) \in SUBSET Nat /\ 0 \notin FreeStas(w)
    BY DEF FreeStas, StaSlot
  <2>3. Min(FreeStas(w)) # 0
    BY <1>1, <2>2, MinOfNats
  <2>4. Leaves(w, w, {}, {}, {})
    BY <1>0, SameTablesLeave DEF SameTables
  <2>5. StasToLeave(w, t, strong) = {{}}
    BY <1>1 DEF StasToLeave
  <2>6. a.w = w /\ a.slot # 0
    BY <2>1, <2>3
  <2> HIDE DEF a
  <2>7. QED
    BY <2>4, <2>5, <2>6
<1>2. CASE FreeStas(w) = {}
  <2>1. /\ swept = sweep_expired_stas(w, t) /\ Good(swept)
        /\ Leaves(swept, w, {}, E, E)
    BY <1>2, SweepStasLeaves, SweepStasGood
  <2>2. FreeStas(swept) = E
    BY <1>0, <1>2, <2>1 DEF Leaves, FreeStas, UsedStas
  <2>a. /\ FreeStas(swept) # {} => alloc_sta(w, t, strong)
                                    = [w |-> swept, slot |-> Min(FreeStas(swept))]
        /\ (FreeStas(swept) = {} /\ ~strong) =>
              alloc_sta(w, t, strong) = [w |-> CountN(swept, "sta_rejected", 1), slot |-> 0]
        /\ (FreeStas(swept) = {} /\ strong) =>
              alloc_sta(w, t, strong) = [w |-> CountN(out, "sta_evicted", 1), slot |-> victim]
    BY DEF alloc_sta, Count
  <2> HIDE DEF swept, E
  <2>3. CASE E # {}
    <3>1. alloc_sta(w, t, strong) = [w |-> swept, slot |-> Min(E)]
      BY <2>2, <2>3, <2>a
    <3>2. E \in SUBSET Nat /\ 0 \notin E
      BY <1>0 DEF StaSlot, UsedStas
    <3>3. Min(E) # 0
      BY <2>3, <3>2, MinOfNats
    <3>4. StasToLeave(w, t, strong) = {E}
      BY <1>2, <2>3 DEF StasToLeave, E
    <3>5. a.w = swept /\ a.slot # 0
      BY <3>1, <3>3
    <3> HIDE DEF a
    <3>6. QED
      BY <1>0, <2>1, <3>4, <3>5
  <2>4. CASE E = {}
    <3>1. Leaves(swept, w, {}, {}, {})
      BY <2>1, <2>4
    <3>2. CASE ~strong
      <4>1. alloc_sta(w, t, strong) = [w |-> CountN(swept, "sta_rejected", 1), slot |-> 0]
        BY <2>2, <2>4, <2>a, <3>2
      <4>2. StasToLeave(w, t, strong) = {}
        BY <1>2, <2>4, <3>2 DEF StasToLeave, E
      <4>3. SameTables(CountN(swept, "sta_rejected", 1), swept)
        BY <2>1, CountGood
      <4>4. Leaves(CountN(swept, "sta_rejected", 1), w, {}, {}, {})
        BY <3>1, <4>3 DEF Leaves, SameTables
      <4>5. a.w = CountN(swept, "sta_rejected", 1) /\ a.slot = 0
        BY <4>1
      <4> HIDE DEF a
      <4>6. QED
        BY <4>2, <4>4, <4>5
    <3>3. CASE strong
      <4>1. alloc_sta(w, t, strong) = [w |-> CountN(out, "sta_evicted", 1), slot |-> victim]
        BY <2>2, <2>4, <2>a, <3>3
      <4>2. StasToLeave(w, t, strong) = {{i} : i \in OldestStas(w)}
        BY <1>2, <2>4, <3>3 DEF StasToLeave, E
      <4>3. OldestStas(swept) = OldestStas(w)
        BY <3>1 DEF OldestStas, Leaves, SameStaText
      <4>4. victim \in OldestStas(w)
        BY <2>1, <4>3, VictimIsOldest DEF Good
      <4>5. victim \in StaSlot /\ victim # 0
        BY <1>0, <4>4 DEF OldestStas
      <4>6. {victim} \in SUBSET UsedStas(swept) /\ {victim} \subseteq UsedStas(w)
        BY <1>2, <2>2, <2>4, <4>5 DEF FreeStas, UsedStas
      <4> HIDE DEF victim
      <4>7. out = RemoveStas(swept, {victim})
        BY DEF sta_remove
      <4> HIDE DEF out
      <4>8. Leaves(out, swept, {}, {victim}, {victim}) /\ Good(out)
        BY <2>1, <4>6, <4>7, RemoveStasLeaves, RemoveStasGood
      <4>10. SameTables(CountN(out, "sta_evicted", 1), out)
        BY <4>8, CountGood
      <4>13. Leaves(out, w, {}, {victim}, {victim})
        BY <1>0, <3>1, <4>8, LeavesAfterNothing
      <4>14. Leaves(CountN(out, "sta_evicted", 1), w, {}, {victim}, {victim})
        BY <4>13, <4>10 DEF Leaves, SameTables
      <4>15. a.w = CountN(out, "sta_evicted", 1) /\ a.slot = victim
        BY <4>1
      <4> HIDE DEF a
      <4>16. {victim} \in StasToLeave(w, t, strong)
        BY <4>2, <4>4
      <4>17. QED
        BY <4>5, <4>6, <4>14, <4>15, <4>16
    <3>4. QED
      BY <3>2, <3>3
  <2>5. QED
    BY <2>3, <2>4
<1>3. QED
  BY <1>1, <1>2


\* The record of an AP, and of a station, that was just created.
FreshAp(b, t, strong) ==
    [ZeroAp EXCEPT !.used = TRUE, !.bssid = b, !.last_seen = t,
                   !.provisional = ~strong]
FreshSta(m, t) == [ZeroSta EXCEPT !.used = TRUE, !.mac = m, !.last_observed = t]

LEMMA PlaceApWrites ==
    ASSUME NEW w \in WorldType, NEW i \in ApSlot, NEW b, NEW t, NEW strong
    PROVE  LET v == PlaceAp(w, i, b, t, strong)
           IN /\ v.sta = w.sta
              /\ \A k \in ApSlot : v.ap[k] = IF k = i THEN FreshAp(b, t, strong)
                                            ELSE w.ap[k]
<1> DEFINE v == PlaceAp(w, i, b, t, strong)
           ap == [w.ap EXCEPT ![i] = FreshAp(b, t, strong)]
           u == [w EXCEPT !.ap = ap, !.ap_used = w.ap_used + 1]
<1>1. v = CountN(u, "ap_created", 1)
  BY DEF PlaceAp, FreshAp, Count
<1> HIDE DEF ap
<1>2. u.ap = ap /\ u.sta = w.sta
  BY DEF WorldType
<1>3. v.ap = u.ap /\ v.sta = u.sta
  <2>1. u \in [{"ap", "sta", "ap_used", "sta_used", "rel_used", "stats"} ->
               {u[f] : f \in {"ap", "sta", "ap_used", "sta_used", "rel_used", "stats"}}]
    BY DEF WorldType
  <2> HIDE DEF u
  <2>2. QED
    BY <1>1, <2>1 DEF CountN
<1>4. \A k \in ApSlot : ap[k] = IF k = i THEN FreshAp(b, t, strong) ELSE w.ap[k]
  BY DEF ap, WorldType
<1>5. QED
  BY <1>2, <1>3, <1>4

LEMMA PlaceStaWrites ==
    ASSUME NEW w \in WorldType, NEW j \in StaSlot, NEW m, NEW t
    PROVE  LET v == PlaceSta(w, j, m, t)
           IN /\ v.ap = w.ap
              /\ \A k \in StaSlot : v.sta[k] = IF k = j THEN FreshSta(m, t) ELSE w.sta[k]
<1> DEFINE v == PlaceSta(w, j, m, t)
           sta == [w.sta EXCEPT ![j] = FreshSta(m, t)]
           u == [w EXCEPT !.sta = sta, !.sta_used = w.sta_used + 1]
<1>1. v = CountN(u, "sta_created", 1)
  BY DEF PlaceSta, FreshSta, Count
<1> HIDE DEF sta
<1>2. u.sta = sta /\ u.ap = w.ap
  BY DEF WorldType
<1>3. v.ap = u.ap /\ v.sta = u.sta
  <2>1. u \in [{"ap", "sta", "ap_used", "sta_used", "rel_used", "stats"} ->
               {u[f] : f \in {"ap", "sta", "ap_used", "sta_used", "rel_used", "stats"}}]
    BY DEF WorldType
  <2> HIDE DEF u
  <2>2. QED
    BY <1>1, <2>1 DEF CountN
<1>4. \A k \in StaSlot : sta[k] = IF k = j THEN FreshSta(m, t) ELSE w.sta[k]
  BY DEF sta, WorldType
<1>5. QED
  BY <1>2, <1>3, <1>4

\* Looking up an address or creating its record: it is known; or there is no
\* room and nothing else happens; or some leave, and a fresh record fills a
\* slot that is then free.
LEMMA ApForCases ==
    ASSUME NEW w, Good(w), NEW b \in Mac, NEW t \in Times, NEW strong \in BOOLEAN
    PROVE  LET a == ApFor(w, b, t, strong)
               V == ApsToLeave(w, t, strong)
           IN IF ApsNamed(w, b) # {} THEN a.w = w /\ a.slot \in ApsNamed(w, b)
              ELSE IF V = {} THEN a.slot = 0 /\ Leaves(a.w, w, {}, {}, {})
              ELSE \E A \in V : \E u :
                      /\ A \subseteq UsedAps(w) /\ Good(u)
                      /\ Leaves(u, w, A, {}, Orphans(w, A))
                      /\ ApsNamed(u, b) = {} /\ a.slot \in FreeAps(u)
                      /\ \A k \in ApSlot : a.w.ap[k] = IF k = a.slot THEN FreshAp(b, t, strong) ELSE u.ap[k]
                      /\ a.w.sta = u.sta
<1> DEFINE a == ApFor(w, b, t, strong)
           V == ApsToLeave(w, t, strong)
           c == alloc_ap(w, t, strong)
           v == PlaceAp(c.w, c.slot, b, t, strong)
<1> SUFFICES IF ApsNamed(w, b) # {} THEN a.w = w /\ a.slot \in ApsNamed(w, b)
             ELSE IF V = {} THEN a.slot = 0 /\ Leaves(a.w, w, {}, {}, {})
             ELSE \E A \in V : \E u :
                     /\ A \subseteq UsedAps(w) /\ Good(u)
                     /\ Leaves(u, w, A, {}, Orphans(w, A))
                     /\ ApsNamed(u, b) = {} /\ a.slot \in FreeAps(u)
                     /\ \A k \in ApSlot : a.w.ap[k] = IF k = a.slot THEN FreshAp(b, t, strong) ELSE u.ap[k]
                     /\ a.w.sta = u.sta
  OBVIOUS
<1>1. CASE ApsNamed(w, b) # {}
  <2>1. ApsNamed(w, b) \in SUBSET Nat /\ 0 \notin ApsNamed(w, b)
    BY DEF ApsNamed, ApSlot
  <2>2. Min(ApsNamed(w, b)) \in ApsNamed(w, b)
    BY <1>1, <2>1, MinOfNats
  <2>3. a = [w |-> w, slot |-> Min(ApsNamed(w, b))]
    BY <1>1, <2>1, <2>2 DEF ApFor, find_ap
  <2>4. a.w = w /\ a.slot = Min(ApsNamed(w, b))
    BY <2>3
  <2> HIDE DEF a
  <2>5. QED
    BY <1>1, <2>2, <2>4
<1>2. CASE ApsNamed(w, b) = {}
  <2>1. /\ Good(c.w) /\ ApsNamed(c.w, b) = {}
        /\ c.slot # 0 => c.slot \in FreeAps(c.w)
    BY <1>2, AllocApGood
  <2>2. IF V = {} THEN c.slot = 0 /\ Leaves(c.w, w, {}, {}, {})
        ELSE /\ c.slot # 0
             /\ \E A \in V : /\ A \subseteq UsedAps(w)
                             /\ Leaves(c.w, w, A, {}, Orphans(w, A))
    BY AllocApLeaves
  <2>3. /\ c.slot = 0 => a = c
        /\ c.slot # 0 => a = [c EXCEPT !.w = v]
    BY <1>2 DEF ApFor, find_ap, ap_create
  <2>4. c = [w |-> c.w, slot |-> c.slot]
    BY DEF alloc_ap
  <2> HIDE DEF c, V, a, v
  <2>5. CASE V = {}
    BY <1>2, <2>2, <2>3, <2>5
  <2>6. CASE V # {}
    <3>1. PICK A \in V : A \subseteq UsedAps(w) /\ Leaves(c.w, w, A, {}, Orphans(w, A))
      BY <2>2, <2>6
    <3>2. a = [w |-> v, slot |-> c.slot]
      BY <2>2, <2>3, <2>4, <2>6
    <3>3. a.w = v /\ a.slot = c.slot /\ c.slot \in FreeAps(c.w) /\ c.slot \in ApSlot
      BY <2>1, <2>2, <2>6, <3>2 DEF FreeAps
    <3>4. /\ \A k \in ApSlot : v.ap[k] = IF k = c.slot THEN FreshAp(b, t, strong) ELSE c.w.ap[k]
          /\ v.sta = c.w.sta
      <4>1. c.w \in WorldType /\ v = PlaceAp(c.w, c.slot, b, t, strong)
        BY <2>1 DEF Good, v
      <4>2. QED
        BY <3>3, <4>1, PlaceApWrites
    <3>5. QED
      BY <1>2, <2>1, <2>6, <3>1, <3>3, <3>4
  <2>7. QED
    BY <2>5, <2>6
<1>3. QED
  BY <1>1, <1>2

LEMMA StaForCases ==
    ASSUME NEW w, Good(w), NEW m \in Mac, NEW t \in Times, NEW strong \in BOOLEAN
    PROVE  LET a == StaFor(w, m, t, strong)
               V == StasToLeave(w, t, strong)
           IN IF StasNamed(w, m) # {} THEN a.w = w /\ a.slot \in StasNamed(w, m)
              ELSE IF V = {} THEN a.slot = 0 /\ Leaves(a.w, w, {}, {}, {})
              ELSE \E A \in V : \E u :
                      /\ A \subseteq UsedStas(w) /\ Good(u)
                      /\ Leaves(u, w, {}, A, A)
                      /\ StasNamed(u, m) = {} /\ a.slot \in FreeStas(u)
                      /\ \A k \in StaSlot : a.w.sta[k] = IF k = a.slot THEN FreshSta(m, t) ELSE u.sta[k]
                      /\ a.w.ap = u.ap
<1> DEFINE a == StaFor(w, m, t, strong)
           V == StasToLeave(w, t, strong)
           c == alloc_sta(w, t, strong)
           v == PlaceSta(c.w, c.slot, m, t)
<1> SUFFICES IF StasNamed(w, m) # {} THEN a.w = w /\ a.slot \in StasNamed(w, m)
             ELSE IF V = {} THEN a.slot = 0 /\ Leaves(a.w, w, {}, {}, {})
             ELSE \E A \in V : \E u :
                     /\ A \subseteq UsedStas(w) /\ Good(u)
                     /\ Leaves(u, w, {}, A, A)
                     /\ StasNamed(u, m) = {} /\ a.slot \in FreeStas(u)
                     /\ \A k \in StaSlot : a.w.sta[k] = IF k = a.slot THEN FreshSta(m, t) ELSE u.sta[k]
                     /\ a.w.ap = u.ap
  OBVIOUS
<1>1. CASE StasNamed(w, m) # {}
  <2>1. StasNamed(w, m) \in SUBSET Nat /\ 0 \notin StasNamed(w, m)
    BY DEF StasNamed, StaSlot
  <2>2. Min(StasNamed(w, m)) \in StasNamed(w, m)
    BY <1>1, <2>1, MinOfNats
  <2>3. a = [w |-> w, slot |-> Min(StasNamed(w, m))]
    BY <1>1, <2>1, <2>2 DEF StaFor, find_sta
  <2>4. a.w = w /\ a.slot = Min(StasNamed(w, m))
    BY <2>3
  <2> HIDE DEF a
  <2>5. QED
    BY <1>1, <2>2, <2>4
<1>2. CASE StasNamed(w, m) = {}
  <2>1. /\ Good(c.w) /\ StasNamed(c.w, m) = {}
        /\ c.slot # 0 => c.slot \in FreeStas(c.w)
    BY <1>2, AllocStaGood
  <2>2. IF V = {} THEN c.slot = 0 /\ Leaves(c.w, w, {}, {}, {})
        ELSE /\ c.slot # 0
             /\ \E A \in V : /\ A \subseteq UsedStas(w)
                             /\ Leaves(c.w, w, {}, A, A)
    BY AllocStaLeaves
  <2>3. /\ c.slot = 0 => a = c
        /\ c.slot # 0 => a = [c EXCEPT !.w = v]
    BY <1>2 DEF StaFor, find_sta, sta_create
  <2>4. c = [w |-> c.w, slot |-> c.slot]
    BY DEF alloc_sta
  <2> HIDE DEF c, V, a, v
  <2>5. CASE V = {}
    BY <1>2, <2>2, <2>3, <2>5
  <2>6. CASE V # {}
    <3>1. PICK A \in V : A \subseteq UsedStas(w) /\ Leaves(c.w, w, {}, A, A)
      BY <2>2, <2>6
    <3>2. a = [w |-> v, slot |-> c.slot]
      BY <2>2, <2>3, <2>4, <2>6
    <3>3. a.w = v /\ a.slot = c.slot /\ c.slot \in FreeStas(c.w) /\ c.slot \in StaSlot
      BY <2>1, <2>2, <2>6, <3>2 DEF FreeStas
    <3>4. /\ \A k \in StaSlot : v.sta[k] = IF k = c.slot THEN FreshSta(m, t) ELSE c.w.sta[k]
          /\ v.ap = c.w.ap
      <4>1. c.w \in WorldType /\ v = PlaceSta(c.w, c.slot, m, t)
        BY <2>1 DEF Good, v
      <4>2. QED
        BY <3>3, <4>1, PlaceStaWrites
    <3>5. QED
      BY <1>2, <2>1, <2>6, <3>1, <3>3, <3>4
  <2>7. QED
    BY <2>5, <2>6
<1>3. QED
  BY <1>1, <1>2

-----------------------------------------------------------------------------
(* What a record says of its AP or station *)

SecFine(s) ==
    /\ s.state = "known" <=> s.rsn # NoSuite \/ s.wpa # NoSuite
    /\ s.state = "open" => ~s.privacy
    /\ s.state = "legacy_privacy" => s.privacy

ApFine(r) == r.rssi \in {r.bssid, NonUnicast} /\ SecFine(r.sec)

ProvFine(r) ==
    /\ r.provisional <=> r.beacon_count = 0 /\ r.probe_resp_count = 0
    /\ r.provisional => r.ssid = NoSsid /\ r.channel = 0 /\ r.sec = ZeroSecurity

StaFine(w, r) ==
    /\ r.rssi \in {r.mac, NonUnicast}
    /\ r.rel_evidence = UPLINK => r.rssi = r.mac
    /\ r.rel_last <= r.last_observed
    /\ r.rel_ap # 0 => w.ap[r.rel_ap].bssid # r.mac

\* All records are fine, but the AP slots of X may hold an AP that is about to
\* be heard for the first time.  (With counters that cannot count, SatMax = 0,
\* nothing is said of `provisional`.)
Facts(w, X) ==
    /\ \A i \in UsedAps(w) :
          ApFine(w.ap[i]) /\ (i \notin X /\ SatMax > 0 => ProvFine(w.ap[i]))
    /\ \A j \in UsedStas(w) : StaFine(w, w.sta[j])

LEMMA LeavesFacts ==
    ASSUME NEW v, NEW w, Good(w), NEW A, NEW S, NEW B, Leaves(v, w, A, S, B),
           NEW X, Facts(w, X)
    PROVE  Facts(v, X)
<1>0. w \in WorldType /\ \A j \in StaSlot : w.sta[j].rel_ap \in 0..AP_MAX
  BY DEF Good, WorldType, StaRecord
<1>1. ASSUME NEW i \in UsedAps(v)
      PROVE  ApFine(v.ap[i]) /\ (i \notin X /\ SatMax > 0 => ProvFine(v.ap[i]))
  <2>1. i \in UsedAps(w) /\ SameApText(v.ap[i], w.ap[i])
    BY <1>1 DEF Leaves, UsedAps
  <2>2. ApFine(w.ap[i]) /\ (i \notin X /\ SatMax > 0 => ProvFine(w.ap[i]))
    BY <2>1 DEF Facts
  <2>3. QED
    BY <2>1, <2>2 DEF SameApText, ApFine, ProvFine
<1>2. ASSUME NEW j \in UsedStas(v)
      PROVE  StaFine(v, v.sta[j])
  <2>1. /\ j \in UsedStas(w) /\ SameStaText(v.sta[j], w.sta[j]) /\ j \in StaSlot
        /\ v.sta[j].rel_ap = IF j \in B THEN 0 ELSE w.sta[j].rel_ap
        /\ v.sta[j].rel_evidence = IF j \in B THEN NONE ELSE w.sta[j].rel_evidence
    BY <1>2 DEF Leaves, UsedStas
  <2>2. StaFine(w, w.sta[j])
    BY <2>1 DEF Facts
  <2>3. v.sta[j].rel_ap # 0 =>
           /\ v.sta[j].rel_ap = w.sta[j].rel_ap /\ w.sta[j].rel_ap \in ApSlot
    BY <1>0, <2>1 DEF ApSlot
  <2>4. v.sta[j].rel_ap # 0 =>
           w.ap[w.sta[j].rel_ap].bssid = v.ap[w.sta[j].rel_ap].bssid
    BY <2>3 DEF Leaves, SameApText
  <2>5. NONE # UPLINK
    BY DEF NONE, UPLINK
  <2>6. QED
    BY <2>1, <2>2, <2>3, <2>4, <2>5 DEF StaFine, SameStaText
<1>3. QED
  BY <1>1, <1>2 DEF Facts

LEMMA ApWrittenFacts ==
    ASSUME NEW w, Good(w), NEW i \in ApSlot, NEW X, Facts(w, X), X \subseteq {i},
           NEW r, ApFine(r), w.ap[i].used => r.bssid = w.ap[i].bssid,
           NEW Y, i \in Y \/ (SatMax > 0 => ProvFine(r)),
           NEW v, v.sta = w.sta,
           \A k \in ApSlot : v.ap[k] = IF k = i THEN r ELSE w.ap[k]
    PROVE  Facts(v, Y)
<1>1. ASSUME NEW k \in UsedAps(v)
      PROVE  ApFine(v.ap[k]) /\ (k \notin Y /\ SatMax > 0 => ProvFine(v.ap[k]))
  <2>1. k \in ApSlot /\ v.ap[k].used
    BY DEF UsedAps
  <2>2. CASE k = i
    BY <2>1, <2>2
  <2>3. CASE k # i
    <3>1. k \in UsedAps(w) /\ v.ap[k] = w.ap[k] /\ k \notin X
      BY <2>1, <2>3 DEF UsedAps
    <3>2. QED
      BY <3>1 DEF Facts
  <2>4. QED
    BY <2>2, <2>3
<1>2. ASSUME NEW j \in UsedStas(v)
      PROVE  StaFine(v, v.sta[j])
  <2>1. j \in UsedStas(w) /\ j \in StaSlot /\ v.sta[j] = w.sta[j]
    BY DEF UsedStas
  <2>2. StaFine(w, w.sta[j])
    BY <2>1 DEF Facts
  <2>3. w.sta[j].rel_ap # 0 =>
           /\ w.sta[j].rel_ap \in ApSlot /\ w.ap[w.sta[j].rel_ap].used
    BY <2>1 DEF Good, WorldType, StaRecord, RelationsSound, ApSlot
  <2>4. w.sta[j].rel_ap # 0 =>
           v.ap[w.sta[j].rel_ap].bssid = w.ap[w.sta[j].rel_ap].bssid
    BY <2>3
  <2>5. QED
    BY <2>1, <2>2, <2>4 DEF StaFine
<1>3. QED
  BY <1>1, <1>2 DEF Facts

LEMMA StaWrittenFacts ==
    ASSUME NEW w, Good(w), NEW j \in StaSlot, NEW X, Facts(w, X),
           NEW r, StaFine(w, r),
           r.rel_ap \in 0..AP_MAX, NEW v,
           \A k \in ApSlot : v.ap[k].used = w.ap[k].used /\ SameApText(v.ap[k], w.ap[k]),
           \A k \in StaSlot : v.sta[k] = IF k = j THEN r ELSE w.sta[k]
    PROVE  Facts(v, X)
<1>1. ASSUME NEW k \in UsedAps(v)
      PROVE  ApFine(v.ap[k]) /\ (k \notin X /\ SatMax > 0 => ProvFine(v.ap[k]))
  <2>1. k \in UsedAps(w) /\ SameApText(v.ap[k], w.ap[k])
    BY DEF UsedAps
  <2>2. ApFine(w.ap[k]) /\ (k \notin X /\ SatMax > 0 => ProvFine(w.ap[k]))
    BY <2>1 DEF Facts
  <2>3. QED
    BY <2>1, <2>2 DEF SameApText, ApFine, ProvFine
<1>a. ASSUME NEW q, q.rel_ap \in 0..AP_MAX, StaFine(w, q)
      PROVE  StaFine(v, q)
  <2>1. q.rel_ap # 0 => q.rel_ap \in ApSlot
    BY <1>a DEF ApSlot
  <2>2. q.rel_ap # 0 => v.ap[q.rel_ap].bssid = w.ap[q.rel_ap].bssid
    BY <2>1 DEF SameApText
  <2>3. QED
    BY <1>a, <2>2 DEF StaFine
<1>2. ASSUME NEW k \in UsedStas(v)
      PROVE  StaFine(v, v.sta[k])
  <2>1. k \in StaSlot /\ v.sta[k].used
    BY DEF UsedStas
  <2>2. CASE k = j
    BY <1>a, <2>1, <2>2
  <2>3. CASE k # j
    <3>1. k \in UsedStas(w) /\ v.sta[k] = w.sta[k]
      BY <2>1, <2>3 DEF UsedStas
    <3>2. StaFine(w, w.sta[k])
      BY <3>1 DEF Facts
    <3>3. w.sta[k].rel_ap \in 0..AP_MAX
      BY <2>1 DEF Good, WorldType, StaRecord
    <3>4. QED
      BY <1>a, <3>1, <3>2, <3>3
  <2>4. QED
    BY <2>2, <2>3
<1>3. QED
  BY <1>1, <1>2 DEF Facts

-----------------------------------------------------------------------------
(* Fresh and refreshed records *)

LEMMA FreshFields ==
    ASSUME NEW b \in Mac, NEW t \in Times, NEW strong \in BOOLEAN
    PROVE  LET r == FreshAp(b, t, strong)
           IN /\ r.used /\ r.bssid = b /\ r.last_seen = t
              /\ r.rssi = NonUnicast /\ r.sec = ZeroSecurity /\ r.ssid = NoSsid
              /\ r.channel = 0 /\ r.beacon_count = 0 /\ r.probe_resp_count = 0
              /\ r.provisional <=> ~strong
<1> DEFINE p == ~strong
           r == FreshAp(b, t, strong)
<1>1. r = [ZeroAp EXCEPT !.used = TRUE, !.bssid = b, !.last_seen = t, !.provisional = p]
  BY DEF FreshAp
<1> HIDE DEF p, r
<1>2. /\ r.used = TRUE /\ r.bssid = b /\ r.last_seen = t
      /\ r.rssi = NonUnicast /\ r.sec = ZeroSecurity /\ r.ssid = NoSsid
      /\ r.channel = 0 /\ r.beacon_count = 0 /\ r.probe_resp_count = 0
      /\ r.provisional = p
  BY <1>1 DEF ZeroAp
<1>3. r.provisional <=> ~strong
  BY <1>2 DEF p
<1>4. QED
  BY <1>2, <1>3 DEF r

LEMMA FreshStaFields ==
    ASSUME NEW m \in Mac, NEW t \in Times
    PROVE  LET r == FreshSta(m, t)
           IN /\ r.used /\ r.mac = m /\ r.last_observed = t
              /\ r.rssi = NonUnicast /\ r.rel_ap = 0 /\ r.rel_evidence = NONE
              /\ r.rel_last = 0
BY DEF FreshSta, ZeroSta

LEMMA FreshFine ==
    /\ \A b \in Mac, t \in Times : \A strong \in BOOLEAN : ApFine(FreshAp(b, t, strong))
    /\ \A b \in Mac, t \in Times : ProvFine(FreshAp(b, t, FALSE))
    /\ \A w : \A m \in Mac, t \in Times : StaFine(w, FreshSta(m, t))
<1>1. SecFine(ZeroSecurity)
  BY DEF SecFine, ZeroSecurity
<1>2. ASSUME NEW b \in Mac, NEW t \in Times, NEW strong \in BOOLEAN
      PROVE  ApFine(FreshAp(b, t, strong))
  <2> DEFINE r == FreshAp(b, t, strong)
  <2>1. r.bssid = b /\ r.rssi = NonUnicast /\ r.sec = ZeroSecurity
    BY FreshFields
  <2> HIDE DEF r
  <2>2. ApFine(r)
    BY <1>1, <2>1 DEF ApFine
  <2>3. QED
    BY <2>2 DEF r
<1>3. ASSUME NEW b \in Mac, NEW t \in Times
      PROVE  ProvFine(FreshAp(b, t, FALSE))
  BY FreshFields DEF ProvFine
<1>4. ASSUME NEW w, NEW m \in Mac, NEW t \in Times
      PROVE  StaFine(w, FreshSta(m, t))
  <2> DEFINE r == FreshSta(m, t)
  <2>1. /\ r.rssi = NonUnicast /\ r.rel_ap = 0 /\ r.rel_evidence = NONE
        /\ r.rel_last = 0 /\ r.last_observed \in Nat
    BY FreshStaFields, TimeAssumption DEF Times
  <2> HIDE DEF r
  <2>2. StaFine(w, r)
    BY <2>1 DEF StaFine, NONE, UPLINK
  <2>3. QED
    BY <2>2 DEF r
<1>5. QED
  BY <1>2, <1>3, <1>4

LEMMA ApSpokeFields ==
    ASSUME NEW r \in ApRecord, NEW t, NEW b, NEW o
    PROVE  LET q == ApSpoke(r, t, b, o)
           IN /\ q.bssid = r.bssid /\ q.last_seen = t /\ q.rssi = b
              /\ ~q.provisional
              /\ q.sec = MergeSecurity(r.sec, o)
              /\ q.ssid = IF o.complete /\ o.ssid # NoSsid THEN o.ssid ELSE r.ssid
              /\ q.beacon_count = IF o.beacon THEN SatInc(r.beacon_count)
                                  ELSE r.beacon_count
              /\ q.probe_resp_count = IF o.beacon THEN r.probe_resp_count
                                      ELSE SatInc(r.probe_resp_count)
BY DEF ApSpoke, ApRecord

LEMMA ApReachedFields ==
    ASSUME NEW r \in ApRecord
    PROVE  SameApText(ApReached(r), r)
BY DEF ApReached, ApRecord, SameApText

LEMMA ApRelayedFields ==
    ASSUME NEW r \in ApRecord, NEW t, NEW b
    PROVE  LET q == ApRelayed(r, t, b)
           IN /\ q.bssid = r.bssid /\ q.last_seen = t /\ q.rssi = b
              /\ q.provisional = r.provisional /\ q.ssid = r.ssid
              /\ q.channel = r.channel /\ q.sec = r.sec
              /\ q.beacon_count = r.beacon_count
              /\ q.probe_resp_count = r.probe_resp_count
BY DEF ApRelayed, ApRecord

\* The relation of a station, and everything else that is said of it.
SameRelation(q, r) ==
    /\ q.rel_ap = r.rel_ap /\ q.rel_evidence = r.rel_evidence
    /\ q.rel_last = r.rel_last

LEMMA StaSpokeFields ==
    ASSUME NEW r \in StaRecord, NEW t, NEW m
    PROVE  /\ LET q == StaSpoke(r, t, m)
              IN /\ q.mac = r.mac /\ q.last_observed = t /\ q.rssi = m
                 /\ SameRelation(q, r)
           /\ LET q == StaAddressed(r, t)
              IN /\ q.mac = r.mac /\ q.last_observed = t /\ q.rssi = r.rssi
                 /\ SameRelation(q, r)
           /\ SameStaText(StaProbed(r), r) /\ SameRelation(StaProbed(r), r)
<1>1. LET q == StaSpoke(r, t, m)
      IN /\ q.mac = r.mac /\ q.last_observed = t /\ q.rssi = m
         /\ SameRelation(q, r)
  BY DEF StaSpoke, StaRecord, SameRelation
<1>2. LET q == StaAddressed(r, t)
      IN /\ q.mac = r.mac /\ q.last_observed = t /\ q.rssi = r.rssi
         /\ SameRelation(q, r)
  BY DEF StaAddressed, StaRecord, SameRelation
<1>3. SameStaText(StaProbed(r), r) /\ SameRelation(StaProbed(r), r)
  BY DEF StaProbed, StaRecord, SameStaText, SameRelation
<1>4. QED
  BY <1>1, <1>2, <1>3

LEMMA StrengthenedFields ==
    ASSUME NEW r \in StaRecord, NEW ev, NEW t
    PROVE  LET q == Strengthened(r, ev, t)
           IN /\ q.mac = r.mac /\ q.last_observed = r.last_observed
              /\ q.rssi = r.rssi /\ q.rel_ap = r.rel_ap
              /\ q.rel_evidence = IF ev > r.rel_evidence THEN ev ELSE r.rel_evidence
              /\ q.rel_last = IF t >= r.rel_last THEN t ELSE r.rel_last
BY DEF Strengthened, StaRecord

\* Merging a parsed frame into a description of the security keeps verdict
\* and suites in agreement.
LEMMA MergeFine ==
    ASSUME NEW sec \in Security, SecFine(sec), NEW o \in Obs
    PROVE  SecFine(MergeSecurity(sec, o))
<1> DEFINE rsn == MergeSuite(sec.rsn, o.rsn, o.complete)
           wpa == MergeSuite(sec.wpa, o.wpa, o.complete)
           bare == o.complete /\ o.rsn = Absent /\ o.wpa = Absent
           state == CASE rsn # NoSuite \/ wpa # NoSuite -> "known"
                      [] OTHER -> IF bare
                                  THEN (IF o.privacy THEN "legacy_privacy" ELSE "open")
                                  ELSE sec.state
           q == [rsn |-> rsn, wpa |-> wpa, privacy |-> o.privacy, state |-> state]
<1>1. /\ o.rsn \in Suite \cup {Absent, Broken} /\ o.wpa \in Suite \cup {Absent, Broken}
      /\ o.complete \in BOOLEAN /\ o.privacy \in BOOLEAN
      /\ o.complete => o.rsn # Broken /\ o.wpa # Broken
  BY ObsAssumption DEF Observation
<1>2. NoSuite \notin Suite
  BY SuiteAssumption
<1>3. CASE Teaches(o.rsn, o.complete) \/ Teaches(o.wpa, o.complete)
  <2>1. MergeSecurity(sec, o) = q
    BY <1>3 DEF MergeSecurity
  <2>2. rsn = NoSuite /\ wpa = NoSuite => bare
    BY <1>1, <1>2, <1>3 DEF MergeSuite, Teaches
  <2> HIDE DEF rsn, wpa, bare
  <2>3. SecFine(q)
    BY <1>1, <2>2 DEF SecFine
  <2>4. QED
    BY <2>1, <2>3
<1>4. CASE ~(Teaches(o.rsn, o.complete) \/ Teaches(o.wpa, o.complete))
  BY <1>4 DEF MergeSecurity
<1>5. QED
  BY <1>3, <1>4

LEMMA SpokenFine ==
    ASSUME NEW r \in ApRecord, ApFine(r), NEW t \in Times, NEW o \in Obs
    PROVE  LET q == ApSpoke(r, t, r.bssid, o)
           IN ApFine(q) /\ (SatMax > 0 => ProvFine(q))
<1> DEFINE q == ApSpoke(r, t, r.bssid, o)
<1>1. /\ q.bssid = r.bssid /\ q.rssi = r.bssid /\ ~q.provisional
      /\ q.sec = MergeSecurity(r.sec, o)
      /\ q.beacon_count = IF o.beacon THEN SatInc(r.beacon_count) ELSE r.beacon_count
      /\ q.probe_resp_count = IF o.beacon THEN r.probe_resp_count
                              ELSE SatInc(r.probe_resp_count)
  BY ApSpokeFields
<1> HIDE DEF q
<1>2. r.sec \in Security /\ r.beacon_count \in Nat /\ r.probe_resp_count \in Nat
      /\ o.beacon \in BOOLEAN
  BY ObsAssumption, CounterAssumption DEF ApRecord, Observation
<1>3. SecFine(q.sec)
  BY <1>1, <1>2, MergeFine DEF ApFine
<1>4. SatMax > 0 => q.beacon_count # 0 \/ q.probe_resp_count # 0
  BY <1>1, <1>2, CounterAssumption DEF SatInc
<1>5. ApFine(q)
  BY <1>1, <1>3 DEF ApFine
<1>6. SatMax > 0 => ProvFine(q)
  BY <1>1, <1>4 DEF ProvFine
<1>7. QED
  BY <1>5, <1>6 DEF q

-----------------------------------------------------------------------------
(* What evidence does to the relation of one station *)

SameApTexts(v, w) ==
    \A k \in ApSlot : v.ap[k].used = w.ap[k].used /\ SameApText(v.ap[k], w.ap[k])

\* The record of a station whose relation is now with slot i.
Rebound(r, i, ev, t) == [r EXCEPT !.rel_ap = i, !.rel_evidence = ev, !.rel_last = t]

LEMMA ReboundFields ==
    ASSUME NEW r \in StaRecord, NEW i, NEW ev, NEW t
    PROVE  LET q == Rebound(r, i, ev, t)
           IN /\ q.mac = r.mac /\ q.last_observed = r.last_observed
              /\ q.rssi = r.rssi
              /\ q.rel_ap = i /\ q.rel_evidence = ev /\ q.rel_last = t
BY DEF Rebound, StaRecord

LEMMA StaBindWrites ==
    ASSUME NEW w \in WorldType, NEW j \in StaSlot, NEW i \in ApSlot, NEW ev, NEW t
    PROVE  LET v == sta_bind(w, j, i, ev, t)
           IN /\ SameApTexts(v, w)
              /\ \A k \in StaSlot : v.sta[k] = IF k = j THEN Rebound(w.sta[j], i, ev, t)
                                               ELSE w.sta[k]
<1> DEFINE v == sta_bind(w, j, i, ev, t)
           a == [w.ap[i] EXCEPT !.station_count = w.ap[i].station_count + 1]
           ap == [w.ap EXCEPT ![i] = a]
           sta == [w.sta EXCEPT ![j] = Rebound(w.sta[j], i, ev, t)]
           u == [w EXCEPT !.sta = sta, !.ap = ap, !.rel_used = w.rel_used + 1]
<1>1. v = CountN(u, "rel_formed", 1)
  BY DEF sta_bind, Rebound, Count
<1>2. SameApText(a, w.ap[i]) /\ a.used = w.ap[i].used
  BY ApTextFields DEF WorldType
<1> HIDE DEF a
<1>3. /\ \A k \in ApSlot : ap[k] = IF k = i THEN a ELSE w.ap[k]
      /\ \A k \in StaSlot : sta[k] = IF k = j THEN Rebound(w.sta[j], i, ev, t)
                                     ELSE w.sta[k]
  BY DEF WorldType
<1> HIDE DEF ap, sta
<1>4. u.ap = ap /\ u.sta = sta
  BY DEF WorldType
<1>5. v.ap = u.ap /\ v.sta = u.sta
  <2>1. u \in [{"ap", "sta", "ap_used", "sta_used", "rel_used", "stats"} ->
               {u[f] : f \in {"ap", "sta", "ap_used", "sta_used", "rel_used", "stats"}}]
    BY DEF WorldType
  <2> HIDE DEF u
  <2>2. QED
    BY <1>1, <2>1 DEF CountN
<1>6. SameApTexts(v, w)
  BY <1>2, <1>3, <1>4, <1>5 DEF SameApTexts, SameApText
<1>7. QED
  BY <1>3, <1>4, <1>5, <1>6

\* Does evidence for AP slot i take the relation of the record r over?
Takes(r, ev, t) == r.rel_ap = 0 \/ rel_expired_at(r, t) \/ EvidenceWins(r, ev, t)

LEMMA RelationEvidenceEffect ==
    ASSUME NEW w, Good(w), NEW j \in StaSlot, NEW i \in ApSlot,
           NEW ev \in {DOWNLINK, UPLINK}, NEW t \in Times
    PROVE  LET v == relation_evidence(w, j, i, ev, t)
               r == w.sta[j]
               q == v.sta[j]
           IN /\ SameApTexts(v, w)
              /\ \A k \in StaSlot \ {j} : v.sta[k] = w.sta[k]
              /\ q.mac = r.mac /\ q.last_observed = r.last_observed /\ q.rssi = r.rssi
              /\ q.used = r.used
              /\ IF r.rel_ap = i
                 THEN /\ q.rel_ap = i
                      /\ q.rel_evidence = IF ev > r.rel_evidence THEN ev ELSE r.rel_evidence
                      /\ q.rel_last = IF t >= r.rel_last THEN t ELSE r.rel_last
                 ELSE IF Takes(r, ev, t)
                 THEN q.rel_ap = i /\ q.rel_evidence = ev /\ q.rel_last = t
                 ELSE SameRelation(q, r)
<1> DEFINE v == relation_evidence(w, j, i, ev, t)
           r == w.sta[j]
           q == v.sta[j]
           c == CountN(w, "rel_conflicts", 1)
           x == CountN(c, "rel_expired", 1)
           s == CountN(c, "rel_switched", 1)
<1> SUFFICES /\ SameApTexts(v, w)
             /\ \A k \in StaSlot \ {j} : v.sta[k] = w.sta[k]
             /\ q.mac = r.mac /\ q.last_observed = r.last_observed /\ q.rssi = r.rssi
             /\ q.used = r.used
             /\ IF r.rel_ap = i
                THEN /\ q.rel_ap = i
                     /\ q.rel_evidence = IF ev > r.rel_evidence THEN ev ELSE r.rel_evidence
                     /\ q.rel_last = IF t >= r.rel_last THEN t ELSE r.rel_last
                ELSE IF Takes(r, ev, t)
                THEN q.rel_ap = i /\ q.rel_evidence = ev /\ q.rel_last = t
                ELSE SameRelation(q, r)
  OBVIOUS
<1>0. w \in WorldType /\ r \in StaRecord /\ i # 0 /\ i \in Nat
  BY DEF Good, WorldType, ApSlot
<1>1. Good(c) /\ SameTables(c, w)
  BY CountGood
<1> HIDE DEF c
<1>2. Good(x) /\ SameTables(x, w) /\ Good(s) /\ SameTables(s, w)
  BY <1>1, CountGood DEF SameTables
<1> HIDE DEF x, s
<1>a. \A y : SameTables(y, w) => SameApTexts(y, w) /\ y.sta = w.sta
  BY DEF SameTables, SameApTexts, SameApText
<1>3. CASE r.rel_ap = i
  <2>1. v = [w EXCEPT !.sta[j] = Strengthened(r, ev, t)]
    BY <1>0, <1>3 DEF relation_evidence
  <2> HIDE DEF v
  <2>2. /\ v.ap = w.ap
        /\ \A k \in StaSlot : v.sta[k] = IF k = j THEN Strengthened(r, ev, t) ELSE w.sta[k]
    BY <1>0, <2>1 DEF WorldType
  <2>3. q = Strengthened(r, ev, t) /\ q.used = r.used
    BY <1>0, <2>2, StrengthenedType
  <2>4. SameApTexts(v, w)
    BY <2>2 DEF SameApTexts, SameApText
  <2>5. QED
    BY <1>0, <1>3, <2>2, <2>3, <2>4, StrengthenedFields
<1>4. ASSUME r.rel_ap # i, Takes(r, ev, t), NEW y, Good(y), SameApTexts(y, w),
             \A k \in StaSlot \ {j} : y.sta[k] = w.sta[k],
             SameStaText(y.sta[j], r), y.sta[j].used = r.used,
             v = sta_bind(y, j, i, ev, t)
      PROVE  /\ SameApTexts(v, w)
             /\ \A k \in StaSlot \ {j} : v.sta[k] = w.sta[k]
             /\ q.mac = r.mac /\ q.last_observed = r.last_observed /\ q.rssi = r.rssi
             /\ q.used = r.used
             /\ q.rel_ap = i /\ q.rel_evidence = ev /\ q.rel_last = t
  <2>1. y \in WorldType /\ y.sta[j] \in StaRecord
    BY <1>4 DEF Good, WorldType
  <2> DEFINE p == Rebound(y.sta[j], i, ev, t)
  <2>2. /\ SameApTexts(v, y)
        /\ \A k \in StaSlot : v.sta[k] = IF k = j THEN p ELSE y.sta[k]
    BY <1>4, <2>1, StaBindWrites
  <2>3. /\ p.mac = y.sta[j].mac /\ p.last_observed = y.sta[j].last_observed
        /\ p.rssi = y.sta[j].rssi
        /\ p.rel_ap = i /\ p.rel_evidence = ev /\ p.rel_last = t
    BY <2>1, ReboundFields
  <2>4. p.used = y.sta[j].used
    BY <2>1 DEF Rebound, StaRecord
  <2> HIDE DEF p, v
  <2>5. q = p
    BY <2>2
  <2>6. SameApTexts(v, w)
    BY <1>4, <2>2 DEF SameApTexts, SameApText
  <2>7. QED
    BY <1>4, <2>2, <2>3, <2>4, <2>5, <2>6 DEF SameStaText
<1>5. CASE r.rel_ap = 0
  <2>1. v = sta_bind(w, j, i, ev, t)
    BY <1>0, <1>5 DEF relation_evidence
  <2>2. SameApTexts(w, w) /\ SameStaText(w.sta[j], r) /\ Takes(r, ev, t)
    BY <1>5 DEF SameApTexts, SameApText, SameStaText, Takes
  <2> HIDE DEF v
  <2>3. QED
    BY <1>0, <1>4, <1>5, <2>1, <2>2
<1>6. CASE r.rel_ap \notin {0, i}
  <2>1. /\ rel_expired_at(r, t) => v = sta_bind(sta_unbind(x, j), j, i, ev, t)
        /\ ~rel_expired_at(r, t) /\ EvidenceWins(r, ev, t) =>
              v = sta_bind(sta_unbind(s, j), j, i, ev, t)
        /\ ~rel_expired_at(r, t) /\ ~EvidenceWins(r, ev, t) => v = c
    <3>1. CASE rel_expired_at(r, t)
      BY <1>6, <3>1 DEF relation_evidence, Count, c, x
    <3>2. CASE ~rel_expired_at(r, t) /\ EvidenceWins(r, ev, t)
      BY <1>6, <3>2 DEF relation_evidence, Count, c, s
    <3>3. CASE ~rel_expired_at(r, t) /\ ~EvidenceWins(r, ev, t)
      BY <1>6, <3>3 DEF relation_evidence, Count, c
    <3>4. QED
      BY <3>1, <3>2, <3>3
  <2> HIDE DEF v
  <2>2. ASSUME NEW y, Good(y), SameTables(y, w)
        PROVE  LET u == sta_unbind(y, j)
               IN /\ Good(u) /\ SameApTexts(u, w)
                  /\ \A k \in StaSlot \ {j} : u.sta[k] = w.sta[k]
                  /\ SameStaText(u.sta[j], r) /\ u.sta[j].used = r.used
    <3> DEFINE u == UnbindAll(y, {j})
    <3>1. {j} \in SUBSET StaSlot /\ y \in WorldType
      BY <2>2 DEF Good
    <3>2. /\ Good(u) /\ Leaves(u, y, {}, {}, {j}) /\ SameAps(u, y) /\ SameStas(u, y)
          /\ \A k \in StaSlot \ {j} : u.sta[k] = y.sta[k]
      BY <2>2, <3>1, UnbindAllGood, UnbindAllLeaves
    <3>3. sta_unbind(y, j) = u
      BY DEF sta_unbind
    <3> HIDE DEF u
    <3>4. SameApTexts(u, w)
      BY <2>2, <3>2 DEF SameApTexts, SameTables, SameAps, Leaves
    <3>5. SameStaText(u.sta[j], r) /\ u.sta[j].used = r.used
      BY <2>2, <3>2 DEF SameStas, SameTables, Leaves
    <3>6. QED
      BY <2>2, <3>2, <3>3, <3>4, <3>5 DEF SameTables
  <2>3. CASE rel_expired_at(r, t)
    <3>1. Takes(r, ev, t)
      BY <2>3 DEF Takes
    <3>2. QED
      BY <1>2, <1>4, <1>6, <2>1, <2>2, <2>3, <3>1
  <2>4. CASE ~rel_expired_at(r, t) /\ EvidenceWins(r, ev, t)
    <3>1. Takes(r, ev, t)
      BY <2>4 DEF Takes
    <3>2. QED
      BY <1>2, <1>4, <1>6, <2>1, <2>2, <2>4, <3>1
  <2>5. CASE ~rel_expired_at(r, t) /\ ~EvidenceWins(r, ev, t)
    <3>1. ~Takes(r, ev, t)
      BY <1>6, <2>5 DEF Takes
    <3>2. v.sta = w.sta /\ SameApTexts(v, w)
      BY <1>1, <1>a, <2>1, <2>5
    <3>3. QED
      BY <1>6, <3>1, <3>2 DEF SameRelation
  <2>6. QED
    BY <2>3, <2>4, <2>5
<1>7. QED
  BY <1>3, <1>5, <1>6

\* Evidence from a frame that is not older than its station, between two
\* different addresses, and for "uplink" heard from the station itself, keeps
\* every relation plausible.
LEMMA RelationEvidenceFacts ==
    ASSUME NEW w, Good(w), NEW j \in UsedStas(w), NEW i \in UsedAps(w),
           NEW ev \in {DOWNLINK, UPLINK}, NEW t \in Times, NEW X, Facts(w, X),
           t <= w.sta[j].last_observed, w.ap[i].bssid # w.sta[j].mac,
           ev = UPLINK => w.sta[j].rssi = w.sta[j].mac
    PROVE  Facts(relation_evidence(w, j, i, ev, t), X)
<1> DEFINE v == relation_evidence(w, j, i, ev, t)
           r == w.sta[j]
           q == v.sta[j]
<1>0. /\ j \in StaSlot /\ i \in ApSlot /\ i # 0 /\ i \in 0..AP_MAX
      /\ r \in StaRecord /\ StaFine(w, r)
  BY DEF UsedStas, UsedAps, ApSlot, Good, WorldType, Facts
<1>1. /\ SameApTexts(v, w)
      /\ \A k \in StaSlot \ {j} : v.sta[k] = w.sta[k]
      /\ q.mac = r.mac /\ q.last_observed = r.last_observed /\ q.rssi = r.rssi
      /\ IF r.rel_ap = i
         THEN /\ q.rel_ap = i
              /\ q.rel_evidence = IF ev > r.rel_evidence THEN ev ELSE r.rel_evidence
              /\ q.rel_last = IF t >= r.rel_last THEN t ELSE r.rel_last
         ELSE IF Takes(r, ev, t)
         THEN q.rel_ap = i /\ q.rel_evidence = ev /\ q.rel_last = t
         ELSE SameRelation(q, r)
  BY <1>0, RelationEvidenceEffect
<1> HIDE DEF v
<1>2. q.rel_ap \in 0..AP_MAX
  BY <1>0, <1>1 DEF SameRelation, StaRecord
<1>3. StaFine(w, q)
  <2>1. q.rssi \in {q.mac, NonUnicast}
    BY <1>0, <1>1 DEF StaFine
  <2>2. q.rel_evidence = UPLINK => q.rssi = q.mac
    BY <1>0, <1>1 DEF StaFine, SameRelation
  <2>3. q.rel_last <= q.last_observed
    BY <1>0, <1>1 DEF StaFine, SameRelation
  <2>4. q.rel_ap # 0 => w.ap[q.rel_ap].bssid # q.mac
    BY <1>0, <1>1 DEF StaFine, SameRelation
  <2>5. QED
    BY <2>1, <2>2, <2>3, <2>4 DEF StaFine
<1>4. \A k \in StaSlot : v.sta[k] = IF k = j THEN q ELSE w.sta[k]
  BY <1>1
<1>a. \A k \in ApSlot : v.ap[k].used = w.ap[k].used /\ SameApText(v.ap[k], w.ap[k])
  BY <1>1 DEF SameApTexts
<1> HIDE DEF q
<1>5. Facts(v, X)
  BY <1>0, <1>2, <1>3, <1>4, <1>a, StaWrittenFacts
<1>6. QED
  BY <1>5 DEF v

SameStaTexts(v, w) == \A k \in StaSlot : SameStaText(v.sta[k], w.sta[k])

\* The uses made of ApWrittenFacts when every record was fine before.
LEMMA ApRewrittenFacts ==
    ASSUME NEW w, Good(w), NEW i \in ApSlot, Facts(w, {}),
           NEW r, ApFine(r), w.ap[i].used => r.bssid = w.ap[i].bssid,
           NEW v, v.sta = w.sta,
           \A k \in ApSlot : v.ap[k] = IF k = i THEN r ELSE w.ap[k]
    PROVE  Facts(v, {i}) /\ ((SatMax > 0 => ProvFine(r)) => Facts(v, {}))
<1>1. Facts(v, {i})
  <2> DEFINE X == {}
             Y == {i}
  <2>1. Facts(w, X) /\ X \subseteq {i} /\ i \in Y
    OBVIOUS
  <2> HIDE DEF X, Y
  <2>2. Facts(v, Y)
    BY <2>1, ApWrittenFacts
  <2>3. QED
    BY <2>2 DEF Y
<1>2. ASSUME SatMax > 0 => ProvFine(r)
      PROVE  Facts(v, {})
  <2> DEFINE X == {}
  <2>1. Facts(w, X) /\ X \subseteq {i}
    OBVIOUS
  <2> HIDE DEF X
  <2>2. Facts(v, X)
    BY <1>2, <2>1, ApWrittenFacts
  <2>3. QED
    BY <2>2 DEF X
<1>3. QED
  BY <1>1, <1>2

LEMMA CountFacts ==
    ASSUME NEW w, Good(w), NEW X, Facts(w, X), NEW c, NEW n \in Nat
    PROVE  Facts(CountN(w, c, n), X)
BY CountGood DEF SameTables, Facts, StaFine, UsedAps, UsedStas

\* Whoever leaves to make room, and whatever is created, the other records
\* stay as they were.  A strong creation leaves the new AP not provisional
\* although nothing was heard of it yet.
LEMMA ApForFacts ==
    ASSUME NEW w, Good(w), Facts(w, {}), NEW b \in Mac, NEW t \in Times,
           NEW strong \in BOOLEAN
    PROVE  LET a == ApFor(w, b, t, strong)
           IN /\ Facts(a.w, IF strong THEN {a.slot} ELSE {})
              /\ SameStaTexts(a.w, w)
<1> DEFINE a == ApFor(w, b, t, strong)
           V == ApsToLeave(w, t, strong)
           Y == IF strong THEN {a.slot} ELSE {}
           fresh == FreshAp(b, t, strong)
<1> SUFFICES Facts(a.w, Y) /\ SameStaTexts(a.w, w)
  OBVIOUS
<1>1. IF ApsNamed(w, b) # {} THEN a.w = w /\ a.slot \in ApsNamed(w, b)
      ELSE IF V = {} THEN a.slot = 0 /\ Leaves(a.w, w, {}, {}, {})
      ELSE \E A \in V : \E u :
              /\ A \subseteq UsedAps(w) /\ Good(u)
              /\ Leaves(u, w, A, {}, Orphans(w, A))
              /\ ApsNamed(u, b) = {} /\ a.slot \in FreeAps(u)
              /\ \A k \in ApSlot : a.w.ap[k] = IF k = a.slot THEN fresh ELSE u.ap[k]
              /\ a.w.sta = u.sta
  BY ApForCases
<1>2. ApFine(fresh) /\ (~strong => ProvFine(fresh))
  <2>1. ApFine(fresh)
    BY FreshFine
  <2>2. CASE strong = FALSE
    BY <2>1, <2>2, FreshFine
  <2>3. QED
    BY <2>1, <2>2
<1> HIDE DEF a, V, fresh
<1>a. \A v, X : Facts(v, {}) => Facts(v, X)
  BY DEF Facts
<1>3. CASE ApsNamed(w, b) # {}
  BY <1>1, <1>3, <1>a DEF SameStaTexts, SameStaText
<1>4. CASE ApsNamed(w, b) = {} /\ V = {}
  <2>1. Leaves(a.w, w, {}, {}, {})
    BY <1>1, <1>4
  <2>2. Facts(a.w, {})
    BY <2>1, LeavesFacts
  <2>3. QED
    BY <1>a, <2>1, <2>2 DEF SameStaTexts, Leaves
<1>5. CASE ApsNamed(w, b) = {} /\ V # {}
  <2>1. PICK A, u :
              /\ A \in V /\ A \subseteq UsedAps(w) /\ Good(u)
              /\ Leaves(u, w, A, {}, Orphans(w, A))
              /\ ApsNamed(u, b) = {} /\ a.slot \in FreeAps(u)
              /\ \A k \in ApSlot : a.w.ap[k] = IF k = a.slot THEN fresh ELSE u.ap[k]
              /\ a.w.sta = u.sta
    BY <1>1, <1>5
  <2>2. Facts(u, {})
    BY <2>1, LeavesFacts
  <2>3. a.slot \in ApSlot /\ ~u.ap[a.slot].used
    BY <2>1 DEF FreeAps
  <2>4. a.slot \in Y \/ (SatMax > 0 => ProvFine(fresh))
    BY <1>2
  <2> HIDE DEF Y
  <2> DEFINE v == a.w
             i == a.slot
  <2>5. /\ v.sta = u.sta /\ i \in ApSlot
        /\ i \in Y \/ (SatMax > 0 => ProvFine(fresh))
        /\ \A k \in ApSlot : v.ap[k] = IF k = i THEN fresh ELSE u.ap[k]
        /\ u.ap[i].used => fresh.bssid = u.ap[i].bssid
    BY <2>1, <2>3, <2>4
  <2>6. SameStaTexts(v, w)
    BY <2>1 DEF SameStaTexts, Leaves
  <2> HIDE DEF v, i
  <2>7. Facts(v, {i}) /\ ((SatMax > 0 => ProvFine(fresh)) => Facts(v, {}))
    BY <1>2, <2>1, <2>2, <2>5, ApRewrittenFacts
  <2>8. Facts(v, Y)
    <3>1. CASE strong = TRUE
      BY <2>7, <3>1 DEF Y, i
    <3>2. CASE strong = FALSE
      BY <1>2, <2>7, <3>2 DEF Y
    <3>3. QED
      BY <3>1, <3>2
  <2>9. QED
    BY <2>6, <2>8 DEF v
<1>6. QED
  BY <1>3, <1>4, <1>5

LEMMA StaForFacts ==
    ASSUME NEW w, Good(w), Facts(w, {}), NEW m \in Mac, NEW t \in Times,
           NEW strong \in BOOLEAN
    PROVE  LET a == StaFor(w, m, t, strong)
           IN /\ Facts(a.w, {})
              /\ \A k \in ApSlot : SameApText(a.w.ap[k], w.ap[k])
              /\ (a.slot # 0 /\ ~StaIsNewer(w, m, t)) =>
                    a.w.sta[a.slot].last_observed <= t
<1> DEFINE a == StaFor(w, m, t, strong)
           V == StasToLeave(w, t, strong)
           fresh == FreshSta(m, t)
<1> SUFFICES /\ Facts(a.w, {})
             /\ \A k \in ApSlot : SameApText(a.w.ap[k], w.ap[k])
             /\ (a.slot # 0 /\ ~StaIsNewer(w, m, t)) =>
                   a.w.sta[a.slot].last_observed <= t
  OBVIOUS
<1>1. IF StasNamed(w, m) # {} THEN a.w = w /\ a.slot \in StasNamed(w, m)
      ELSE IF V = {} THEN a.slot = 0 /\ Leaves(a.w, w, {}, {}, {})
      ELSE \E A \in V : \E u :
              /\ A \subseteq UsedStas(w) /\ Good(u)
              /\ Leaves(u, w, {}, A, A)
              /\ StasNamed(u, m) = {} /\ a.slot \in FreeStas(u)
              /\ \A k \in StaSlot : a.w.sta[k] = IF k = a.slot THEN fresh ELSE u.sta[k]
              /\ a.w.ap = u.ap
  BY StaForCases
<1>2. /\ fresh.last_observed = t /\ fresh.rel_ap = 0
      /\ \A u : StaFine(u, fresh)
  BY FreshFine, FreshStaFields
<1>t. t \in Nat
  BY DEF Times
<1> HIDE DEF a, V, fresh
<1>3. CASE StasNamed(w, m) # {}
  <2>1. a.w = w /\ a.slot \in StasNamed(w, m)
    BY <1>1, <1>3
  <2>2. w.sta[a.slot].last_observed \in Nat
    BY <2>1 DEF StasNamed, Good, WorldType, StaRecord, Times
  <2>3. ~StaIsNewer(w, m, t) => w.sta[a.slot].last_observed <= t
    BY <1>t, <2>1, <2>2 DEF StaIsNewer
  <2>4. QED
    BY <2>1, <2>3 DEF SameApText
<1>4. CASE StasNamed(w, m) = {} /\ V = {}
  <2>1. Leaves(a.w, w, {}, {}, {}) /\ a.slot = 0
    BY <1>1, <1>4
  <2>2. Facts(a.w, {})
    BY <2>1, LeavesFacts
  <2>3. QED
    BY <2>1, <2>2 DEF Leaves
<1>5. CASE StasNamed(w, m) = {} /\ V # {}
  <2>1. PICK A, u :
              /\ A \in V /\ A \subseteq UsedStas(w) /\ Good(u)
              /\ Leaves(u, w, {}, A, A)
              /\ StasNamed(u, m) = {} /\ a.slot \in FreeStas(u)
              /\ \A k \in StaSlot : a.w.sta[k] = IF k = a.slot THEN fresh ELSE u.sta[k]
              /\ a.w.ap = u.ap
    BY <1>1, <1>5
  <2>2. Facts(u, {})
    BY <2>1, LeavesFacts
  <2> DEFINE v == a.w
             i == a.slot
  <2>3. /\ i \in StaSlot /\ StaFine(u, fresh) /\ fresh.rel_ap \in 0..AP_MAX
        /\ \A k \in StaSlot : v.sta[k] = IF k = i THEN fresh ELSE u.sta[k]
        /\ \A k \in ApSlot : v.ap[k].used = u.ap[k].used /\ SameApText(v.ap[k], u.ap[k])
    BY <1>2, <2>1, TableAssumption DEF FreeStas, SameApText
  <2>4. \A k \in ApSlot : SameApText(v.ap[k], w.ap[k])
    BY <2>1 DEF Leaves
  <2>5. v.sta[i].last_observed <= t
    BY <1>2, <1>t, <2>3
  <2> HIDE DEF v, i
  <2>6. Facts(v, {})
    BY <2>1, <2>2, <2>3, StaWrittenFacts
  <2>7. QED
    BY <2>4, <2>5, <2>6 DEF v, i
<1>6. QED
  BY <1>3, <1>4, <1>5

-----------------------------------------------------------------------------
(* The handlers keep the facts *)

LEMMA ApObservedFacts ==
    ASSUME NEW w, Good(w), Facts(w, {}), NEW b \in Mac, NEW t \in Times, NEW o \in Obs
    PROVE  Facts(ap_observed(w, b, t, b, o), {})
<1> DEFINE a == ApFor(w, b, t, TRUE)
           r == a.w.ap[a.slot]
           q == ApSpoke(r, t, b, o)
           v == [a.w EXCEPT !.ap[a.slot] = q]
<1>1. Good(a.w) /\ a.slot \in UsedAps(a.w) /\ r.bssid = b
  BY ApForGood
<1>2. Facts(a.w, {a.slot})
  <2>1. Facts(a.w, IF TRUE THEN {a.slot} ELSE {})
    BY ApForFacts
  <2>2. QED
    BY <2>1
<1>3. ap_observed(w, b, t, b, o) = v
  BY DEF ap_observed
<1> HIDE DEF a
<1>4. a.w \in WorldType /\ a.slot \in ApSlot /\ r \in ApRecord /\ ApFine(r)
  BY <1>1, <1>2 DEF Good, WorldType, UsedAps, Facts
<1>5. q.bssid = r.bssid /\ ApFine(q) /\ (SatMax > 0 => ProvFine(q))
  BY <1>1, <1>4, SpokenFine, ApSpokeFields
<1> HIDE DEF q, r
<1>6. v.sta = a.w.sta /\ \A k \in ApSlot : v.ap[k] = IF k = a.slot THEN q ELSE a.w.ap[k]
  BY <1>4 DEF WorldType
<1>7. q.bssid = a.w.ap[a.slot].bssid
  BY <1>5 DEF r
<1> HIDE DEF v
<1>8. QED
  BY <1>1, <1>2, <1>3, <1>4, <1>5, <1>6, <1>7, ApWrittenFacts

LEMMA StaNotedFacts ==
    ASSUME NEW w, Good(w), Facts(w, {}), NEW m \in Mac, NEW t \in Times,
           NEW probe \in BOOLEAN, ~StaIsNewer(w, m, t)
    PROVE  Facts(sta_noted(w, m, t, m, probe), {})
<1> DEFINE st == StaFor(w, m, t, TRUE)
           r == st.w.sta[st.slot]
           heard == StaSpoke(r, t, m)
           q == IF probe THEN StaProbed(heard) ELSE heard
           v == [st.w EXCEPT !.sta[st.slot] = q]
<1>1. Good(st.w) /\ st.slot \in UsedStas(st.w) /\ r.mac = m /\ st.slot # 0
  BY StaForGood
<1>2. Facts(st.w, {}) /\ r.last_observed <= t
  BY <1>1, StaForFacts
<1>3. sta_noted(w, m, t, m, probe) = v
  BY DEF sta_noted
<1> HIDE DEF st
<1>4. /\ st.w \in WorldType /\ st.slot \in StaSlot /\ r \in StaRecord
      /\ StaFine(st.w, r) /\ r.rel_ap \in 0..AP_MAX
      /\ t \in Nat /\ r.last_observed \in Nat /\ r.rel_last \in Nat /\ m \in Address
  BY <1>1, <1>2 DEF Good, WorldType, UsedStas, Facts, StaRecord, Times, Address
<1> HIDE DEF r
<1>5. /\ heard.mac = r.mac /\ heard.last_observed = t /\ heard.rssi = m
      /\ SameRelation(heard, r) /\ heard \in StaRecord
  BY <1>4, StaSpokeFields, StaSpokeRefreshes DEF StaRefreshed
<1> HIDE DEF heard
<1>6. /\ q.mac = m /\ q.last_observed = t /\ q.rssi = m /\ SameRelation(q, r)
  BY <1>1, <1>5, StaSpokeFields DEF SameStaText, SameRelation
<1> HIDE DEF q
<1>7. StaFine(st.w, q) /\ q.rel_ap \in 0..AP_MAX
  BY <1>1, <1>2, <1>4, <1>6 DEF StaFine, SameRelation
<1>8. /\ \A k \in ApSlot : v.ap[k].used = st.w.ap[k].used /\ SameApText(v.ap[k], st.w.ap[k])
      /\ \A k \in StaSlot : v.sta[k] = IF k = st.slot THEN q ELSE st.w.sta[k]
  BY <1>4 DEF WorldType, SameApText
<1> HIDE DEF v
<1>9. QED
  BY <1>1, <1>2, <1>3, <1>4, <1>7, <1>8, StaWrittenFacts

LEMMA DataUplinkFacts ==
    ASSUME NEW w, Good(w), Facts(w, {}), NEW s \in Mac, NEW b \in Mac, s # b,
           NEW t \in Times, ~StaIsNewer(w, s, t)
    PROVE  Facts(data_uplink(w, s, b, t, s), {})
<1> DEFINE st == StaFor(w, s, t, TRUE)
           j == st.slot
           r == st.w.sta[j]
           p == StaSpoke(r, t, s)
           heard == [st.w EXCEPT !.sta[j] = p]
           a == ApFor(heard, b, t, FALSE)
           i == a.slot
           g == a.w.ap[i]
           q == ApReached(g)
           v == [a.w EXCEPT !.ap[i] = q]
<1>1. Good(st.w) /\ j \in UsedStas(st.w) /\ r.mac = s /\ j # 0
  BY StaForGood
<1>2. Facts(st.w, {}) /\ r.last_observed <= t
  BY <1>1, StaForFacts
<1>3. data_uplink(w, s, b, t, s) =
         IF i = 0 THEN a.w ELSE relation_evidence(v, j, i, UPLINK, t)
  BY DEF data_uplink
<1> HIDE DEF st
<1>4. /\ st.w \in WorldType /\ j \in StaSlot /\ r \in StaRecord
      /\ StaFine(st.w, r) /\ r.rel_ap \in 0..AP_MAX
      /\ t \in Nat /\ r.last_observed \in Nat /\ r.rel_last \in Nat /\ s \in Address
  BY <1>1, <1>2 DEF Good, WorldType, UsedStas, Facts, StaRecord, Times, Address
<1>a. r = st.w.sta[j]
  OBVIOUS
<1> HIDE DEF r
<1>5. /\ p.mac = s /\ p.last_observed = t /\ p.rssi = s /\ SameRelation(p, r)
      /\ StaRefreshed(p, st.w.sta[j])
  BY <1>1, <1>4, <1>a, StaSpokeFields, StaSpokeRefreshes
<1> HIDE DEF p
<1>6. StaFine(st.w, p) /\ p.rel_ap \in 0..AP_MAX
  BY <1>1, <1>2, <1>4, <1>5 DEF StaFine, SameRelation
<1>7. /\ \A k \in ApSlot : heard.ap[k].used = st.w.ap[k].used
                           /\ SameApText(heard.ap[k], st.w.ap[k])
      /\ \A k \in StaSlot : heard.sta[k] = IF k = j THEN p ELSE st.w.sta[k]
  BY <1>4 DEF WorldType, SameApText
<1>8. Good(heard) /\ SameStas(heard, st.w)
  BY <1>1, <1>5, RefreshStaGood
<1> HIDE DEF heard
<1>9. Facts(heard, {})
  BY <1>1, <1>2, <1>4, <1>6, <1>7, StaWrittenFacts
<1>10. /\ Good(a.w) /\ SameStas(a.w, heard)
       /\ i # 0 => i \in UsedAps(a.w) /\ g.bssid = b
  BY <1>8, ApForGood
<1>11. Facts(a.w, {}) /\ SameStaTexts(a.w, heard)
  <2>1. Facts(a.w, IF FALSE THEN {a.slot} ELSE {}) /\ SameStaTexts(a.w, heard)
    BY <1>8, <1>9, ApForFacts
  <2>2. QED
    BY <2>1
<1>12. j \in UsedStas(a.w)
  BY <1>1, <1>8, <1>10, StillUsed
<1>13. /\ a.w.sta[j].mac = s /\ a.w.sta[j].last_observed = t /\ a.w.sta[j].rssi = s
  BY ZenonT(40), <1>4, <1>5, <1>7, <1>11 DEF SameStaTexts, SameStaText
<1>b. g = a.w.ap[i]
  OBVIOUS
<1> HIDE DEF a, i, g
<1>14. ASSUME i # 0
       PROVE  Facts(relation_evidence(v, j, i, UPLINK, t), {})
  <2>1. i \in UsedAps(a.w) /\ g.bssid = b /\ g \in ApRecord /\ a.w \in WorldType
        /\ i \in ApSlot
    BY <1>10, <1>14, <1>b DEF Good, WorldType, UsedAps
  <2>2. SatInc(g.data_up_count) \in 0..SatMax
    BY <2>1, SatIncType DEF ApRecord
  <2>3. ApRefreshed(q, g) /\ SameApText(q, g)
    BY <2>1, <2>2, ApFields, ApReachedFields DEF ApReached
  <2>4. ApFine(g) /\ (SatMax > 0 => ProvFine(g))
    BY <1>11, <1>b, <2>1 DEF Facts
  <2>5. ApFine(q) /\ (SatMax > 0 => ProvFine(q)) /\ q.bssid = a.w.ap[i].bssid
    BY <1>b, <2>3, <2>4 DEF SameApText, ApFine, ProvFine
  <2> HIDE DEF q
  <2>6. Good(v) /\ SameAps(v, a.w) /\ SameStas(v, a.w)
    BY <1>10, <1>b, <2>1, <2>3, RefreshApGood
  <2>7. v.sta = a.w.sta /\ \A k \in ApSlot : v.ap[k] = IF k = i THEN q ELSE a.w.ap[k]
    BY <2>1 DEF WorldType
  <2> HIDE DEF v
  <2>8. Facts(v, {})
    BY <1>10, <1>11, <2>1, <2>5, <2>7, ApRewrittenFacts
  <2>9. j \in UsedStas(v) /\ i \in UsedAps(v)
    BY <1>12, <2>1, <2>6, StillUsed
  <2>10. /\ t <= v.sta[j].last_observed /\ v.ap[i].bssid # v.sta[j].mac
         /\ v.sta[j].rssi = v.sta[j].mac
    BY <1>4, <1>13, <1>b, <2>1, <2>5, <2>7
  <2>11. QED
    BY <2>6, <2>8, <2>9, <2>10, RelationEvidenceFacts
<1>15. QED
  BY <1>3, <1>11, <1>14

LEMMA DownlinkDestFacts ==
    ASSUME NEW w, Good(w), Facts(w, {}), NEW i \in UsedAps(w), NEW d \in Mac,
           NEW t \in Times, ~StaIsNewer(w, d, t), w.ap[i].bssid # d
    PROVE  Facts(downlink_dest(w, i, d, t), {})
<1> DEFINE st == StaFor(w, d, t, FALSE)
           j == st.slot
           r == st.w.sta[j]
           q == StaAddressed(r, t)
           v == [st.w EXCEPT !.sta[j] = q]
<1>1. /\ Good(st.w) /\ SameAps(st.w, w)
      /\ j # 0 => j \in UsedStas(st.w) /\ r.mac = d
  BY StaForGood
<1>2. /\ Facts(st.w, {}) /\ \A k \in ApSlot : SameApText(st.w.ap[k], w.ap[k])
      /\ j # 0 => r.last_observed <= t
  BY StaForFacts
<1>3. downlink_dest(w, i, d, t) =
         IF j = 0 THEN st.w ELSE relation_evidence(v, j, i, DOWNLINK, t)
  BY DEF downlink_dest
<1>a. r = st.w.sta[j]
  OBVIOUS
<1> HIDE DEF st, j
<1>4. ASSUME j # 0
      PROVE  Facts(relation_evidence(v, j, i, DOWNLINK, t), {})
  <2>1. /\ st.w \in WorldType /\ j \in StaSlot /\ r \in StaRecord /\ i \in ApSlot
        /\ StaFine(st.w, r) /\ r.rel_ap \in 0..AP_MAX
        /\ t \in Nat /\ r.last_observed \in Nat /\ r.rel_last \in Nat
    BY <1>1, <1>2, <1>4 DEF Good, WorldType, UsedStas, UsedAps, Facts, StaRecord, Times
  <2> HIDE DEF r
  <2>2. /\ q.mac = d /\ q.last_observed = t /\ q.rssi = r.rssi /\ SameRelation(q, r)
        /\ StaRefreshed(q, st.w.sta[j])
    BY <1>1, <1>4, <1>a, <2>1, StaSpokeFields, StaSpokeRefreshes, AddressAssumption
    DEF Address
  <2> HIDE DEF q
  <2>3. StaFine(st.w, q) /\ q.rel_ap \in 0..AP_MAX
    BY <1>1, <1>2, <1>4, <2>1, <2>2 DEF StaFine, SameRelation
  <2>4. Good(v) /\ SameAps(v, st.w) /\ SameStas(v, st.w)
    BY <1>1, <1>4, <2>2, RefreshStaGood
  <2>5. /\ \A k \in ApSlot : v.ap[k].used = st.w.ap[k].used
                             /\ SameApText(v.ap[k], st.w.ap[k])
        /\ \A k \in StaSlot : v.sta[k] = IF k = j THEN q ELSE st.w.sta[k]
    BY <2>1 DEF WorldType, SameApText
  <2> HIDE DEF v
  <2>6. Facts(v, {})
    BY <1>1, <1>2, <2>1, <2>3, <2>5, StaWrittenFacts
  <2>7. j \in UsedStas(v) /\ i \in UsedAps(v)
    BY <1>1, <1>4, <2>4, StillUsed
  <2>8. t <= v.sta[j].last_observed /\ v.ap[i].bssid # v.sta[j].mac
    BY <1>2, <2>1, <2>2, <2>5 DEF SameApText
  <2>9. DOWNLINK # UPLINK
    BY DEF DOWNLINK, UPLINK
  <2>10. QED
    BY <2>4, <2>6, <2>7, <2>8, <2>9, RelationEvidenceFacts
<1>5. QED
  BY <1>2, <1>3, <1>4

LEMMA DataDownlinkFacts ==
    ASSUME NEW w, Good(w), Facts(w, {}), NEW b \in Mac, NEW d, NEW t \in Times
    PROVE  Facts(data_downlink(w, b, d, t, b), {})
<1> DEFINE a == ApFor(w, b, t, FALSE)
           i == a.slot
           g == a.w.ap[i]
           q == ApRelayed(g, t, b)
           heard == [a.w EXCEPT !.ap[i] = q]
<1>1. Good(a.w) /\ (i # 0 => i \in UsedAps(a.w) /\ g.bssid = b)
  BY ApForGood
<1>2. Facts(a.w, {})
  <2>1. Facts(a.w, IF FALSE THEN {a.slot} ELSE {})
    BY ApForFacts
  <2>2. QED
    BY <2>1
<1>3. data_downlink(w, b, d, t, b) =
         IF i = 0 THEN a.w
         ELSE IF d \notin Mac \/ d = b \/ StaIsNewer(heard, d, t) THEN heard
         ELSE downlink_dest(heard, i, d, t)
  BY DEF data_downlink
<1>a. g = a.w.ap[i]
  OBVIOUS
<1> HIDE DEF a, i, g
<1>4. ASSUME i # 0
      PROVE  Good(heard) /\ Facts(heard, {}) /\ i \in UsedAps(heard) /\ heard.ap[i].bssid = b
  <2>1. i \in UsedAps(a.w) /\ g.bssid = b /\ g \in ApRecord /\ a.w \in WorldType
        /\ i \in ApSlot /\ b \in Address
    BY <1>1, <1>4, <1>a DEF Good, WorldType, UsedAps, Address
  <2>2. /\ ApRefreshed(q, a.w.ap[i]) /\ q.bssid = b /\ q.rssi = b
        /\ q.provisional = g.provisional /\ q.ssid = g.ssid
        /\ q.channel = g.channel /\ q.sec = g.sec
        /\ q.beacon_count = g.beacon_count
        /\ q.probe_resp_count = g.probe_resp_count
    BY <1>a, <2>1, ApRelayedRefreshes, ApRelayedFields
  <2>3. ApFine(g) /\ (SatMax > 0 => ProvFine(g))
    BY <1>2, <1>a, <2>1 DEF Facts
  <2>4. ApFine(q) /\ (SatMax > 0 => ProvFine(q)) /\ q.bssid = a.w.ap[i].bssid
    BY <1>a, <2>1, <2>2, <2>3 DEF ApFine, ProvFine
  <2> HIDE DEF q
  <2>5. Good(heard) /\ SameAps(heard, a.w)
    BY <1>1, <2>1, <2>2, RefreshApGood
  <2>6. heard.sta = a.w.sta
        /\ \A k \in ApSlot : heard.ap[k] = IF k = i THEN q ELSE a.w.ap[k]
    BY <2>1 DEF WorldType
  <2> HIDE DEF heard
  <2>7. Facts(heard, {})
    BY <1>1, <1>2, <2>1, <2>4, <2>6, ApRewrittenFacts
  <2>8. i \in UsedAps(heard)
    BY <2>1, <2>5, StillUsed
  <2>9. QED
    BY <2>1, <2>2, <2>5, <2>6, <2>7, <2>8
<1> HIDE DEF heard
<1>5. ASSUME i # 0, d \in Mac, d # b, ~StaIsNewer(heard, d, t)
      PROVE  Facts(downlink_dest(heard, i, d, t), {})
  BY <1>4, <1>5, DownlinkDestFacts
<1>6. QED
  BY <1>2, <1>3, <1>4, <1>5

LEMMA MaintainedFacts ==
    ASSUME NEW w, Good(w), Facts(w, {}), NEW t \in Times
    PROVE  Facts(maintained(w, t), {})
<1> DEFINE x == sweep_expired_aps(w, t)
           y == sweep_expired_rels(x, t)
           z == sweep_expired_stas(y, t)
<1>1. Good(x) /\ Facts(x, {})
  BY SweepApsGood, SweepApsLeaves, LeavesFacts
<1> HIDE DEF x
<1>2. Good(y) /\ Facts(y, {})
  BY <1>1, SweepRelsGood, SweepRelsLeaves, LeavesFacts
<1> HIDE DEF y
<1>3. Good(z) /\ Facts(z, {})
  BY <1>2, SweepStasGood, SweepStasLeaves, LeavesFacts
<1>4. maintained(w, t) = CountN(z, "maint_runs", 1)
  BY DEF maintained, Count, x, y
<1> HIDE DEF z
<1>5. QED
  BY <1>3, <1>4, CountFacts

-----------------------------------------------------------------------------
(* What every record says of its AP or station, in every reachable state *)

FInv == IInv /\ Facts(world, {})

LEMMA InitFInv == Init => FInv
<1>1. UsedAps(world_init) = {} /\ UsedStas(world_init) = {}
  BY DEF world_init, ZeroAp, ZeroSta, UsedAps, UsedStas
<1>2. Facts(world_init, {})
  BY <1>1 DEF Facts
<1>3. QED
  BY <1>2, InitIInv DEF Init, FInv

LEMMA NextFInv == FInv /\ [Next]_vars => FInv'
<1> SUFFICES ASSUME FInv, [Next]_vars
             PROVE  Facts(world', {})
  BY NextIInv DEF FInv
<1>0. Good(world) /\ now \in Times /\ Facts(world, {})
  BY DEF FInv, IInv
<1>a. \A c : Facts(Count(world, c), {})
  BY <1>0, CountFacts DEF Count
<1>1. CASE Clock
  BY <1>0, <1>1 DEF Clock
<1>2. ASSUME NEW b \in Address, NEW o \in Obs, world_on_ap_observation(b, o)
      PROVE  Facts(world', {})
  BY <1>0, <1>2, <1>a, ApObservedFacts DEF world_on_ap_observation
<1>3. ASSUME NEW s \in Address, NEW b \in Address, world_on_uplink(s, b)
      PROVE  Facts(world', {})
  BY <1>0, <1>3, <1>a, DataUplinkFacts DEF world_on_uplink
<1>4. ASSUME NEW b \in Address, NEW d \in Address, world_on_downlink(b, d)
      PROVE  Facts(world', {})
  BY <1>0, <1>4, <1>a, DataDownlinkFacts DEF world_on_downlink
<1>5. ASSUME NEW kind, world_on_unusable_data(kind)
      PROVE  Facts(world', {})
  BY <1>5, <1>a DEF world_on_unusable_data
<1>6. ASSUME NEW m \in Address, NEW probe \in BOOLEAN, world_on_sta_tx(m, probe)
      PROVE  Facts(world', {})
  BY <1>0, <1>6, <1>a, StaNotedFacts DEF world_on_sta_tx
<1>7. CASE world_maintenance
  BY <1>0, <1>7, MaintainedFacts DEF world_maintenance
<1>8. CASE UNCHANGED vars
  BY <1>0, <1>8 DEF vars
<1>9. QED
  BY <1>1, <1>2, <1>3, <1>4, <1>5, <1>6, <1>7, <1>8 DEF Next

LEMMA SpecFInv == Spec => []FInv
BY InitFInv, NextFInv, PTL DEF Spec

\* A stored level is that of the record's own transmitter, and only a station
\* that was heard is held by uplink evidence, however observations of APs, of
\* stations and of destinations interleave with evictions and expiry.
THEOREM LevelsStayOwned == Spec => []SignalOwnership
<1>1. FInv => SignalOwnership
  BY DEF FInv, Facts, ApFine, StaFine, SignalOwnership
<1>2. QED
  BY SpecFInv, <1>1, PTL

\* A relation is never younger than its station and never joins an address to
\* itself, not even when the clock of a caller runs backwards.
THEOREM RelationsStayPlausible == Spec => []RelationsPlausible
<1>1. FInv => RelationsPlausible
  BY DEF FInv, Facts, StaFine, RelationsPlausible
<1>2. QED
  BY SpecFInv, <1>1, PTL

\* The security verdict of an AP agrees with the suites and the privacy bit
\* stored beside it, after any sequence of whole and cut frames.
THEOREM VerdictsAgree == Spec => []SecurityAgrees
<1>1. FInv => SecurityAgrees
  BY DEF FInv, Facts, ApFine, SecFine, SecurityAgrees
<1>2. QED
  BY SpecFInv, <1>1, PTL

\* An AP is provisional as long as none of its beacons or probe responses was
\* counted, provided that the counters can count at all (UINT16_MAX in C).
THEOREM ProvisionalAlwaysUnheard ==
    ASSUME SatMax > 0
    PROVE  Spec => []ProvisionalMeansUnheard
<1>1. FInv => ProvisionalMeansUnheard
  BY SatMax > 0 DEF FInv, Facts, ProvFine, ProvisionalMeansUnheard
<1>2. QED
  BY SpecFInv, <1>1, PTL

\* One protocol of a cut frame: what is stored is replaced, never cleared.
LEMMA CutSuiteKept ==
    ASSUME NEW old, NEW seen
    PROVE  LET new == MergeSuite(old, seen, FALSE)
           IN /\ new = old \/ new \in Suite
              /\ old # NoSuite => new # NoSuite
BY SuiteAssumption DEF MergeSuite

\* Merging the elements of a cut frame clears no suite and reaches no verdict
\* but "known".
LEMMA CutSecurityKept ==
    ASSUME NEW sec \in Security, NEW o \in Observation, ~o.complete
    PROVE  LET new == MergeSecurity(sec, o)
           IN /\ sec.rsn # NoSuite => new.rsn # NoSuite
              /\ sec.wpa # NoSuite => new.wpa # NoSuite
              /\ sec.state # new.state => new.state = "known"
<1> DEFINE new == MergeSecurity(sec, o)
           rsn == MergeSuite(sec.rsn, o.rsn, FALSE)
           wpa == MergeSuite(sec.wpa, o.wpa, FALSE)
           state == IF rsn # NoSuite \/ wpa # NoSuite THEN "known" ELSE sec.state
<1>1. o.complete = FALSE
  BY DEF Observation
<1>2. new = [rsn |-> rsn, wpa |-> wpa, privacy |-> o.privacy, state |-> state] \/ new = sec
  BY <1>1 DEF MergeSecurity
<1>3. /\ sec.rsn # NoSuite => rsn # NoSuite
      /\ sec.wpa # NoSuite => wpa # NoSuite
  BY CutSuiteKept
<1> HIDE DEF new, rsn, wpa
<1>4. /\ sec.rsn # NoSuite => new.rsn # NoSuite
      /\ sec.wpa # NoSuite => new.wpa # NoSuite
      /\ sec.state # new.state => new.state = "known"
  BY <1>2, <1>3
<1>5. QED
  BY <1>4 DEF new

\* Whatever an AP's record holds, applying a cut frame of that AP to it takes
\* back no suite, no name and no "known" verdict.
THEOREM CutFramesNeverForget == Spec => []CutFramesOnlyAdd
<1>1. IInv => CutFramesOnlyAdd
  <2> SUFFICES ASSUME IInv, NEW i \in UsedAps(world), NEW o \in Obs, ~o.complete
               PROVE  LET old == world.ap[i]
                          new == ApSpoke(old, now, old.bssid, o)
                      IN /\ new.ssid = old.ssid
                         /\ old.sec.rsn # NoSuite => new.sec.rsn # NoSuite
                         /\ old.sec.wpa # NoSuite => new.sec.wpa # NoSuite
                         /\ old.sec.state # new.sec.state => new.sec.state = "known"
    BY DEF CutFramesOnlyAdd
  <2> DEFINE old == world.ap[i]
             b == old.bssid
             new == ApSpoke(old, now, b, o)
  <2>1. old \in ApRecord /\ now \in Times /\ o \in Observation
    BY ObsAssumption DEF IInv, Good, WorldType, UsedAps
  <2>2. old.sec \in Security /\ b \in Address /\ o.complete = FALSE
    BY <2>1 DEF ApRecord, Observation
  <2> HIDE DEF old, b
  <2>3. new.sec = MergeSecurity(old.sec, o)
    BY <2>1, <2>2, ApSpokeFields
  <2>4. new.ssid = old.ssid
    BY <2>1, <2>2 DEF ApSpoke, ApRecord
  <2>5. /\ old.sec.rsn # NoSuite => new.sec.rsn # NoSuite
        /\ old.sec.wpa # NoSuite => new.sec.wpa # NoSuite
        /\ old.sec.state # new.sec.state => new.sec.state = "known"
    BY <2>1, <2>2, <2>3, CutSecurityKept
  <2>6. QED
    BY <2>4, <2>5 DEF old, b
<1>2. QED
  BY SpecIInv, <1>1, PTL

-----------------------------------------------------------------------------
(* Arithmetic of counters that wrap *)

LEMMA DivModFacts ==
    ASSUME NEW M \in Nat \ {0}, NEW a \in Int
    PROVE  /\ a % M \in 0..(M - 1) /\ a \div M \in Int
           /\ a = M * (a \div M) + (a % M)
  OBVIOUS

\* A multiple of M other than zero is not near zero.
LEMMA Below ==
    ASSUME NEW M \in Nat \ {0}, NEW k \in Int, k # 0, NEW d \in Int, d = M * k
    PROVE  d >= M \/ d <= -M
<1>1. CASE k >= 1
  <2>1. M * k >= M
    BY <1>1
  <2>2. QED
    BY <2>1
<1>2. CASE k <= -1
  <2>1. M * k <= -M
    BY <1>2
  <2>2. QED
    BY <2>1
<1>3. QED
  BY <1>1, <1>2

\* A remainder is known from any division that leaves it.
LEMMA ModUnique ==
    ASSUME NEW M \in Nat \ {0}, NEW a \in Int, NEW q \in Int, NEW r \in 0..(M - 1),
           a = M * q + r
    PROVE  a % M = r
<1> DEFINE q2 == a \div M
           r2 == a % M
<1>1. r2 \in 0..(M-1) /\ q2 \in Int /\ a = M * q2 + r2
  BY DivModFacts
<1> HIDE DEF q2, r2
<1>2. M * (q - q2) = r2 - r
  <2>1. M * (q - q2) = M * q - M * q2
    BY <1>1
  <2>2. M * q \in Int /\ M * q2 \in Int
    BY <1>1
  <2>3. QED
    BY <1>1, <2>1, <2>2
<1>3. q - q2 = 0
  <2>1. SUFFICES ASSUME q - q2 # 0 PROVE FALSE
    OBVIOUS
  <2>2. q - q2 \in Int
    BY <1>1
  <2>3. r2 - r >= M \/ r2 - r <= -M
    BY <1>1, <1>2, <2>1, <2>2, Below
  <2>4. QED
    BY <1>1, <2>3
<1>4. r2 = r
  BY <1>1, <1>2, <1>3
<1>5. QED
  BY <1>4 DEF r2

\* A summand may be reduced first.
LEMMA ModAdd ==
    ASSUME NEW M \in Nat \ {0}, NEW a \in Int, NEW b \in Int
    PROVE  (a + (b % M)) % M = (a + b) % M
<1> DEFINE rb == b % M
           qb == b \div M
           s == a + rb
           qs == s \div M
           rs == s % M
<1>1. rb \in 0..(M-1) /\ qb \in Int /\ b = M * qb + rb
  BY DivModFacts
<1> HIDE DEF rb, qb
<1>2. s \in Int
  BY <1>1
<1>3. rs \in 0..(M-1) /\ qs \in Int /\ s = M * qs + rs
  BY <1>2, DivModFacts
<1> HIDE DEF rs, qs
<1>4. a + b = M * (qs + qb) + rs
  <2>1. M * (qs + qb) = M * qs + M * qb
    BY <1>1, <1>3
  <2>2. M * qs \in Int /\ M * qb \in Int
    BY <1>1, <1>3
  <2>3. QED
    BY <1>1, <1>3, <2>1, <2>2
<1>a. a + b \in Int /\ qs + qb \in Int
  BY <1>1, <1>3
<1> HIDE DEF s
<1>5. (a + b) % M = rs
  BY <1>3, <1>4, <1>a, ModUnique
<1>6. QED
  BY <1>5 DEF rs, rb, s

-----------------------------------------------------------------------------
(* Every creation is accounted for *)

Ledger(w, created, used, expired, evicted) ==
    {created, expired, evicted} \subseteq Tracked =>
        w.stats[created] = (used + w.stats[expired] + w.stats[evicted]) % CounterMod

Accounted(w) ==
    /\ Ledger(w, "ap_created", w.ap_used, "ap_expired", "ap_evicted")
    /\ Ledger(w, "sta_created", w.sta_used, "sta_expired", "sta_evicted")

\* What a ledger's columns add up to; a statistic that wraps.
Total(used, x, y) == (used + x + y) % CounterMod
Wrapped(a) == a % CounterMod

LEMMA WrappedTwice ==
    ASSUME NEW a \in Int, NEW b \in Int
    PROVE  Wrapped(a + Wrapped(b)) = Wrapped(a + b) /\ Wrapped(b) \in Int
<1> DEFINE M == CounterMod
<1>1. M \in Nat \ {0}
  BY CounterAssumption
<1> HIDE DEF M
<1>2. (a + (b % M)) % M = (a + b) % M
  BY <1>1, ModAdd
<1>3. (b % M) \in Int
  BY <1>1
<1>4. QED
  BY <1>2, <1>3 DEF M, Wrapped

\* The arithmetic of a ledger whose columns wrap: what leaves one column for
\* another does not change the total, and an arrival adds one to it.
LEMMA MovedTotal ==
    ASSUME NEW used \in Int, NEW x \in Int, NEW y \in Int,
           NEW used2 \in Int, NEW x2 \in Int, x2 = Wrapped(x + (used - used2))
    PROVE  Total(used2, x2, y) = Total(used, x, y)
<1> DEFINE a == used2 + y
           b == x + (used - used2)
<1>1. a \in Int /\ b \in Int /\ a + b = used + x + y /\ x2 = Wrapped(b)
      /\ a + x2 = used2 + x2 + y
  OBVIOUS
<1> HIDE DEF a, b
<1>2. Wrapped(a + Wrapped(b)) = Wrapped(a + b)
  BY <1>1, WrappedTwice
<1>3. Wrapped(used2 + x2 + y) = Wrapped(used + x + y)
  BY <1>1, <1>2
<1>4. QED
  BY <1>3 DEF Total, Wrapped

LEMMA TotalSwaps ==
    ASSUME NEW used \in Int, NEW x \in Int, NEW y \in Int
    PROVE  Total(used, x, y) = Total(used, y, x)
<1>1. used + x + y = used + y + x
  OBVIOUS
<1>2. QED
  BY <1>1 DEF Total

LEMMA GrownTotal ==
    ASSUME NEW used \in Int, NEW x \in Int, NEW y \in Int
    PROVE  Total(used + 1, x, y) = Wrapped(Total(used, x, y) + 1)
<1> DEFINE a == 1
           b == used + x + y
<1>1. a \in Int /\ b \in Int /\ a + b = used + 1 + x + y
  OBVIOUS
<1> HIDE DEF a, b
<1>2. Wrapped(a + Wrapped(b)) = Wrapped(a + b) /\ Wrapped(b) \in Int
  BY <1>1, WrappedTwice
<1>3. a + Wrapped(b) = Wrapped(b) + 1
  BY <1>2 DEF a
<1>4. Wrapped(b) = Total(used, x, y) /\ Wrapped(a + b) = Total(used + 1, x, y)
  BY <1>1 DEF Wrapped, Total, b
<1>5. QED
  BY <1>2, <1>3, <1>4

SameBooks(v, w) == v.ap_used = w.ap_used /\ v.sta_used = w.sta_used /\ v.stats = w.stats

WorldField == {"ap", "sta", "ap_used", "sta_used", "rel_used", "stats"}

LEMMA CountWrites ==
    ASSUME NEW S, NEW u \in [WorldField -> S],
           NEW c \in StatName, NEW n \in Int
    PROVE  LET v == CountN(u, c, n)
           IN /\ v.ap = u.ap /\ v.sta = u.sta
              /\ v.ap_used = u.ap_used /\ v.sta_used = u.sta_used
              /\ \A k \in Tracked : v.stats[k] =
                    IF k = c THEN (u.stats[k] + n) % CounterMod ELSE u.stats[k]
BY DEF CountN, WorldField

LEMMA WorldFields ==
    ASSUME NEW w \in WorldType
    PROVE  /\ w \in [WorldField -> {w[f] : f \in WorldField}]
           /\ w.ap_used \in Int /\ w.sta_used \in Int
           /\ \A k \in Tracked : w.stats[k] \in Int
BY CounterAssumption DEF WorldType, WorldField

LEMMA SameBooksAccounted ==
    ASSUME NEW v, NEW w, Accounted(w), SameBooks(v, w)
    PROVE  Accounted(v)
BY DEF Accounted, Ledger, SameBooks

\* Statistics that are not in a ledger.
LEMMA CountOtherAccounted ==
    ASSUME NEW S, NEW w \in [WorldField -> S], Accounted(w), NEW n \in Int,
           NEW c \in {"ap_rejected", "sta_rejected", "rel_formed", "rel_expired",
                      "rel_switched", "rel_conflicts", "data_ambiguous", "data_wds",
                      "data_short", "obs_stale", "obs_invalid", "maint_runs"}
    PROVE  Accounted(CountN(w, c, n))
<1> DEFINE v == CountN(w, c, n)
<1>1. /\ v.ap_used = w.ap_used /\ v.sta_used = w.sta_used
      /\ \A k \in Tracked : v.stats[k] =
            IF k = c THEN (w.stats[k] + n) % CounterMod ELSE w.stats[k]
  BY CountWrites DEF StatName
<1> HIDE DEF v
<1>2. \A k \in Tracked : k # c => v.stats[k] = w.stats[k]
  BY <1>1
<1>3. Accounted(v)
  BY <1>1, <1>2 DEF Accounted, Ledger
<1>4. QED
  BY <1>3 DEF v

LEMMA CountOtherGood ==
    ASSUME NEW w \in WorldType, Accounted(w), NEW n \in Int,
           NEW c \in {"ap_rejected", "sta_rejected", "rel_formed", "rel_expired",
                      "rel_switched", "rel_conflicts", "data_ambiguous", "data_wds",
                      "data_short", "obs_stale", "obs_invalid", "maint_runs"}
    PROVE  Accounted(CountN(w, c, n))
<1> DEFINE S == {w[f] : f \in WorldField}
<1>1. w \in [WorldField -> S]
  BY WorldFields
<1> HIDE DEF S
<1>2. QED
  BY <1>1, CountOtherAccounted

\* n APs, or n stations, leave the table and are counted as expired or evicted.
LEMMA ApsLeftAccounted ==
    ASSUME NEW w \in WorldType, Accounted(w), NEW n \in Int, NEW S,
           NEW u \in [WorldField -> S],
           u.ap_used = w.ap_used - n, u.sta_used = w.sta_used, u.stats = w.stats,
           NEW c \in {"ap_expired", "ap_evicted"}
    PROVE  Accounted(CountN(u, c, n))
<1> DEFINE v == CountN(u, c, n)
<1>0. /\ w.ap_used \in Int /\ w.sta_used \in Int
      /\ \A k \in Tracked : w.stats[k] \in Int
  BY WorldFields
<1>a. c \in StatName
  BY DEF StatName
<1>b. /\ v.ap_used = u.ap_used /\ v.sta_used = u.sta_used
      /\ \A k \in Tracked : v.stats[k] =
            IF k = c THEN (u.stats[k] + n) % CounterMod ELSE u.stats[k]
  BY ZenonT(30), <1>a, CountWrites
<1>1. /\ v.ap_used = w.ap_used - n /\ v.sta_used = w.sta_used
      /\ \A k \in Tracked : v.stats[k] =
            IF k = c THEN (w.stats[k] + n) % CounterMod ELSE w.stats[k]
  BY <1>b
<1> HIDE DEF v
<1>2. Ledger(v, "ap_created", v.ap_used, "ap_expired", "ap_evicted")
  <2>1. SUFFICES ASSUME {"ap_created", "ap_expired", "ap_evicted"} \subseteq Tracked
                 PROVE  v.stats["ap_created"] =
                          (v.ap_used + v.stats["ap_expired"] + v.stats["ap_evicted"])
                          % CounterMod
    BY DEF Ledger
  <2> DEFINE k == w.stats["ap_created"]
             x == w.stats["ap_expired"]
             y == w.stats["ap_evicted"]
             used == w.ap_used
  <2>2. k = Total(used, x, y)
    BY <2>1 DEF Accounted, Ledger, Total
  <2>3. used \in Int /\ x \in Int /\ y \in Int /\ k \in Int
    BY <1>0, <2>1
  <2>4. /\ v.stats["ap_created"] = k /\ v.ap_used = used - n
        /\ v.stats["ap_expired"] = IF c = "ap_expired" THEN (x + n) % CounterMod ELSE x
        /\ v.stats["ap_evicted"] = IF c = "ap_evicted" THEN (y + n) % CounterMod ELSE y
    BY <1>1, <2>1
  <2> HIDE DEF k, x, y, used
  <2> DEFINE used2 == used - n
             x2 == Wrapped(x + n)
             y2 == Wrapped(y + n)
  <2>5. used - used2 = n /\ used2 \in Int
    BY <2>3
  <2>6. x2 \in Int /\ y2 \in Int
    BY <2>3, CounterAssumption DEF Wrapped
  <2>7. v.stats["ap_created"] = k /\ v.ap_used = used2
    BY <2>4
  <2> HIDE DEF used2, x2, y2
  <2>8. x2 = Wrapped(x + (used - used2)) /\ y2 = Wrapped(y + (used - used2))
    BY <2>5 DEF x2, y2
  <2>9. CASE c = "ap_expired"
    <3>1. Total(used2, x2, y) = Total(used, x, y)
      BY <2>3, <2>5, <2>6, <2>8, MovedTotal
    <3>2. v.stats["ap_expired"] = x2 /\ v.stats["ap_evicted"] = y
      BY <2>4, <2>9 DEF x2, Wrapped
    <3>3. QED
      BY <2>2, <2>7, <3>1, <3>2 DEF Total
  <2>10. CASE c = "ap_evicted"
    <3>1. Total(used2, y2, x) = Total(used, y, x)
      BY <2>3, <2>5, <2>6, <2>8, MovedTotal
    <3>2. Total(used2, x, y2) = Total(used, x, y)
      BY <2>3, <2>5, <2>6, <3>1, TotalSwaps
    <3>3. v.stats["ap_expired"] = x /\ v.stats["ap_evicted"] = y2
      BY <2>4, <2>10 DEF y2, Wrapped
    <3>4. QED
      BY <2>2, <2>7, <3>2, <3>3 DEF Total
  <2>11. QED
    BY <2>9, <2>10
<1>3. Ledger(v, "sta_created", v.sta_used, "sta_expired", "sta_evicted")
  BY <1>1 DEF Accounted, Ledger
<1>4. QED
  BY <1>2, <1>3 DEF Accounted, v

LEMMA StasLeftAccounted ==
    ASSUME NEW w \in WorldType, Accounted(w), NEW n \in Int, NEW S,
           NEW u \in [WorldField -> S],
           u.sta_used = w.sta_used - n, u.ap_used = w.ap_used, u.stats = w.stats,
           NEW c \in {"sta_expired", "sta_evicted"}
    PROVE  Accounted(CountN(u, c, n))
<1> DEFINE v == CountN(u, c, n)
<1>0. /\ w.ap_used \in Int /\ w.sta_used \in Int
      /\ \A k \in Tracked : w.stats[k] \in Int
  BY WorldFields
<1>a. c \in StatName
  BY DEF StatName
<1>b. /\ v.ap_used = u.ap_used /\ v.sta_used = u.sta_used
      /\ \A k \in Tracked : v.stats[k] =
            IF k = c THEN (u.stats[k] + n) % CounterMod ELSE u.stats[k]
  BY <1>a, CountWrites
<1>1. /\ v.sta_used = w.sta_used - n /\ v.ap_used = w.ap_used
      /\ \A k \in Tracked : v.stats[k] =
            IF k = c THEN (w.stats[k] + n) % CounterMod ELSE w.stats[k]
  BY <1>b
<1> HIDE DEF v
<1>2. Ledger(v, "sta_created", v.sta_used, "sta_expired", "sta_evicted")
  <2>1. SUFFICES ASSUME {"sta_created", "sta_expired", "sta_evicted"} \subseteq Tracked
                 PROVE  v.stats["sta_created"] =
                          (v.sta_used + v.stats["sta_expired"] + v.stats["sta_evicted"])
                          % CounterMod
    BY DEF Ledger
  <2> DEFINE k == w.stats["sta_created"]
             x == w.stats["sta_expired"]
             y == w.stats["sta_evicted"]
             used == w.sta_used
  <2>2. k = Total(used, x, y)
    BY <2>1 DEF Accounted, Ledger, Total
  <2>3. used \in Int /\ x \in Int /\ y \in Int /\ k \in Int
    BY <1>0, <2>1
  <2>4. /\ v.stats["sta_created"] = k /\ v.sta_used = used - n
        /\ v.stats["sta_expired"] = IF c = "sta_expired" THEN (x + n) % CounterMod ELSE x
        /\ v.stats["sta_evicted"] = IF c = "sta_evicted" THEN (y + n) % CounterMod ELSE y
    BY <1>1, <2>1
  <2> HIDE DEF k, x, y, used
  <2> DEFINE used2 == used - n
             x2 == Wrapped(x + n)
             y2 == Wrapped(y + n)
  <2>5. used - used2 = n /\ used2 \in Int
    BY <2>3
  <2>6. x2 \in Int /\ y2 \in Int
    BY <2>3, CounterAssumption DEF Wrapped
  <2>7. v.stats["sta_created"] = k /\ v.sta_used = used2
    BY <2>4
  <2> HIDE DEF used2, x2, y2
  <2>8. x2 = Wrapped(x + (used - used2)) /\ y2 = Wrapped(y + (used - used2))
    BY <2>5 DEF x2, y2
  <2>9. CASE c = "sta_expired"
    <3>1. Total(used2, x2, y) = Total(used, x, y)
      BY <2>3, <2>5, <2>6, <2>8, MovedTotal
    <3>2. v.stats["sta_expired"] = x2 /\ v.stats["sta_evicted"] = y
      BY <2>4, <2>9 DEF x2, Wrapped
    <3>3. QED
      BY <2>2, <2>7, <3>1, <3>2 DEF Total
  <2>10. CASE c = "sta_evicted"
    <3>1. Total(used2, y2, x) = Total(used, y, x)
      BY <2>3, <2>5, <2>6, <2>8, MovedTotal
    <3>2. Total(used2, x, y2) = Total(used, x, y)
      BY <2>3, <2>5, <2>6, <3>1, TotalSwaps
    <3>3. v.stats["sta_expired"] = x /\ v.stats["sta_evicted"] = y2
      BY <2>4, <2>10 DEF y2, Wrapped
    <3>4. QED
      BY <2>2, <2>7, <3>2, <3>3 DEF Total
  <2>11. QED
    BY <2>9, <2>10
<1>3. Ledger(v, "ap_created", v.ap_used, "ap_expired", "ap_evicted")
  BY <1>1 DEF Accounted, Ledger
<1>4. QED
  BY <1>2, <1>3 DEF Accounted, v

LEMMA PlaceApAccounted ==
    ASSUME NEW w \in WorldType, Accounted(w), NEW i, NEW b, NEW t, NEW strong
    PROVE  Accounted(PlaceAp(w, i, b, t, strong))
<1> DEFINE v == PlaceAp(w, i, b, t, strong)
           ap == [w.ap EXCEPT ![i] = FreshAp(b, t, strong)]
           u == [w EXCEPT !.ap = ap, !.ap_used = w.ap_used + 1]
<1>1. v = CountN(u, "ap_created", 1)
  BY DEF PlaceAp, FreshAp, Count
<1> HIDE DEF ap
<1>2. /\ u.ap_used = w.ap_used + 1 /\ u.sta_used = w.sta_used /\ u.stats = w.stats
      /\ u \in [WorldField -> {u[f] : f \in WorldField}]
  BY DEF WorldType, WorldField
<1> HIDE DEF u, v
<1>a. "ap_created" \in StatName
  BY DEF StatName
<1>b. /\ v.ap_used = u.ap_used /\ v.sta_used = u.sta_used
      /\ \A k \in Tracked : v.stats[k] =
            IF k = "ap_created" THEN (u.stats[k] + 1) % CounterMod ELSE u.stats[k]
  <2> DEFINE n == 1
             c == "ap_created"
             S == {u[f] : f \in WorldField}
  <2>1. n \in Int /\ c \in StatName /\ v = CountN(u, c, n) /\ u \in [WorldField -> S]
    BY <1>1, <1>2, <1>a
  <2> HIDE DEF n, c, S
  <2>2. /\ v.ap_used = u.ap_used /\ v.sta_used = u.sta_used
        /\ \A k \in Tracked : v.stats[k] =
              IF k = c THEN (u.stats[k] + n) % CounterMod ELSE u.stats[k]
    BY ZenonT(30), <2>1, CountWrites
  <2>3. QED
    BY <2>2 DEF n, c
<1>3. /\ v.ap_used = w.ap_used + 1 /\ v.sta_used = w.sta_used
      /\ \A k \in Tracked : v.stats[k] =
            IF k = "ap_created" THEN (w.stats[k] + 1) % CounterMod ELSE w.stats[k]
  BY <1>2, <1>b
<1>0. /\ w.ap_used \in Int /\ w.sta_used \in Int
      /\ \A k \in Tracked : w.stats[k] \in Int
  BY WorldFields
<1>4. Ledger(v, "ap_created", v.ap_used, "ap_expired", "ap_evicted")
  <2>1. SUFFICES ASSUME {"ap_created", "ap_expired", "ap_evicted"} \subseteq Tracked
                 PROVE  v.stats["ap_created"] =
                          (v.ap_used + v.stats["ap_expired"] + v.stats["ap_evicted"])
                          % CounterMod
    BY DEF Ledger
  <2> DEFINE k == w.stats["ap_created"]
             x == w.stats["ap_expired"]
             y == w.stats["ap_evicted"]
             used == w.ap_used
  <2>2. k = Total(used, x, y)
    BY <2>1 DEF Accounted, Ledger, Total
  <2>3. used \in Int /\ x \in Int /\ y \in Int /\ k \in Int
    BY <1>0, <2>1
  <2>4. /\ v.stats["ap_created"] = (k + 1) % CounterMod /\ v.ap_used = used + 1
        /\ v.stats["ap_expired"] = x /\ v.stats["ap_evicted"] = y
    BY <1>3, <2>1
  <2> HIDE DEF k, x, y, used
  <2>5. Total(used + 1, x, y) = Wrapped(k + 1)
    BY <2>2, <2>3, GrownTotal
  <2>6. QED
    BY <2>4, <2>5 DEF Total, Wrapped
<1>5. Ledger(v, "sta_created", v.sta_used, "sta_expired", "sta_evicted")
  BY <1>3 DEF Accounted, Ledger
<1>6. QED
  BY <1>4, <1>5 DEF Accounted, v

LEMMA PlaceStaAccounted ==
    ASSUME NEW w \in WorldType, Accounted(w), NEW j, NEW m, NEW t
    PROVE  Accounted(PlaceSta(w, j, m, t))
<1> DEFINE v == PlaceSta(w, j, m, t)
           sta == [w.sta EXCEPT ![j] = FreshSta(m, t)]
           u == [w EXCEPT !.sta = sta, !.sta_used = w.sta_used + 1]
<1>1. v = CountN(u, "sta_created", 1)
  BY DEF PlaceSta, FreshSta, Count
<1> HIDE DEF sta
<1>2. /\ u.sta_used = w.sta_used + 1 /\ u.ap_used = w.ap_used /\ u.stats = w.stats
      /\ u \in [WorldField -> {u[f] : f \in WorldField}]
  BY DEF WorldType, WorldField
<1> HIDE DEF u, v
<1>a. "sta_created" \in StatName
  BY DEF StatName
<1>b. /\ v.ap_used = u.ap_used /\ v.sta_used = u.sta_used
      /\ \A k \in Tracked : v.stats[k] =
            IF k = "sta_created" THEN (u.stats[k] + 1) % CounterMod ELSE u.stats[k]
  <2> DEFINE n == 1
             c == "sta_created"
             S == {u[f] : f \in WorldField}
  <2>1. n \in Int /\ c \in StatName /\ v = CountN(u, c, n) /\ u \in [WorldField -> S]
    BY <1>1, <1>2, <1>a
  <2> HIDE DEF n, c, S
  <2>2. /\ v.ap_used = u.ap_used /\ v.sta_used = u.sta_used
        /\ \A k \in Tracked : v.stats[k] =
              IF k = c THEN (u.stats[k] + n) % CounterMod ELSE u.stats[k]
    BY ZenonT(30), <2>1, CountWrites
  <2>3. QED
    BY <2>2 DEF n, c
<1>3. /\ v.sta_used = w.sta_used + 1 /\ v.ap_used = w.ap_used
      /\ \A k \in Tracked : v.stats[k] =
            IF k = "sta_created" THEN (w.stats[k] + 1) % CounterMod ELSE w.stats[k]
  BY <1>2, <1>b
<1>0. /\ w.ap_used \in Int /\ w.sta_used \in Int
      /\ \A k \in Tracked : w.stats[k] \in Int
  BY WorldFields
<1>4. Ledger(v, "sta_created", v.sta_used, "sta_expired", "sta_evicted")
  <2>1. SUFFICES ASSUME {"sta_created", "sta_expired", "sta_evicted"} \subseteq Tracked
                 PROVE  v.stats["sta_created"] =
                          (v.sta_used + v.stats["sta_expired"] + v.stats["sta_evicted"])
                          % CounterMod
    BY DEF Ledger
  <2> DEFINE k == w.stats["sta_created"]
             x == w.stats["sta_expired"]
             y == w.stats["sta_evicted"]
             used == w.sta_used
  <2>2. k = Total(used, x, y)
    BY <2>1 DEF Accounted, Ledger, Total
  <2>3. used \in Int /\ x \in Int /\ y \in Int /\ k \in Int
    BY <1>0, <2>1
  <2>4. /\ v.stats["sta_created"] = (k + 1) % CounterMod /\ v.sta_used = used + 1
        /\ v.stats["sta_expired"] = x /\ v.stats["sta_evicted"] = y
    BY <1>3, <2>1
  <2> HIDE DEF k, x, y, used
  <2>5. Total(used + 1, x, y) = Wrapped(k + 1)
    BY <2>2, <2>3, GrownTotal
  <2>6. QED
    BY <2>4, <2>5 DEF Total, Wrapped
<1>5. Ledger(v, "ap_created", v.ap_used, "ap_expired", "ap_evicted")
  BY <1>3 DEF Accounted, Ledger
<1>6. QED
  BY <1>4, <1>5 DEF Accounted, v

-----------------------------------------------------------------------------
(* The books through removal, creation and evidence *)

LEMMA RemovalBooks ==
    ASSUME NEW w \in WorldType, NEW R
    PROVE  /\ SameBooks(UnbindAll(w, R), w)
           /\ RemoveAps(w, R) \in [WorldField -> {RemoveAps(w, R)[f] : f \in WorldField}]
           /\ RemoveAps(w, R).ap_used = w.ap_used - Cardinality(R)
           /\ RemoveAps(w, R).sta_used = w.sta_used
           /\ RemoveAps(w, R).stats = w.stats
           /\ RemoveStas(w, R) \in [WorldField -> {RemoveStas(w, R)[f] : f \in WorldField}]
           /\ RemoveStas(w, R).sta_used = w.sta_used - Cardinality(R)
           /\ RemoveStas(w, R).ap_used = w.ap_used
           /\ RemoveStas(w, R).stats = w.stats
<1> DEFINE u == UnbindAll(w, R)
           v == RemoveAps(w, R)
           x == RemoveStas(w, R)
<1>1. SameBooks(u, w) /\ u \in [WorldField -> {u[f] : f \in WorldField}]
  BY DEF UnbindAll, WorldType, WorldField, SameBooks
<1>2. /\ v \in [WorldField -> {v[f] : f \in WorldField}]
      /\ v.ap_used = w.ap_used - Cardinality(R) /\ v.sta_used = w.sta_used
      /\ v.stats = w.stats
  BY DEF RemoveAps, WorldType, WorldField
<1> HIDE DEF u, v
<1>3. /\ x \in [WorldField -> {x[f] : f \in WorldField}]
      /\ x.sta_used = u.sta_used - Cardinality(R) /\ x.ap_used = u.ap_used
      /\ x.stats = u.stats
  BY <1>1 DEF RemoveStas, WorldField, u
<1>4. QED
  BY <1>1, <1>2, <1>3 DEF u, v, SameBooks

LEMMA SweepsAccounted ==
    ASSUME NEW w, Good(w), Accounted(w), NEW t
    PROVE  /\ Accounted(sweep_expired_aps(w, t))
           /\ Accounted(sweep_expired_stas(w, t))
           /\ Accounted(sweep_expired_rels(w, t))
<1>0. w \in WorldType
  BY DEF Good
<1>1. Accounted(sweep_expired_aps(w, t))
  <2> DEFINE E == ExpiredAps(w, t)
             u == RemoveAps(w, E)
             n == Cardinality(E)
  <2>1. n \in Int
    BY FiniteTables DEF ExpiredAps
  <2>2. /\ u \in [WorldField -> {u[f] : f \in WorldField}]
        /\ u.ap_used = w.ap_used - n /\ u.sta_used = w.sta_used /\ u.stats = w.stats
    BY <1>0, RemovalBooks
  <2>3. sweep_expired_aps(w, t) = CountN(u, "ap_expired", n)
    BY DEF sweep_expired_aps
  <2> HIDE DEF u, n
  <2>4. QED
    BY <1>0, <2>1, <2>2, <2>3, ApsLeftAccounted
<1>2. Accounted(sweep_expired_stas(w, t))
  <2> DEFINE E == ExpiredStas(w, t)
             u == RemoveStas(w, E)
             n == Cardinality(E)
  <2>1. n \in Int
    BY FiniteTables DEF ExpiredStas
  <2>2. /\ u \in [WorldField -> {u[f] : f \in WorldField}]
        /\ u.sta_used = w.sta_used - n /\ u.ap_used = w.ap_used /\ u.stats = w.stats
    BY <1>0, RemovalBooks
  <2>3. sweep_expired_stas(w, t) = CountN(u, "sta_expired", n)
    BY DEF sweep_expired_stas
  <2> HIDE DEF u, n
  <2>4. QED
    BY <1>0, <2>1, <2>2, <2>3, StasLeftAccounted
<1>3. Accounted(sweep_expired_rels(w, t))
  <2> DEFINE E == ExpiredRels(w, t)
             u == UnbindAll(w, E)
             n == Cardinality(E)
  <2>1. SameBooks(u, w)
    BY <1>0, RemovalBooks
  <2>2. u \in WorldType
    <3>1. E \in SUBSET StaSlot
      BY DEF ExpiredRels
    <3>2. QED
      BY <3>1, UnbindAllGood DEF Good
  <2>3. sweep_expired_rels(w, t) = CountN(u, "rel_expired", n)
    BY DEF sweep_expired_rels
  <2>4. n \in Int
    BY FiniteTables DEF ExpiredRels
  <2> HIDE DEF u, n
  <2>5. Accounted(u)
    BY <2>1, SameBooksAccounted
  <2>6. QED
    BY <2>2, <2>3, <2>4, <2>5, CountOtherGood
<1>4. QED
  BY <1>1, <1>2, <1>3

\* Finding or creating a record keeps the books, whoever leaves for it.
LEMMA AllocApAccounted ==
    ASSUME NEW w, Good(w), Accounted(w), NEW t \in Times, NEW strong \in BOOLEAN
    PROVE  Accounted(alloc_ap(w, t, strong).w)
<1> DEFINE swept == IF FreeAps(w) # {} THEN w ELSE sweep_expired_aps(w, t)
           victim == OldestAp(swept)
           out == RemoveAps(swept, {victim})
<1>1. Good(swept) /\ Accounted(swept)
  BY SweepApsGood, SweepsAccounted
<1>2. alloc_ap(w, t, strong).w \in
         {swept, CountN(swept, "ap_rejected", 1), CountN(out, "ap_evicted", 1)}
  BY DEF alloc_ap, ap_remove, Count
<1> HIDE DEF swept
<1>3. swept \in WorldType
  BY <1>1 DEF Good
<1>4. Accounted(CountN(swept, "ap_rejected", 1))
  BY <1>1, <1>3, CountOtherGood
<1>5. Accounted(CountN(out, "ap_evicted", 1))
  <2> DEFINE n == 1
             c == "ap_evicted"
  <2>1. Cardinality({victim}) = 1
    BY FS_Singleton
  <2>2. /\ n \in Int /\ c \in {"ap_expired", "ap_evicted"}
        /\ out \in [WorldField -> {out[f] : f \in WorldField}]
        /\ out.ap_used = swept.ap_used - n
        /\ out.sta_used = swept.sta_used /\ out.stats = swept.stats
    BY <1>3, <2>1, RemovalBooks
  <2> HIDE DEF n, c, out
  <2>3. Accounted(CountN(out, c, n))
    BY <1>1, <1>3, <2>2, ApsLeftAccounted
  <2>4. QED
    BY <2>3 DEF n, c
<1>6. QED
  BY <1>1, <1>2, <1>4, <1>5

LEMMA AllocStaAccounted ==
    ASSUME NEW w, Good(w), Accounted(w), NEW t \in Times, NEW strong \in BOOLEAN
    PROVE  Accounted(alloc_sta(w, t, strong).w)
<1> DEFINE swept == IF FreeStas(w) # {} THEN w ELSE sweep_expired_stas(w, t)
           victim == OldestSta(swept)
           out == RemoveStas(swept, {victim})
<1>1. Good(swept) /\ Accounted(swept)
  BY SweepStasGood, SweepsAccounted
<1>2. alloc_sta(w, t, strong).w \in
         {swept, CountN(swept, "sta_rejected", 1), CountN(out, "sta_evicted", 1)}
  BY DEF alloc_sta, sta_remove, Count
<1> HIDE DEF swept
<1>3. swept \in WorldType
  BY <1>1 DEF Good
<1>4. Accounted(CountN(swept, "sta_rejected", 1))
  BY <1>1, <1>3, CountOtherGood
<1>5. Accounted(CountN(out, "sta_evicted", 1))
  <2> DEFINE n == 1
             c == "sta_evicted"
  <2>1. Cardinality({victim}) = 1
    BY FS_Singleton
  <2>2. /\ n \in Int /\ c \in {"sta_expired", "sta_evicted"}
        /\ out \in [WorldField -> {out[f] : f \in WorldField}]
        /\ out.sta_used = swept.sta_used - n
        /\ out.ap_used = swept.ap_used /\ out.stats = swept.stats
    BY <1>3, <2>1, RemovalBooks
  <2> HIDE DEF n, c, out
  <2>3. Accounted(CountN(out, c, n))
    BY <1>1, <1>3, <2>2, StasLeftAccounted
  <2>4. QED
    BY <2>3 DEF n, c
<1>6. QED
  BY <1>1, <1>2, <1>4, <1>5

LEMMA ApForAccounted ==
    ASSUME NEW w, Good(w), Accounted(w), NEW b \in Mac, NEW t \in Times,
           NEW strong \in BOOLEAN
    PROVE  Accounted(ApFor(w, b, t, strong).w)
<1> DEFINE c == alloc_ap(w, t, strong)
           v == PlaceAp(c.w, c.slot, b, t, strong)
<1>1. CASE find_ap(w, b) # 0
  BY <1>1 DEF ApFor
<1>2. CASE find_ap(w, b) = 0
  <2>1. ApsNamed(w, b) = {}
    <3>1. ApsNamed(w, b) \in SUBSET Nat /\ 0 \notin ApsNamed(w, b)
      BY DEF ApsNamed, ApSlot
    <3>2. ApsNamed(w, b) # {} => Min(ApsNamed(w, b)) \in ApsNamed(w, b)
      BY <3>1, MinOfNats
    <3>3. QED
      BY <1>2, <3>1, <3>2 DEF find_ap
  <2>2. Good(c.w) /\ Accounted(c.w)
    BY <2>1, AllocApGood, AllocApAccounted
  <2>3. Accounted(v)
    BY <2>2, PlaceApAccounted DEF Good
  <2>4. c = [w |-> c.w, slot |-> c.slot]
    BY DEF alloc_ap
  <2>5. ApFor(w, b, t, strong) = IF c.slot = 0 THEN c ELSE [c EXCEPT !.w = v]
    BY <1>2 DEF ApFor, ap_create
  <2> HIDE DEF c, v
  <2>6. QED
    BY <2>2, <2>3, <2>4, <2>5
<1>3. QED
  BY <1>1, <1>2

LEMMA StaForAccounted ==
    ASSUME NEW w, Good(w), Accounted(w), NEW m \in Mac, NEW t \in Times,
           NEW strong \in BOOLEAN
    PROVE  Accounted(StaFor(w, m, t, strong).w)
<1> DEFINE c == alloc_sta(w, t, strong)
           v == PlaceSta(c.w, c.slot, m, t)
<1>1. CASE find_sta(w, m) # 0
  BY <1>1 DEF StaFor
<1>2. CASE find_sta(w, m) = 0
  <2>1. StasNamed(w, m) = {}
    <3>1. StasNamed(w, m) \in SUBSET Nat /\ 0 \notin StasNamed(w, m)
      BY DEF StasNamed, StaSlot
    <3>2. StasNamed(w, m) # {} => Min(StasNamed(w, m)) \in StasNamed(w, m)
      BY <3>1, MinOfNats
    <3>3. QED
      BY <1>2, <3>1, <3>2 DEF find_sta
  <2>2. Good(c.w) /\ Accounted(c.w)
    BY <2>1, AllocStaGood, AllocStaAccounted
  <2>3. Accounted(v)
    BY <2>2, PlaceStaAccounted DEF Good
  <2>4. c = [w |-> c.w, slot |-> c.slot]
    BY DEF alloc_sta
  <2>5. StaFor(w, m, t, strong) = IF c.slot = 0 THEN c ELSE [c EXCEPT !.w = v]
    BY <1>2 DEF StaFor, sta_create
  <2> HIDE DEF c, v
  <2>6. QED
    BY <2>2, <2>3, <2>4, <2>5
<1>3. QED
  BY <1>1, <1>2

\* Writing a record keeps the books.
LEMMA WriteAccounted ==
    ASSUME NEW w \in WorldType, Accounted(w), NEW i, NEW q
    PROVE  Accounted([w EXCEPT !.ap[i] = q]) /\ Accounted([w EXCEPT !.sta[i] = q])
<1>1. SameBooks([w EXCEPT !.ap[i] = q], w) /\ SameBooks([w EXCEPT !.sta[i] = q], w)
  BY DEF SameBooks, WorldType
<1>2. QED
  BY <1>1, SameBooksAccounted

LEMMA StaBindAccounted ==
    ASSUME NEW w \in WorldType, Accounted(w), NEW j, NEW i, NEW ev, NEW t
    PROVE  Accounted(sta_bind(w, j, i, ev, t))
<1> DEFINE v == sta_bind(w, j, i, ev, t)
           sta == [w.sta EXCEPT ![j] = Rebound(w.sta[j], i, ev, t)]
           ap == [w.ap EXCEPT ![i] = [w.ap[i] EXCEPT !.station_count = w.ap[i].station_count + 1]]
           u == [w EXCEPT !.sta = sta, !.ap = ap, !.rel_used = w.rel_used + 1]
           n == 1
           c == "rel_formed"
<1>1. v = CountN(u, c, n)
  BY DEF sta_bind, Rebound, Count
<1>2. n \in Int /\ c \in {"rel_formed"}
  OBVIOUS
<1> HIDE DEF sta, ap, n, c
<1>3. SameBooks(u, w) /\ u \in [WorldField -> {u[f] : f \in WorldField}]
  BY DEF SameBooks, WorldType, WorldField
<1> HIDE DEF u, v
<1>4. Accounted(u)
  BY <1>3, SameBooksAccounted
<1>5. Accounted(v)
  BY <1>1, <1>2, <1>3, <1>4, CountOtherAccounted
<1>6. QED
  BY <1>5 DEF v

LEMMA CountAccounted ==
    ASSUME NEW w, Good(w), Accounted(w),
           NEW c \in {"ap_rejected", "sta_rejected", "rel_formed", "rel_expired",
                      "rel_switched", "rel_conflicts", "data_ambiguous", "data_wds",
                      "data_short", "obs_stale", "obs_invalid", "maint_runs"}
    PROVE  Accounted(Count(w, c))
<1> DEFINE n == 1
<1>1. n \in Int /\ w \in WorldType
  BY DEF Good
<1> HIDE DEF n
<1>2. Accounted(CountN(w, c, n))
  BY <1>1, CountOtherGood
<1>3. QED
  BY <1>2 DEF Count, n

LEMMA RelationEvidenceAccounted ==
    ASSUME NEW w, Good(w), Accounted(w), NEW j \in StaSlot, NEW i, NEW ev, NEW t
    PROVE  Accounted(relation_evidence(w, j, i, ev, t))
<1> DEFINE r == w.sta[j]
           c == Count(w, "rel_conflicts")
           x == Count(c, "rel_expired")
           s == Count(c, "rel_switched")
<1>1. Good(c) /\ Accounted(c)
  BY CountGood, CountAccounted DEF Count
<1> HIDE DEF c
<1>2. Good(x) /\ Accounted(x) /\ Good(s) /\ Accounted(s)
  BY <1>1, CountGood, CountAccounted DEF Count
<1> HIDE DEF x, s
<1>3. ASSUME NEW y, Good(y), Accounted(y)
      PROVE  Accounted(sta_bind(sta_unbind(y, j), j, i, ev, t))
  <2> DEFINE u == UnbindAll(y, {j})
  <2>1. y \in WorldType
    BY <1>3 DEF Good
  <2>2. u \in WorldType /\ SameBooks(u, y)
    BY <1>3, <2>1, UnbindAllGood, RemovalBooks DEF Good
  <2>3. sta_unbind(y, j) = u
    BY DEF sta_unbind
  <2> HIDE DEF u
  <2>4. Accounted(u)
    BY <1>3, <2>2, SameBooksAccounted
  <2>5. QED
    BY <2>2, <2>3, <2>4, StaBindAccounted
<1>4. relation_evidence(w, j, i, ev, t) \in
         {[w EXCEPT !.sta[j] = Strengthened(@, ev, t)], sta_bind(w, j, i, ev, t),
          sta_bind(sta_unbind(x, j), j, i, ev, t),
          sta_bind(sta_unbind(s, j), j, i, ev, t), c}
  BY DEF relation_evidence, c, x, s
<1>5. w \in WorldType
  BY DEF Good
<1>6. Accounted([w EXCEPT !.sta[j] = Strengthened(@, ev, t)])
  BY <1>5, WriteAccounted
<1>7. Accounted(sta_bind(w, j, i, ev, t))
  BY <1>5, StaBindAccounted
<1>8. /\ Accounted(sta_bind(sta_unbind(x, j), j, i, ev, t))
      /\ Accounted(sta_bind(sta_unbind(s, j), j, i, ev, t))
  BY <1>2, <1>3
<1>9. QED
  BY <1>1, <1>4, <1>6, <1>7, <1>8

-----------------------------------------------------------------------------
(* The handlers keep the books *)

LEMMA ApObservedAccounted ==
    ASSUME NEW w, Good(w), Accounted(w), NEW b \in Mac, NEW t \in Times, NEW o \in Obs
    PROVE  Accounted(ap_observed(w, b, t, b, o))
<1> DEFINE a == ApFor(w, b, t, TRUE)
           q == ApSpoke(a.w.ap[a.slot], t, b, o)
<1>1. Good(a.w) /\ Accounted(a.w)
  BY ApForGood, ApForAccounted
<1>2. ap_observed(w, b, t, b, o) = [a.w EXCEPT !.ap[a.slot] = q]
  BY DEF ap_observed
<1> DEFINE i == a.slot
           u == a.w
<1>3. u \in WorldType /\ Accounted(u) /\ ap_observed(w, b, t, b, o) = [u EXCEPT !.ap[i] = q]
  BY <1>1, <1>2 DEF Good
<1> HIDE DEF a, q, i, u
<1>4. Accounted([u EXCEPT !.ap[i] = q])
  BY <1>3, WriteAccounted
<1>5. QED
  BY <1>3, <1>4

LEMMA StaNotedAccounted ==
    ASSUME NEW w, Good(w), Accounted(w), NEW m \in Mac, NEW t \in Times,
           NEW probe \in BOOLEAN
    PROVE  Accounted(sta_noted(w, m, t, m, probe))
<1> DEFINE st == StaFor(w, m, t, TRUE)
           heard == StaSpoke(st.w.sta[st.slot], t, m)
           q == IF probe THEN StaProbed(heard) ELSE heard
<1>1. Good(st.w) /\ Accounted(st.w)
  BY StaForGood, StaForAccounted
<1>2. sta_noted(w, m, t, m, probe) = [st.w EXCEPT !.sta[st.slot] = q]
  BY DEF sta_noted
<1> DEFINE j == st.slot
           u == st.w
<1>3. u \in WorldType /\ Accounted(u) /\ sta_noted(w, m, t, m, probe) = [u EXCEPT !.sta[j] = q]
  BY <1>1, <1>2 DEF Good
<1> HIDE DEF st, q, j, u
<1>4. Accounted([u EXCEPT !.sta[j] = q])
  BY <1>3, WriteAccounted
<1>5. QED
  BY <1>3, <1>4

LEMMA DataUplinkAccounted ==
    ASSUME NEW w, Good(w), Accounted(w), NEW s \in Mac, NEW b \in Mac, NEW t \in Times
    PROVE  Accounted(data_uplink(w, s, b, t, s))
<1> DEFINE st == StaFor(w, s, t, TRUE)
           p == StaSpoke(st.w.sta[st.slot], t, s)
           heard == [st.w EXCEPT !.sta[st.slot] = p]
           a == ApFor(heard, b, t, FALSE)
           q == ApReached(a.w.ap[a.slot])
           v == [a.w EXCEPT !.ap[a.slot] = q]
<1>1. Good(st.w) /\ Accounted(st.w) /\ st.slot \in UsedStas(st.w)
  BY StaForGood, StaForAccounted
<1>2. data_uplink(w, s, b, t, s) =
         IF a.slot = 0 THEN a.w ELSE relation_evidence(v, st.slot, a.slot, UPLINK, t)
  BY DEF data_uplink
<1> HIDE DEF st
<1>3. StaRefreshed(p, st.w.sta[st.slot])
  BY <1>1, StaSpokeRefreshes DEF Good, WorldType, UsedStas, Address
<1> HIDE DEF p
<1>4. Good(heard) /\ SameStas(heard, st.w) /\ Accounted(heard)
  BY <1>1, <1>3, RefreshStaGood, WriteAccounted DEF Good
<1> HIDE DEF heard
<1>5. /\ Good(a.w) /\ SameStas(a.w, heard) /\ Accounted(a.w)
      /\ a.slot # 0 => a.slot \in UsedAps(a.w)
  BY <1>4, ApForGood, ApForAccounted
<1>6. st.slot \in StaSlot
  BY <1>1 DEF UsedStas
<1> HIDE DEF a
<1>7. ASSUME a.slot # 0
      PROVE  Good(v) /\ Accounted(v)
  <2>1. a.w.ap[a.slot] \in ApRecord
    BY <1>5, <1>7 DEF Good, WorldType, UsedAps
  <2>2. SatInc(a.w.ap[a.slot].data_up_count) \in 0..SatMax
    BY <2>1, SatIncType DEF ApRecord
  <2>3. ApRefreshed(q, a.w.ap[a.slot])
    BY <2>1, <2>2, ApFields DEF ApReached
  <2> HIDE DEF q
  <2>4. Good(v) /\ SameAps(v, a.w)
    BY <1>5, <1>7, <2>3, RefreshApGood
  <2>5. Accounted(v)
    BY <1>5, WriteAccounted DEF Good
  <2>6. QED
    BY <2>4, <2>5
<1> HIDE DEF v
<1>8. QED
  BY <1>2, <1>5, <1>6, <1>7, RelationEvidenceAccounted

LEMMA DownlinkDestAccounted ==
    ASSUME NEW w, Good(w), Accounted(w), NEW i, NEW d \in Mac, NEW t \in Times
    PROVE  Accounted(downlink_dest(w, i, d, t))
<1> DEFINE st == StaFor(w, d, t, FALSE)
           q == StaAddressed(st.w.sta[st.slot], t)
           v == [st.w EXCEPT !.sta[st.slot] = q]
<1>1. /\ Good(st.w) /\ Accounted(st.w)
      /\ st.slot # 0 => st.slot \in UsedStas(st.w)
  BY StaForGood, StaForAccounted
<1>2. downlink_dest(w, i, d, t) =
         IF st.slot = 0 THEN st.w ELSE relation_evidence(v, st.slot, i, DOWNLINK, t)
  BY DEF downlink_dest
<1> HIDE DEF st
<1>3. ASSUME st.slot # 0
      PROVE  Good(v) /\ Accounted(v) /\ st.slot \in StaSlot
  <2>1. StaRefreshed(q, st.w.sta[st.slot])
    BY <1>1, <1>3, StaSpokeRefreshes, AddressAssumption
    DEF Good, WorldType, UsedStas, Address
  <2> HIDE DEF q
  <2>2. Good(v) /\ SameAps(v, st.w)
    BY <1>1, <1>3, <2>1, RefreshStaGood
  <2>3. Accounted(v)
    BY <1>1, WriteAccounted DEF Good
  <2>4. QED
    BY <1>1, <1>3, <2>2, <2>3 DEF UsedStas
<1> HIDE DEF v
<1>4. QED
  BY <1>1, <1>2, <1>3, RelationEvidenceAccounted

LEMMA DataDownlinkAccounted ==
    ASSUME NEW w, Good(w), Accounted(w), NEW b \in Mac, NEW d, NEW t \in Times
    PROVE  Accounted(data_downlink(w, b, d, t, b))
<1> DEFINE a == ApFor(w, b, t, FALSE)
           q == ApRelayed(a.w.ap[a.slot], t, b)
           heard == [a.w EXCEPT !.ap[a.slot] = q]
<1>1. /\ Good(a.w) /\ Accounted(a.w)
      /\ a.slot # 0 => a.slot \in UsedAps(a.w)
  BY ApForGood, ApForAccounted
<1>2. data_downlink(w, b, d, t, b) =
         IF a.slot = 0 THEN a.w
         ELSE IF d \notin Mac \/ d = b \/ StaIsNewer(heard, d, t) THEN heard
         ELSE downlink_dest(heard, a.slot, d, t)
  BY DEF data_downlink
<1> HIDE DEF a
<1>3. ASSUME a.slot # 0
      PROVE  Good(heard) /\ Accounted(heard)
  <2>1. ApRefreshed(q, a.w.ap[a.slot])
    BY <1>1, <1>3, ApRelayedRefreshes DEF Good, WorldType, UsedAps, Address
  <2> HIDE DEF q
  <2>2. Good(heard) /\ SameAps(heard, a.w)
    BY <1>1, <1>3, <2>1, RefreshApGood
  <2>3. Accounted(heard)
    BY <1>1, WriteAccounted DEF Good
  <2>4. QED
    BY <2>2, <2>3
<1> HIDE DEF heard
<1>4. QED
  BY <1>1, <1>2, <1>3, DownlinkDestAccounted

LEMMA MaintainedAccounted ==
    ASSUME NEW w, Good(w), Accounted(w), NEW t \in Times
    PROVE  Accounted(maintained(w, t))
<1> DEFINE x == sweep_expired_aps(w, t)
           y == sweep_expired_rels(x, t)
           z == sweep_expired_stas(y, t)
<1>1. Good(x) /\ Accounted(x)
  BY SweepApsGood, SweepsAccounted
<1> HIDE DEF x
<1>2. Good(y) /\ Accounted(y)
  BY <1>1, SweepRelsGood, SweepsAccounted
<1> HIDE DEF y
<1>3. Good(z) /\ Accounted(z)
  BY <1>2, SweepStasGood, SweepsAccounted
<1>4. maintained(w, t) = Count(z, "maint_runs")
  BY DEF maintained, x, y
<1> HIDE DEF z
<1>5. QED
  BY <1>3, <1>4, CountAccounted

LEMMA NextAccounted == IInv /\ Accounted(world) /\ [Next]_vars => Accounted(world)'
<1> SUFFICES ASSUME IInv, Accounted(world), [Next]_vars
             PROVE  Accounted(world')
  OBVIOUS
<1>0. Good(world) /\ now \in Times
  BY DEF IInv
<1>a. /\ Accounted(Count(world, "obs_invalid")) /\ Accounted(Count(world, "obs_stale"))
      /\ \A kind \in {"data_wds", "data_ambiguous", "data_short"} :
            Accounted(Count(world, kind))
  BY <1>0, CountAccounted
<1>1. CASE Clock
  BY <1>1 DEF Clock
<1>2. ASSUME NEW b \in Address, NEW o \in Obs, world_on_ap_observation(b, o)
      PROVE  Accounted(world')
  BY <1>0, <1>2, <1>a, ApObservedAccounted DEF world_on_ap_observation
<1>3. ASSUME NEW s \in Address, NEW b \in Address, world_on_uplink(s, b)
      PROVE  Accounted(world')
  BY <1>0, <1>3, <1>a, DataUplinkAccounted DEF world_on_uplink
<1>4. ASSUME NEW b \in Address, NEW d \in Address, world_on_downlink(b, d)
      PROVE  Accounted(world')
  BY <1>0, <1>4, <1>a, DataDownlinkAccounted DEF world_on_downlink
<1>5. ASSUME NEW kind \in {"data_wds", "data_ambiguous", "data_short"},
             world_on_unusable_data(kind)
      PROVE  Accounted(world')
  BY <1>5, <1>a DEF world_on_unusable_data
<1>6. ASSUME NEW m \in Address, NEW probe \in BOOLEAN, world_on_sta_tx(m, probe)
      PROVE  Accounted(world')
  BY <1>0, <1>6, <1>a, StaNotedAccounted DEF world_on_sta_tx
<1>7. CASE world_maintenance
  BY <1>0, <1>7, MaintainedAccounted DEF world_maintenance
<1>8. CASE UNCHANGED vars
  BY <1>8 DEF vars
<1>9. QED
  BY <1>1, <1>2, <1>3, <1>4, <1>5, <1>6, <1>7, <1>8 DEF Next

\* Every AP and station ever created is still in its table, expired or was
\* evicted, exactly once, although every statistic wraps at its width.
THEOREM CreationsStayAccounted == Spec => []CreationsAccounted
<1>1. Init => Accounted(world)
  <2>1. 0 % CounterMod = 0
    BY CounterAssumption
  <2>2. QED
    BY <2>1 DEF Init, world_init, Accounted, Ledger
<1>2. Accounted(world) => CreationsAccounted
  BY DEF Accounted, Ledger, CreationsAccounted
<1>3. QED
  BY <1>1, <1>2, SpecIInv, NextAccounted, PTL DEF Spec

-----------------------------------------------------------------------------
(* The tables, read as maps *)

\* A is the map from addresses to APs that the table of w holds, S the one to
\* stations, and R the relations.
ApMap(w, A) ==
    /\ A = [b \in DOMAIN A |-> A[b]]
    /\ \A b : b \in DOMAIN A <=> \E i \in UsedAps(w) : w.ap[i].bssid = b
    /\ \A i \in UsedAps(w) : A[w.ap[i].bssid] = w.ap[i].last_seen

StaMap(w, S) ==
    /\ S = [m \in DOMAIN S |-> S[m]]
    /\ \A m : m \in DOMAIN S <=> \E j \in UsedStas(w) : w.sta[j].mac = m
    /\ \A j \in UsedStas(w) : S[w.sta[j].mac] = w.sta[j].last_observed

Relation(w, r) == [ap |-> w.ap[r.rel_ap].bssid, ev |-> r.rel_evidence, at |-> r.rel_last]

LEMMA RelationFields ==
    \A w, r : LET x == Relation(w, r)
             IN x.ap = w.ap[r.rel_ap].bssid /\ x.ev = r.rel_evidence /\ x.at = r.rel_last
BY DEF Relation

RelMap(w, R) ==
    /\ R = [m \in DOMAIN R |-> R[m]]
    /\ \A m : m \in DOMAIN R <=>
                \E j \in UsedStas(w) : w.sta[j].mac = m /\ w.sta[j].rel_ap # 0
    /\ \A j \in UsedStas(w) :
          w.sta[j].rel_ap # 0 => R[w.sta[j].mac] = Relation(w, w.sta[j])

Maps(w, A, S, R) == ApMap(w, A) /\ StaMap(w, S) /\ RelMap(w, R)

\* The operators of WorldMap, in terms of functions.
LEMMA MapOperators ==
    /\ \A f, x, v : Map!Learn(f, x, v) = [y \in DOMAIN f \cup {x} |-> IF y = x THEN v ELSE f[y]]
    /\ \A f, D : Map!Without(f, D) = [y \in DOMAIN f \ D |-> f[y]]
    /\ \A r, B : Map!RelWithoutAps(r, B) =
                   [y \in DOMAIN r \ {m \in DOMAIN r : r[m].ap \in B} |-> r[y]]
BY DEF Map!Learn, Map!Without, Map!Restrict, Map!RelWithoutAps

\* A table has one reading only.
LEMMA ReadingUnique ==
    ASSUME NEW w, NEW A, NEW S, NEW R, Maps(w, A, S, R),
           NEW B, NEW T, NEW Q, Maps(w, B, T, Q)
    PROVE  A = B /\ S = T /\ R = Q
<1>1. A = B
  <2>1. DOMAIN A = DOMAIN B
    BY DEF Maps, ApMap
  <2>2. \A b \in DOMAIN A : A[b] = B[b]
    BY DEF Maps, ApMap
  <2>3. QED
    BY <2>1, <2>2 DEF Maps, ApMap
<1>2. S = T
  <2>1. DOMAIN S = DOMAIN T
    BY DEF Maps, StaMap
  <2>2. \A m \in DOMAIN S : S[m] = T[m]
    BY DEF Maps, StaMap
  <2>3. QED
    BY <2>1, <2>2 DEF Maps, StaMap
<1>3. R = Q
  <2>1. DOMAIN R = DOMAIN Q
    BY DEF Maps, RelMap
  <2>2. \A m \in DOMAIN R : R[m] = Q[m]
    BY DEF Maps, RelMap
  <2>3. QED
    BY <2>1, <2>2 DEF Maps, RelMap
<1>4. QED
  BY <1>1, <1>2, <1>3

\* The refinement mapping reads the tables.
LEMMA MappingReads ==
    ASSUME Good(world)
    PROVE  Maps(world, apsMap, stasMap, relMap)
<1>1. \A i \in UsedAps(world) : SlotOfAp(world.ap[i].bssid) = i
  <2>1. ASSUME NEW i \in UsedAps(world) PROVE SlotOfAp(world.ap[i].bssid) = i
    <3>1. i \in ApsNamed(world, world.ap[i].bssid)
      BY DEF UsedAps, ApsNamed
    <3>2. \A k \in ApsNamed(world, world.ap[i].bssid) : k = i
      BY DEF UsedAps, ApsNamed, Good, KeysUnique
    <3>3. QED
      BY <3>1, <3>2 DEF SlotOfAp
  <2>2. QED
    BY <2>1
<1>2. \A j \in UsedStas(world) : SlotOfSta(world.sta[j].mac) = j
  <2>1. ASSUME NEW j \in UsedStas(world) PROVE SlotOfSta(world.sta[j].mac) = j
    <3>1. j \in StasNamed(world, world.sta[j].mac)
      BY DEF UsedStas, StasNamed
    <3>2. \A k \in StasNamed(world, world.sta[j].mac) : k = j
      BY DEF UsedStas, StasNamed, Good, KeysUnique
    <3>3. QED
      BY <3>1, <3>2 DEF SlotOfSta
  <2>2. QED
    BY <2>1
<1>3. ApMap(world, apsMap)
  BY <1>1 DEF ApMap, apsMap, KnownAps
<1>4. StaMap(world, stasMap)
  BY <1>2 DEF StaMap, stasMap, KnownStas
<1>5. RelMap(world, relMap)
  <2>1. /\ DOMAIN relMap = {x \in KnownStas(world) : world.sta[SlotOfSta(x)].rel_ap # 0}
        /\ \A m \in DOMAIN relMap : relMap[m] = Relation(world, world.sta[SlotOfSta(m)])
        /\ relMap = [m \in DOMAIN relMap |-> relMap[m]]
    BY DEF relMap, Relation
  <2>2. \A m : m \in DOMAIN relMap <=>
               \E j \in UsedStas(world) : world.sta[j].mac = m /\ world.sta[j].rel_ap # 0
    BY <1>2, <2>1 DEF KnownStas
  <2>3. ASSUME NEW j \in UsedStas(world), world.sta[j].rel_ap # 0
        PROVE  relMap[world.sta[j].mac] = Relation(world, world.sta[j])
    <3>1. world.sta[j].mac \in DOMAIN relMap
      BY <2>2, <2>3
    <3>2. QED
      BY <1>2, <2>1, <3>1
  <2>4. relMap = [m \in DOMAIN relMap |-> relMap[m]]
    BY <2>1
  <2>5. QED
    BY <2>2, <2>3, <2>4 DEF RelMap
<1>6. QED
  BY <1>3, <1>4, <1>5 DEF Maps

-----------------------------------------------------------------------------
(* What leaves the tables leaves the maps *)

ApNames(w, A)  == {w.ap[i].bssid : i \in A}
StaNames(w, S) == {w.sta[j].mac : j \in S}

LEMMA ApsLeaveMaps ==
    ASSUME NEW w, Good(w), NEW X \in SUBSET UsedAps(w), NEW v,
           Leaves(v, w, X, {}, Orphans(w, X)),
           NEW A, NEW S, NEW R, Maps(w, A, S, R)
    PROVE  Maps(v, Map!Without(A, ApNames(w, X)), S, Map!RelWithoutAps(R, ApNames(w, X)))
<1> DEFINE B == ApNames(w, X)
           A2 == Map!Without(A, B)
           R2 == Map!RelWithoutAps(R, B)
<1>1. UsedAps(v) = UsedAps(w) \ X /\ \A i \in ApSlot : SameApText(v.ap[i], w.ap[i])
  BY DEF Leaves, UsedAps
<1>2. /\ UsedStas(v) = UsedStas(w) /\ \A j \in StaSlot : SameStaText(v.sta[j], w.sta[j])
      /\ \A j \in StaSlot : /\ w.sta[j].rel_ap \in X => v.sta[j].rel_ap = 0
                            /\ w.sta[j].rel_ap \notin X =>
                                 /\ v.sta[j].rel_ap = w.sta[j].rel_ap
                                 /\ v.sta[j].rel_evidence = w.sta[j].rel_evidence
  BY DEF Leaves, UsedStas, Orphans
<1>3. UsedAps(w) \subseteq ApSlot /\ UsedStas(w) \subseteq StaSlot
      /\ \A j \in UsedStas(w) : w.sta[j].rel_ap # 0 => w.sta[j].rel_ap \in UsedAps(w)
  BY DEF UsedAps, UsedStas, Good, RelationsSound, WorldType, StaRecord, ApSlot
<1>4. \A i \in UsedAps(w) : w.ap[i].bssid \in B <=> i \in X
  BY DEF Good, KeysUnique, ApNames
<1>5. ApMap(v, A2)
  <2>1. A2 = [y \in DOMAIN A \ B |-> A[y]]
    BY MapOperators
  <2> HIDE DEF A2, B
  <2>2. QED
    BY <1>1, <1>3, <1>4, <2>1 DEF Maps, ApMap, SameApText
<1>6. StaMap(v, S)
  BY <1>2, <1>3 DEF Maps, StaMap, SameStaText
<1>7. RelMap(v, R2)
  <2>1. R2 = [y \in DOMAIN R \ {m \in DOMAIN R : R[m].ap \in B} |-> R[y]]
    BY MapOperators
  <2> HIDE DEF R2, B
  <2>2. ASSUME NEW j \in UsedStas(w), w.sta[j].rel_ap # 0
        PROVE  /\ R[w.sta[j].mac].ap \in B <=> w.sta[j].rel_ap \in X
               /\ w.sta[j].rel_ap \notin X =>
                    Relation(v, v.sta[j]) = Relation(w, w.sta[j])
    <3>1. w.sta[j].rel_ap \in UsedAps(w)
      BY <1>3, <2>2
    <3>2. R[w.sta[j].mac].ap = w.ap[w.sta[j].rel_ap].bssid
      BY <2>2, RelationFields DEF Maps, RelMap
    <3>3. QED
      BY ZenonT(40), <1>1, <1>2, <1>3, <1>4, <3>1, <3>2 DEF Relation, SameApText, SameStaText
  <2>3. 0 \notin X
    BY <1>3, TableAssumption DEF ApSlot
  <2>4. \A m : m \in DOMAIN R2 <=>
               \E j \in UsedStas(v) : v.sta[j].mac = m /\ v.sta[j].rel_ap # 0
    <3>1. ASSUME NEW m, m \in DOMAIN R2
          PROVE  \E j \in UsedStas(v) : v.sta[j].mac = m /\ v.sta[j].rel_ap # 0
      <4>1. m \in DOMAIN R /\ R[m].ap \notin B
        BY <2>1, <3>1
      <4>2. PICK j \in UsedStas(w) : w.sta[j].mac = m /\ w.sta[j].rel_ap # 0
        BY <4>1 DEF Maps, RelMap
      <4>3. QED
        BY <1>2, <1>3, <2>2, <4>1, <4>2 DEF SameStaText
    <3>2. ASSUME NEW j \in UsedStas(v), v.sta[j].rel_ap # 0
          PROVE  v.sta[j].mac \in DOMAIN R2
      <4>1. j \in UsedStas(w) /\ j \in StaSlot /\ w.sta[j].rel_ap \notin X
            /\ w.sta[j].rel_ap # 0 /\ v.sta[j].mac = w.sta[j].mac
        BY <1>2, <1>3, <3>2 DEF SameStaText
      <4>2. w.sta[j].mac \in DOMAIN R /\ R[w.sta[j].mac].ap \notin B
        BY <2>2, <4>1 DEF Maps, RelMap
      <4>3. QED
        BY <2>1, <4>1, <4>2
    <3>3. QED
      BY <3>1, <3>2
  <2>5. ASSUME NEW j \in UsedStas(v), v.sta[j].rel_ap # 0
        PROVE  R2[v.sta[j].mac] = Relation(v, v.sta[j])
    <3>1. j \in UsedStas(w) /\ j \in StaSlot /\ w.sta[j].rel_ap \notin X
          /\ w.sta[j].rel_ap # 0 /\ v.sta[j].mac = w.sta[j].mac
      BY <1>2, <1>3, <2>5 DEF SameStaText
    <3>2. v.sta[j].mac \in DOMAIN R2
      BY <2>4, <2>5
    <3>3. R2[v.sta[j].mac] = R[w.sta[j].mac]
      BY <2>1, <3>1, <3>2
    <3>4. QED
      BY <2>2, <3>1, <3>3 DEF Maps, RelMap
  <2>6. R2 = [m \in DOMAIN R2 |-> R2[m]]
    BY <2>1
  <2>7. QED
    BY <2>4, <2>5, <2>6 DEF RelMap
<1>8. QED
  BY <1>5, <1>6, <1>7 DEF Maps

\* Stations that leave, with their relations, and relations that are undone.
LEMMA StasLeaveMaps ==
    ASSUME NEW w, Good(w), NEW X \in SUBSET UsedStas(w), NEW Y \in SUBSET UsedStas(w),
           X \subseteq Y, NEW v, Leaves(v, w, {}, X, Y),
           NEW A, NEW S, NEW R, Maps(w, A, S, R)
    PROVE  Maps(v, A, Map!Without(S, StaNames(w, X)), Map!Without(R, StaNames(w, Y)))
<1> DEFINE M == StaNames(w, X)
           N == StaNames(w, Y)
           S2 == Map!Without(S, M)
           R2 == Map!Without(R, N)
<1>1. UsedAps(v) = UsedAps(w) /\ \A i \in ApSlot : SameApText(v.ap[i], w.ap[i])
  BY DEF Leaves, UsedAps
<1>2. /\ UsedStas(v) = UsedStas(w) \ X /\ \A j \in StaSlot : SameStaText(v.sta[j], w.sta[j])
      /\ \A j \in StaSlot : /\ j \in Y => v.sta[j].rel_ap = 0
                            /\ j \notin Y => /\ v.sta[j].rel_ap = w.sta[j].rel_ap
                                             /\ v.sta[j].rel_evidence = w.sta[j].rel_evidence
  BY DEF Leaves, UsedStas
<1>3. UsedAps(w) \subseteq ApSlot /\ UsedStas(w) \subseteq StaSlot
      /\ \A j \in UsedStas(w) : w.sta[j].rel_ap # 0 => w.sta[j].rel_ap \in UsedAps(w)
  BY DEF UsedAps, UsedStas, Good, RelationsSound, WorldType, StaRecord, ApSlot
<1>4. \A j \in UsedStas(w) : /\ w.sta[j].mac \in M <=> j \in X
                             /\ w.sta[j].mac \in N <=> j \in Y
  BY DEF Good, KeysUnique, StaNames
<1>5. ApMap(v, A)
  BY <1>1, <1>3 DEF Maps, ApMap, SameApText
<1>6. StaMap(v, S2)
  <2>1. S2 = [y \in DOMAIN S \ M |-> S[y]]
    BY MapOperators
  <2> HIDE DEF S2, M
  <2>2. QED
    BY <1>2, <1>3, <1>4, <2>1 DEF Maps, StaMap, SameStaText
<1>7. RelMap(v, R2)
  <2>1. R2 = [y \in DOMAIN R \ N |-> R[y]]
    BY MapOperators
  <2> HIDE DEF R2, N, M
  <2>2. ASSUME NEW j \in UsedStas(w), w.sta[j].rel_ap # 0, j \notin Y
        PROVE  Relation(v, v.sta[j]) = Relation(w, w.sta[j])
    BY <1>1, <1>2, <1>3, <2>2 DEF Relation, SameApText, SameStaText
  <2>3. \A m : m \in DOMAIN R2 <=>
               \E j \in UsedStas(v) : v.sta[j].mac = m /\ v.sta[j].rel_ap # 0
    <3>1. ASSUME NEW m, m \in DOMAIN R2
          PROVE  \E j \in UsedStas(v) : v.sta[j].mac = m /\ v.sta[j].rel_ap # 0
      <4>1. m \in DOMAIN R /\ m \notin N
        BY <2>1, <3>1
      <4>2. PICK j \in UsedStas(w) : w.sta[j].mac = m /\ w.sta[j].rel_ap # 0
        BY <4>1 DEF Maps, RelMap
      <4>3. QED
        BY <1>2, <1>3, <1>4, <4>1, <4>2 DEF SameStaText
    <3>2. ASSUME NEW j \in UsedStas(v), v.sta[j].rel_ap # 0
          PROVE  v.sta[j].mac \in DOMAIN R2
      <4>1. j \in UsedStas(w) /\ j \in StaSlot /\ j \notin Y
            /\ w.sta[j].rel_ap # 0 /\ v.sta[j].mac = w.sta[j].mac
        BY <1>2, <1>3, <3>2 DEF SameStaText
      <4>2. w.sta[j].mac \in DOMAIN R /\ w.sta[j].mac \notin N
        BY <1>4, <4>1 DEF Maps, RelMap
      <4>3. QED
        BY <2>1, <4>1, <4>2
    <3>3. QED
      BY <3>1, <3>2
  <2>4. ASSUME NEW j \in UsedStas(v), v.sta[j].rel_ap # 0
        PROVE  R2[v.sta[j].mac] = Relation(v, v.sta[j])
    <3>1. j \in UsedStas(w) /\ j \in StaSlot /\ j \notin Y
          /\ w.sta[j].rel_ap # 0 /\ v.sta[j].mac = w.sta[j].mac
      BY <1>2, <1>3, <2>4 DEF SameStaText
    <3>2. v.sta[j].mac \in DOMAIN R2
      BY <2>3, <2>4
    <3>3. R2[v.sta[j].mac] = R[w.sta[j].mac]
      BY <2>1, <3>1, <3>2
    <3>4. QED
      BY <2>2, <3>1, <3>3 DEF Maps, RelMap
  <2>5. R2 = [m \in DOMAIN R2 |-> R2[m]]
    BY <2>1
  <2>6. QED
    BY <2>3, <2>4, <2>5 DEF RelMap
<1>8. QED
  BY <1>5, <1>6, <1>7 DEF Maps

\* Nobody leaves.
LEMMA NobodyLeavesMaps ==
    ASSUME NEW w, Good(w), NEW v, Leaves(v, w, {}, {}, {}),
           NEW A, NEW S, NEW R, Maps(w, A, S, R)
    PROVE  Maps(v, A, S, R)
<1>1. /\ UsedAps(v) = UsedAps(w) /\ UsedStas(v) = UsedStas(w)
      /\ UsedAps(w) \subseteq ApSlot /\ UsedStas(w) \subseteq StaSlot
  BY DEF Leaves, UsedAps, UsedStas
<1>2. /\ \A i \in ApSlot : SameApText(v.ap[i], w.ap[i])
      /\ \A j \in StaSlot : /\ SameStaText(v.sta[j], w.sta[j])
                            /\ v.sta[j].rel_ap = w.sta[j].rel_ap
                            /\ v.sta[j].rel_evidence = w.sta[j].rel_evidence
  BY DEF Leaves
<1>3. \A j \in UsedStas(w) : w.sta[j].rel_ap # 0 => w.sta[j].rel_ap \in ApSlot
  BY DEF UsedAps, UsedStas, Good, RelationsSound, WorldType, StaRecord, ApSlot
<1>4. \A j \in UsedStas(w) : w.sta[j].rel_ap # 0 =>
                               Relation(v, v.sta[j]) = Relation(w, w.sta[j])
  BY <1>1, <1>2, <1>3 DEF Relation, SameApText, SameStaText
<1>5. ApMap(v, A) /\ StaMap(v, S)
  BY <1>1, <1>2 DEF Maps, ApMap, StaMap, SameApText, SameStaText
<1>6. RelMap(v, R)
  BY <1>1, <1>2, <1>4 DEF Maps, RelMap, SameStaText
<1>7. QED
  BY <1>5, <1>6 DEF Maps

-----------------------------------------------------------------------------
(* What is written in the tables is learnt by the maps *)

LEMMA ApWrittenMaps ==
    ASSUME NEW w, Good(w), NEW i \in ApSlot, NEW b, NEW r, r.used, r.bssid = b,
           \/ w.ap[i].used /\ w.ap[i].bssid = b
           \/ ~w.ap[i].used /\ ApsNamed(w, b) = {},
           NEW v, v.sta = w.sta,
           \A k \in ApSlot : v.ap[k] = IF k = i THEN r ELSE w.ap[k],
           NEW A, NEW S, NEW R, Maps(w, A, S, R)
    PROVE  Maps(v, Map!Learn(A, b, r.last_seen), S, R)
<1> DEFINE A2 == Map!Learn(A, b, r.last_seen)
<1>1. A2 = [y \in DOMAIN A \cup {b} |-> IF y = b THEN r.last_seen ELSE A[y]]
  BY MapOperators
<1> HIDE DEF A2
<1>2. UsedAps(v) = UsedAps(w) \cup {i} /\ UsedStas(v) = UsedStas(w)
      /\ UsedAps(w) \subseteq ApSlot
  BY DEF UsedAps, UsedStas
<1>3. \A k \in UsedAps(w) : k # i => w.ap[k].bssid # b
  BY DEF UsedAps, ApsNamed, Good, KeysUnique
<1>4. ApMap(v, A2)
  <2>1. A2 = [y \in DOMAIN A2 |-> A2[y]]
    BY <1>1
  <2>2. \A y : y \in DOMAIN A2 <=> \E k \in UsedAps(v) : v.ap[k].bssid = y
    BY <1>1, <1>2 DEF Maps, ApMap, UsedAps
  <2>3. \A k \in UsedAps(v) : A2[v.ap[k].bssid] = v.ap[k].last_seen
    BY <1>1, <1>2, <1>3 DEF Maps, ApMap
  <2>4. QED
    BY <2>1, <2>2, <2>3 DEF ApMap
<1>5. StaMap(v, S)
  BY <1>2 DEF Maps, StaMap
<1>6. ASSUME NEW j \in UsedStas(w), w.sta[j].rel_ap # 0
      PROVE  Relation(v, v.sta[j]) = Relation(w, w.sta[j])
  <2> DEFINE k == w.sta[j].rel_ap
  <2>1. k \in UsedAps(w) /\ k \in ApSlot
    BY <1>6 DEF UsedAps, UsedStas, Good, RelationsSound, WorldType, StaRecord, ApSlot
  <2>2. v.ap[k].bssid = w.ap[k].bssid
    BY <2>1 DEF UsedAps
  <2>3. QED
    BY <2>2 DEF Relation
<1>7. RelMap(v, R)
  BY <1>2, <1>6 DEF Maps, RelMap
<1>8. QED
  BY <1>4, <1>5, <1>7 DEF Maps, A2

LEMMA StaWrittenMaps ==
    ASSUME NEW w, Good(w), NEW j \in StaSlot, NEW m, NEW r, r.used, r.mac = m,
           \/ w.sta[j].used /\ w.sta[j].mac = m /\ SameRelation(r, w.sta[j])
           \/ ~w.sta[j].used /\ StasNamed(w, m) = {} /\ r.rel_ap = 0,
           NEW v, v.ap = w.ap,
           \A k \in StaSlot : v.sta[k] = IF k = j THEN r ELSE w.sta[k],
           NEW A, NEW S, NEW R, Maps(w, A, S, R)
    PROVE  Maps(v, A, Map!Learn(S, m, r.last_observed), R)
<1> DEFINE S2 == Map!Learn(S, m, r.last_observed)
<1>1. S2 = [y \in DOMAIN S \cup {m} |-> IF y = m THEN r.last_observed ELSE S[y]]
  BY MapOperators
<1> HIDE DEF S2
<1>2. UsedStas(v) = UsedStas(w) \cup {j} /\ UsedAps(v) = UsedAps(w)
      /\ UsedStas(w) \subseteq StaSlot
  BY DEF UsedAps, UsedStas
<1>3. \A k \in UsedStas(w) : k # j => w.sta[k].mac # m
  BY DEF UsedStas, StasNamed, Good, KeysUnique
<1>4. StaMap(v, S2)
  <2>1. S2 = [y \in DOMAIN S2 |-> S2[y]]
    BY <1>1
  <2>2. \A y : y \in DOMAIN S2 <=> \E k \in UsedStas(v) : v.sta[k].mac = y
    BY <1>1, <1>2 DEF Maps, StaMap, UsedStas
  <2>3. \A k \in UsedStas(v) : S2[v.sta[k].mac] = v.sta[k].last_observed
    BY <1>1, <1>2, <1>3 DEF Maps, StaMap
  <2>4. QED
    BY <2>1, <2>2, <2>3 DEF StaMap
<1>5. ApMap(v, A)
  BY <1>2 DEF Maps, ApMap
<1>6. \A k \in UsedStas(v) : v.sta[k].rel_ap # 0 =>
         /\ k \in UsedStas(w) /\ w.sta[k].rel_ap # 0 /\ w.sta[k].mac = v.sta[k].mac
         /\ Relation(v, v.sta[k]) = Relation(w, w.sta[k])
  BY <1>2 DEF Relation, SameRelation, UsedStas
<1>7. \A k \in UsedStas(w) : w.sta[k].rel_ap # 0 =>
         /\ k \in UsedStas(v) /\ v.sta[k].rel_ap # 0 /\ w.sta[k].mac = v.sta[k].mac
  BY <1>2 DEF SameRelation, UsedStas
<1>8. RelMap(v, R)
  <2>1. R = [y \in DOMAIN R |-> R[y]]
    BY DEF Maps, RelMap
  <2>2. \A y : y \in DOMAIN R <=> \E k \in UsedStas(v) : v.sta[k].mac = y /\ v.sta[k].rel_ap # 0
    BY <1>6, <1>7 DEF Maps, RelMap
  <2>3. \A k \in UsedStas(v) : v.sta[k].rel_ap # 0 => R[v.sta[k].mac] = Relation(v, v.sta[k])
    BY <1>6 DEF Maps, RelMap
  <2>4. QED
    BY <2>1, <2>2, <2>3 DEF RelMap
<1>9. QED
  BY <1>4, <1>5, <1>8 DEF Maps, S2

LEMMA EvidenceMaps ==
    ASSUME NEW w, Good(w), NEW j \in UsedStas(w), NEW i \in UsedAps(w),
           NEW ev \in {DOWNLINK, UPLINK}, now \in Times,
           NEW A, NEW S, NEW R, Maps(w, A, S, R)
    PROVE  Maps(relation_evidence(w, j, i, ev, now), A, S,
                Map!Evidence(R, w.sta[j].mac, w.ap[i].bssid, ev))
<1> DEFINE v == relation_evidence(w, j, i, ev, now)
           r == w.sta[j]
           q == v.sta[j]
           m == r.mac
           b == w.ap[i].bssid
           R2 == Map!Evidence(R, m, b, ev)
           fresh == [ap |-> b, ev |-> ev, at |-> now]
           Learnt(x) == [y \in DOMAIN R \cup {m} |-> IF y = m THEN x ELSE R[y]]
<1>1. j \in StaSlot /\ i \in ApSlot
  BY DEF UsedStas, UsedAps
<1>2. /\ SameApTexts(v, w)
      /\ \A k \in StaSlot \ {j} : v.sta[k] = w.sta[k]
      /\ q.mac = m /\ q.last_observed = r.last_observed /\ q.used = r.used
      /\ IF r.rel_ap = i
         THEN /\ q.rel_ap = i
              /\ q.rel_evidence = IF ev > r.rel_evidence THEN ev ELSE r.rel_evidence
              /\ q.rel_last = IF now >= r.rel_last THEN now ELSE r.rel_last
         ELSE IF Takes(r, ev, now)
         THEN q.rel_ap = i /\ q.rel_evidence = ev /\ q.rel_last = now
         ELSE SameRelation(q, r)
  BY <1>1, RelationEvidenceEffect
<1> HIDE DEF v
<1>3. /\ UsedAps(v) = UsedAps(w) /\ UsedStas(v) = UsedStas(w)
      /\ UsedAps(w) \subseteq ApSlot /\ UsedStas(w) \subseteq StaSlot
  BY <1>1, <1>2 DEF UsedAps, UsedStas, SameApTexts
<1>4. \A k \in UsedStas(w) : /\ v.sta[k].mac = w.sta[k].mac
                             /\ v.sta[k].last_observed = w.sta[k].last_observed
                             /\ k # j => w.sta[k].mac # m
  BY <1>2, <1>3 DEF Good, KeysUnique
<1>5. ApMap(v, A) /\ StaMap(v, S)
  BY <1>2, <1>3, <1>4 DEF Maps, ApMap, StaMap, SameApTexts, SameApText
<1>6. \A k \in UsedStas(w) : w.sta[k].rel_ap # 0 => w.sta[k].rel_ap \in UsedAps(w)
  BY <1>3 DEF Good, RelationsSound, UsedAps, WorldType, StaRecord, ApSlot
<1>7. \A k \in UsedStas(w) : k # j /\ w.sta[k].rel_ap # 0 =>
         Relation(v, v.sta[k]) = Relation(w, w.sta[k])
  BY <1>2, <1>3, <1>6 DEF Relation, SameApTexts, SameApText
<1>8. i # 0 /\ b = v.ap[i].bssid
  BY <1>1, <1>2 DEF ApSlot, SameApTexts, SameApText
<1>9. m \in DOMAIN R <=> r.rel_ap # 0
  BY <1>4 DEF Maps, RelMap
<1>10. ASSUME r.rel_ap # 0
       PROVE  /\ R[m].ap = b <=> r.rel_ap = i
              /\ R[m].ev = r.rel_evidence /\ R[m].at = r.rel_last
  <2>1. R[m] = Relation(w, r)
    BY <1>10 DEF Maps, RelMap
  <2>2. r.rel_ap \in UsedAps(w)
    BY <1>6, <1>10
  <2>3. w.ap[r.rel_ap].bssid = b <=> r.rel_ap = i
    BY <2>2 DEF Good, KeysUnique
  <2>4. QED
    BY <2>1, <2>3, RelationFields
\* The relation of the station after the evidence.
<1>11. ASSUME NEW x, q.rel_ap # 0, Relation(v, q) = x
       PROVE  RelMap(v, Learnt(x))
  <2> DEFINE Q == Learnt(x)
  <2>1. Q = [y \in DOMAIN Q |-> Q[y]] /\ DOMAIN Q = DOMAIN R \cup {m}
        /\ Q[m] = x /\ \A y \in DOMAIN R : y # m => Q[y] = R[y]
    OBVIOUS
  <2> HIDE DEF Q, R2, q
  <2>2. \A y : y \in DOMAIN Q <=> \E k \in UsedStas(v) : v.sta[k].mac = y /\ v.sta[k].rel_ap # 0
    <3>1. \A k \in UsedStas(w) : k # j => v.sta[k].rel_ap = w.sta[k].rel_ap
      BY <1>2, <1>3
    <3>2. \A y : y # m => (y \in DOMAIN R <=>
             \E k \in UsedStas(w) : k # j /\ w.sta[k].mac = y /\ w.sta[k].rel_ap # 0)
      BY <1>4 DEF Maps, RelMap
    <3>3. \E k \in UsedStas(v) : v.sta[k].mac = m /\ v.sta[k].rel_ap # 0
      BY <1>3, <1>4, <1>11 DEF q
    <3>4. \A y : y # m => (y \in DOMAIN R <=>
             \E k \in UsedStas(v) : v.sta[k].mac = y /\ v.sta[k].rel_ap # 0)
      BY <1>3, <1>4, <3>1, <3>2
    <3>5. QED
      BY <2>1, <3>3, <3>4
  <2>3. \A k \in UsedStas(v) : v.sta[k].rel_ap # 0 => Q[v.sta[k].mac] = Relation(v, v.sta[k])
    <3>1. ASSUME NEW k \in UsedStas(v), k # j, v.sta[k].rel_ap # 0
          PROVE  Q[v.sta[k].mac] = Relation(v, v.sta[k])
      <4>1. k \in UsedStas(w) /\ w.sta[k].rel_ap # 0 /\ v.sta[k].mac = w.sta[k].mac
            /\ w.sta[k].mac # m
        BY <1>2, <1>3, <1>4, <3>1
      <4>2. R[w.sta[k].mac] = Relation(w, w.sta[k]) /\ w.sta[k].mac \in DOMAIN R
        BY <4>1 DEF Maps, RelMap
      <4>3. QED
        BY <1>7, <2>1, <3>1, <4>1, <4>2
    <3>2. Q[v.sta[j].mac] = Relation(v, v.sta[j])
      BY <1>4, <1>11, <2>1 DEF q
    <3>3. QED
      BY <3>1, <3>2
  <2>4. QED
    BY <2>1, <2>2, <2>3 DEF RelMap
<1>12. R2 = IF m \notin DOMAIN R THEN Learnt(fresh)
            ELSE IF R[m].ap = b
            THEN Learnt([ap |-> b, ev |-> IF ev > R[m].ev THEN ev ELSE R[m].ev,
                         at |-> IF now >= R[m].at THEN now ELSE R[m].at])
            ELSE IF \/ now - R[m].at > REL_TTL
                    \/ ev > R[m].ev
                    \/ ev = R[m].ev /\ now >= R[m].at
            THEN Learnt(fresh)
            ELSE R
  BY MapOperators DEF Map!Evidence, Map!Late
<1> HIDE DEF R2, Learnt, q
<1>13. r.rel_last \in Nat /\ now \in Nat /\ REL_TTL \in Nat
  BY <1>1, TimeAssumption DEF Good, WorldType, StaRecord, Times
<1> DEFINE Wins == (now - R[m].at > REL_TTL) \/ (ev > R[m].ev)
                   \/ ((ev = R[m].ev) /\ (now >= R[m].at))
<1>14. r.rel_ap # 0 => (Takes(r, ev, now) <=> Wins)
  <2> DEFINE l == r.rel_last
             e == r.rel_evidence
             a == r.rel_ap
  <2>1. a # 0 => R[m].at = l /\ R[m].ev = e
    BY <1>10
  <2>2. Takes(r, ev, now) <=> (a = 0) \/ ((a # 0) /\ (now > l) /\ (now - l > REL_TTL))
                              \/ (ev > e) \/ ((ev = e) /\ (now >= l))
    BY DEF Takes, rel_expired_at, EvidenceWins
  <2>3. l \in Nat
    BY <1>13
  <2>4. Wins <=> (now - R[m].at > REL_TTL) \/ (ev > R[m].ev)
                 \/ ((ev = R[m].ev) /\ (now >= R[m].at))
    OBVIOUS
  <2> HIDE DEF l, e, Wins
  <2>5. (now > l) /\ (now - l > REL_TTL) <=> (now - l > REL_TTL)
    BY <1>13, <2>3
  <2>6. QED
    BY <2>1, <2>2, <2>4, <2>5
<1>w. R2 = IF m \notin DOMAIN R THEN Learnt(fresh)
            ELSE IF R[m].ap = b
            THEN Learnt([ap |-> b, ev |-> IF ev > R[m].ev THEN ev ELSE R[m].ev,
                         at |-> IF now >= R[m].at THEN now ELSE R[m].at])
            ELSE IF Wins THEN Learnt(fresh) ELSE R
  BY <1>12
<1> HIDE DEF Wins
\* Whatever is learnt, the relations after it are read from the table.
<1>l. \A x : q.rel_ap = i /\ Relation(v, q) = x => RelMap(v, Learnt(x))
  BY <1>8, <1>11
<1>15. ASSUME r.rel_ap = 0
      PROVE  RelMap(v, R2)
  <2>1. R2 = Learnt(fresh)
    BY <1>9, <1>w, <1>15
  <2>2. q.rel_ap = i /\ q.rel_evidence = ev /\ q.rel_last = now
    BY <1>2, <1>8, <1>15 DEF Takes, q
  <2>3. Relation(v, q) = fresh
    BY <1>8, <2>2 DEF Relation
  <2>4. QED
    BY <1>l, <2>1, <2>2, <2>3
<1>16. ASSUME r.rel_ap # 0 /\ r.rel_ap = i
      PROVE  RelMap(v, R2)
  <2> DEFINE x == [ap |-> b, ev |-> IF ev > R[m].ev THEN ev ELSE R[m].ev,
                   at |-> IF now >= R[m].at THEN now ELSE R[m].at]
  <2>1. R2 = Learnt(x)
    BY <1>9, <1>10, <1>w, <1>16
  <2>2. /\ q.rel_ap = i
        /\ q.rel_evidence = IF ev > R[m].ev THEN ev ELSE R[m].ev
        /\ q.rel_last = IF now >= R[m].at THEN now ELSE R[m].at
    BY <1>2, <1>10, <1>16 DEF q
  <2>3. Relation(v, q) = x
    BY <1>8, <2>2 DEF Relation
  <2> HIDE DEF x
  <2>4. QED
    BY <1>l, <2>1, <2>2, <2>3
<1>17. ASSUME r.rel_ap # 0 /\ r.rel_ap # i /\ Takes(r, ev, now)
      PROVE  RelMap(v, R2)
  <2>1. R2 = Learnt(fresh)
    BY <1>9, <1>10, <1>w, <1>14, <1>17
  <2>2. q.rel_ap = i /\ q.rel_evidence = ev /\ q.rel_last = now
    BY <1>2, <1>17 DEF q
  <2>3. Relation(v, q) = fresh
    BY <1>8, <2>2 DEF Relation
  <2>4. QED
    BY <1>l, <2>1, <2>2, <2>3
<1>18. ASSUME r.rel_ap # 0 /\ r.rel_ap # i /\ ~Takes(r, ev, now)
      PROVE  RelMap(v, R2)
  <2>1. R2 = R
    BY <1>9, <1>10, <1>w, <1>14, <1>18
  <2>2. SameRelation(q, r)
    BY <1>2, <1>18 DEF q
  <2>3. \A k \in UsedStas(w) : /\ v.sta[k].rel_ap = w.sta[k].rel_ap
                               /\ v.sta[k].rel_evidence = w.sta[k].rel_evidence
                               /\ v.sta[k].rel_last = w.sta[k].rel_last
    BY <1>2, <1>3, <2>2 DEF q, SameRelation
  <2>4. \A k \in UsedStas(w) : w.sta[k].rel_ap # 0 =>
           Relation(v, v.sta[k]) = Relation(w, w.sta[k])
    BY <1>2, <1>3, <1>6, <2>3 DEF Relation, SameApTexts, SameApText
  <2>5. RelMap(v, R)
    BY <1>3, <1>4, <2>3, <2>4 DEF Maps, RelMap
  <2>6. QED
    BY <2>1, <2>5
<1>19. RelMap(v, R2)
  BY <1>15, <1>16, <1>17, <1>18
<1>20. QED
  BY <1>5, <1>19 DEF Maps, R2, v, m, b, r

-----------------------------------------------------------------------------
(* Who may leave the tables may leave the maps *)

\* FiniteSets is the same module there and here.
LEMMA SameCardinality == \A S : Map!Cardinality(S) = Cardinality(S)
BY DEF Cardinality, Map!Cardinality, IsFiniteSet, Map!IsFiniteSet

IsMap(f) == f = [x \in DOMAIN f |-> f[x]]

\* Who must leave a map of capacity max so that x fits.
Room(f, x, max, ttl, strong) ==
    IF x \in DOMAIN f THEN {{}} ELSE Map!Victims(f, max, ttl, strong)

\* The map f after x was found or entered, those of out having left for it.
Entered(f, x, out) ==
    IF x \in DOMAIN f THEN f ELSE Map!Learn(Map!Without(f, out), x, now)

LEMMA MapAlgebra ==
    /\ \A f, x, u, v : Map!Learn(Map!Learn(f, x, u), x, v) = Map!Learn(f, x, v)
    /\ \A f, x : IsMap(f) /\ x \in DOMAIN f => Map!Learn(f, x, f[x]) = f
    /\ \A f : IsMap(f) => Map!Without(f, {}) = f /\ Map!RelWithoutAps(f, {}) = f
<1>1. ASSUME NEW f, NEW x, NEW u, NEW v
      PROVE  Map!Learn(Map!Learn(f, x, u), x, v) = Map!Learn(f, x, v)
  <2> DEFINE g == Map!Learn(f, x, u)
             h == Map!Learn(f, x, v)
  <2>1. /\ g = [y \in DOMAIN f \cup {x} |-> IF y = x THEN u ELSE f[y]]
        /\ h = [y \in DOMAIN f \cup {x} |-> IF y = x THEN v ELSE f[y]]
        /\ Map!Learn(g, x, v) = [y \in DOMAIN g \cup {x} |-> IF y = x THEN v ELSE g[y]]
    BY MapOperators
  <2> HIDE DEF g, h
  <2>2. DOMAIN g = DOMAIN f \cup {x} /\ \A y \in DOMAIN f : y # x => g[y] = f[y]
    BY <2>1
  <2>3. QED
    BY <2>1, <2>2 DEF g, h
<1>2. ASSUME NEW f, NEW x, IsMap(f), x \in DOMAIN f
      PROVE  Map!Learn(f, x, f[x]) = f
  <2>1. Map!Learn(f, x, f[x]) = [y \in DOMAIN f \cup {x} |-> IF y = x THEN f[x] ELSE f[y]]
    BY MapOperators
  <2>2. QED
    BY <1>2, <2>1 DEF IsMap
<1>3. ASSUME NEW f, IsMap(f)
      PROVE  Map!Without(f, {}) = f /\ Map!RelWithoutAps(f, {}) = f
  <2>1. /\ Map!Without(f, {}) = [y \in DOMAIN f \ {} |-> f[y]]
        /\ Map!RelWithoutAps(f, {}) =
             [y \in DOMAIN f \ {m \in DOMAIN f : f[m].ap \in {}} |-> f[y]]
    BY MapOperators
  <2>2. QED
    BY <1>3, <2>1 DEF IsMap
<1>4. QED
  BY <1>1, <1>2, <1>3

\* The maps hold as many addresses as the tables hold records.
LEMMA MapSizes ==
    ASSUME NEW w, Good(w), NEW A, NEW S, NEW R, Maps(w, A, S, R)
    PROVE  /\ Cardinality(DOMAIN A) < AP_MAX <=> FreeAps(w) # {}
           /\ Cardinality(DOMAIN S) < STA_MAX <=> FreeStas(w) # {}
<1>1. /\ Cardinality(ApSlot) = AP_MAX /\ Cardinality(StaSlot) = STA_MAX
      /\ IsFiniteSet(ApSlot) /\ IsFiniteSet(StaSlot)
      /\ AP_MAX \in Nat /\ STA_MAX \in Nat
  BY FiniteTables, FS_Interval, TableAssumption DEF ApSlot, StaSlot
<1>2. /\ UsedAps(w) \in SUBSET ApSlot /\ UsedStas(w) \in SUBSET StaSlot
      /\ IsFiniteSet(UsedAps(w)) /\ IsFiniteSet(UsedStas(w))
      /\ Cardinality(UsedAps(w)) \in Nat /\ Cardinality(UsedStas(w)) \in Nat
  BY FiniteTables DEF UsedAps, UsedStas
<1>3. Cardinality(DOMAIN A) = Cardinality(UsedAps(w))
  <2> DEFINE f == [i \in UsedAps(w) |-> w.ap[i].bssid]
  <2>1. f \in Surjection(UsedAps(w), DOMAIN A)
    BY DEF Maps, ApMap, Surjection
  <2>2. f \in Injection(UsedAps(w), DOMAIN A)
    BY <2>1 DEF Injection, IsInjective, Surjection, Good, KeysUnique
  <2> HIDE DEF f
  <2>3. QED
    BY <1>2, <2>1, <2>2, FS_Surjection
<1>4. Cardinality(DOMAIN S) = Cardinality(UsedStas(w))
  <2> DEFINE f == [j \in UsedStas(w) |-> w.sta[j].mac]
  <2>1. f \in Surjection(UsedStas(w), DOMAIN S)
    BY DEF Maps, StaMap, Surjection
  <2>2. f \in Injection(UsedStas(w), DOMAIN S)
    BY <2>1 DEF Injection, IsInjective, Surjection, Good, KeysUnique
  <2> HIDE DEF f
  <2>3. QED
    BY <1>2, <2>1, <2>2, FS_Surjection
<1>5. Cardinality(UsedAps(w)) < AP_MAX <=> FreeAps(w) # {}
  <2>1. Cardinality(UsedAps(w)) <= AP_MAX
        /\ (Cardinality(UsedAps(w)) = AP_MAX => UsedAps(w) = ApSlot)
    BY <1>1, <1>2, FS_Subset
  <2>2. UsedAps(w) = ApSlot <=> FreeAps(w) = {}
    BY DEF UsedAps, FreeAps
  <2>3. UsedAps(w) = ApSlot => Cardinality(UsedAps(w)) = AP_MAX
    BY <1>1
  <2> DEFINE n == Cardinality(UsedAps(w))
  <2>4. n \in Nat /\ n <= AP_MAX /\ (n = AP_MAX <=> FreeAps(w) = {})
    BY <1>2, <2>1, <2>2, <2>3
  <2> HIDE DEF n
  <2>5. n < AP_MAX <=> FreeAps(w) # {}
    BY <1>1, <2>4
  <2>6. QED
    BY <2>5 DEF n
<1>6. Cardinality(UsedStas(w)) < STA_MAX <=> FreeStas(w) # {}
  <2>1. Cardinality(UsedStas(w)) <= STA_MAX
        /\ (Cardinality(UsedStas(w)) = STA_MAX => UsedStas(w) = StaSlot)
    BY <1>1, <1>2, FS_Subset
  <2>2. UsedStas(w) = StaSlot <=> FreeStas(w) = {}
    BY DEF UsedStas, FreeStas
  <2>3. UsedStas(w) = StaSlot => Cardinality(UsedStas(w)) = STA_MAX
    BY <1>1
  <2> DEFINE n == Cardinality(UsedStas(w))
  <2>4. n \in Nat /\ n <= STA_MAX /\ (n = STA_MAX <=> FreeStas(w) = {})
    BY <1>2, <2>1, <2>2, <2>3
  <2> HIDE DEF n
  <2>5. n < STA_MAX <=> FreeStas(w) # {}
    BY <1>1, <2>4
  <2>6. QED
    BY <2>5 DEF n
<1>7. QED
  BY <1>3, <1>4, <1>5, <1>6

\* Those who are late.
LateOf(f, ttl) == {x \in DOMAIN f : Map!Late(now, ttl, f[x])}

LEMMA LateNames ==
    ASSUME NEW w, Good(w), now \in Times, NEW A, NEW S, NEW R, Maps(w, A, S, R)
    PROVE  /\ LateOf(A, AP_TTL) = ApNames(w, ExpiredAps(w, now))
           /\ LateOf(S, STA_TTL) = StaNames(w, ExpiredStas(w, now))
           /\ {m \in DOMAIN R : Map!Late(now, REL_TTL, R[m].at)} =
                StaNames(w, ExpiredRels(w, now))
<1>0. /\ now \in Nat /\ AP_TTL \in Nat /\ STA_TTL \in Nat /\ REL_TTL \in Nat
      /\ \A i \in ApSlot : w.ap[i].last_seen \in Nat
      /\ \A j \in StaSlot : w.sta[j].last_observed \in Nat /\ w.sta[j].rel_last \in Nat
  BY TimeAssumption DEF Times, Good, WorldType, ApRecord, StaRecord
<1>1. \A x, ttl \in Nat : (now > x /\ now - x > ttl) <=> now - x > ttl
  BY <1>0
<1>2. LateOf(A, AP_TTL) = ApNames(w, ExpiredAps(w, now))
  <2>1. \A i \in UsedAps(w) : ap_expired_at(w.ap[i], now) <=> Map!Late(now, AP_TTL, w.ap[i].last_seen)
    BY <1>0, <1>1 DEF ap_expired_at, Map!Late, UsedAps
  <2>2. \A i \in UsedAps(w) : w.ap[i].bssid \in DOMAIN A
          /\ A[w.ap[i].bssid] = w.ap[i].last_seen
    BY DEF Maps, ApMap
  <2>3. \A x \in DOMAIN A : \E i \in UsedAps(w) : w.ap[i].bssid = x
    BY DEF Maps, ApMap
  <2>4. ExpiredAps(w, now) = {i \in UsedAps(w) : ap_expired_at(w.ap[i], now)}
    BY DEF ExpiredAps, UsedAps
  <2>5. QED
    BY <2>1, <2>2, <2>3, <2>4 DEF LateOf, ApNames
<1>3. LateOf(S, STA_TTL) = StaNames(w, ExpiredStas(w, now))
  <2>1. \A j \in UsedStas(w) :
           sta_expired_at(w.sta[j], now) <=> Map!Late(now, STA_TTL, w.sta[j].last_observed)
    BY <1>0, <1>1 DEF sta_expired_at, Map!Late, UsedStas
  <2>2. \A j \in UsedStas(w) : w.sta[j].mac \in DOMAIN S
          /\ S[w.sta[j].mac] = w.sta[j].last_observed
    BY DEF Maps, StaMap
  <2>3. \A x \in DOMAIN S : \E j \in UsedStas(w) : w.sta[j].mac = x
    BY DEF Maps, StaMap
  <2>4. ExpiredStas(w, now) = {j \in UsedStas(w) : sta_expired_at(w.sta[j], now)}
    BY DEF ExpiredStas, UsedStas
  <2>5. QED
    BY <2>1, <2>2, <2>3, <2>4 DEF LateOf, StaNames
<1>4. {m \in DOMAIN R : Map!Late(now, REL_TTL, R[m].at)} = StaNames(w, ExpiredRels(w, now))
  <2>1. \A j \in UsedStas(w) : w.sta[j].rel_ap # 0 =>
           /\ rel_expired_at(w.sta[j], now) <=> Map!Late(now, REL_TTL, w.sta[j].rel_last)
    BY <1>0, <1>1 DEF rel_expired_at, Map!Late, UsedStas
  <2>2. \A j \in UsedStas(w) : w.sta[j].rel_ap # 0 =>
           w.sta[j].mac \in DOMAIN R /\ R[w.sta[j].mac].at = w.sta[j].rel_last
    BY RelationFields DEF Maps, RelMap
  <2>3. \A x \in DOMAIN R : \E j \in UsedStas(w) : w.sta[j].mac = x /\ w.sta[j].rel_ap # 0
    BY DEF Maps, RelMap
  <2>4. ExpiredRels(w, now) =
           {j \in UsedStas(w) : w.sta[j].rel_ap # 0 /\ rel_expired_at(w.sta[j], now)}
    BY DEF ExpiredRels, UsedStas, rel_expired_at
  <2>5. QED
    BY <2>1, <2>2, <2>3, <2>4 DEF StaNames
<1>5. QED
  BY <1>2, <1>3, <1>4

LEMMA ApVictims ==
    ASSUME NEW w, Good(w), now \in Times, NEW strong \in BOOLEAN,
           NEW A, NEW S, NEW R, Maps(w, A, S, R)
    PROVE  LET V == Map!Victims(A, AP_MAX, AP_TTL, strong)
           IN /\ \A X \in ApsToLeave(w, now, strong) : ApNames(w, X) \in V
              /\ ApsToLeave(w, now, strong) = {} => V = {}
<1> DEFINE V == Map!Victims(A, AP_MAX, AP_TTL, strong)
           late == LateOf(A, AP_TTL)
           E == ExpiredAps(w, now)
<1> SUFFICES /\ \A X \in ApsToLeave(w, now, strong) : ApNames(w, X) \in V
             /\ ApsToLeave(w, now, strong) = {} => V = {}
  OBVIOUS
<1>0. late = {x \in DOMAIN A : Map!Late(now, AP_TTL, A[x])}
  BY DEF LateOf
<1> HIDE DEF late
<1>1. V = IF Cardinality(DOMAIN A) < AP_MAX THEN {{}}
          ELSE IF late # {} THEN {late}
          ELSE IF strong THEN {{x} : x \in Map!Oldest(A)}
          ELSE {}
  BY <1>0, SameCardinality DEF Map!Victims
<1>2. (Cardinality(DOMAIN A) < AP_MAX <=> FreeAps(w) # {}) /\ late = ApNames(w, E)
  BY MapSizes, LateNames DEF late
<1>3. /\ ApNames(w, {}) = {} /\ (E # {} <=> late # {})
      /\ \A i : ApNames(w, {i}) = {w.ap[i].bssid}
  BY <1>2 DEF ApNames
<1>4. FreeAps(w) = {} => \A i \in OldestAps(w) : w.ap[i].bssid \in Map!Oldest(A)
  <2> SUFFICES ASSUME FreeAps(w) = {}, NEW i \in OldestAps(w)
               PROVE  w.ap[i].bssid \in Map!Oldest(A)
    OBVIOUS
  <2>1. UsedAps(w) = ApSlot /\ i \in ApSlot
    BY DEF FreeAps, UsedAps, OldestAps
  <2>2. w.ap[i].bssid \in DOMAIN A /\ A[w.ap[i].bssid] = w.ap[i].last_seen
    BY <2>1 DEF Maps, ApMap
  <2>3. \A y \in DOMAIN A : w.ap[i].last_seen <= A[y]
    BY <2>1 DEF Maps, ApMap, OldestAps
  <2>4. QED
    BY <2>2, <2>3 DEF Map!Oldest
<1> HIDE DEF E, V
<1>5. ApsToLeave(w, now, strong) =
         IF FreeAps(w) # {} THEN {{}}
         ELSE IF E # {} THEN {E}
         ELSE IF strong THEN {{i} : i \in OldestAps(w)}
         ELSE {}
  BY DEF ApsToLeave, E
<1>6. CASE FreeAps(w) # {}
  BY <1>1, <1>2, <1>3, <1>5, <1>6
<1>7. CASE FreeAps(w) = {} /\ E # {}
  <2>1. ApsToLeave(w, now, strong) = {E}
    BY <1>5, <1>7
  <2>2. V = {late}
    BY <1>1, <1>2, <1>3, <1>7
  <2>3. QED
    BY <1>2, <2>1, <2>2
<1>8. CASE FreeAps(w) = {} /\ E = {} /\ strong
  <2>1. ApsToLeave(w, now, strong) = {{i} : i \in OldestAps(w)}
        /\ V = {{x} : x \in Map!Oldest(A)}
    BY <1>1, <1>2, <1>3, <1>5, <1>8
  <2>2. PICK i \in OldestAps(w) : TRUE
    BY VictimIsOldest DEF Good
  <2>3. ASSUME NEW X \in ApsToLeave(w, now, strong)
        PROVE  ApNames(w, X) \in V
    <3>1. PICK k \in OldestAps(w) : X = {k}
      BY <2>1
    <3>2. ApNames(w, X) = {w.ap[k].bssid} /\ w.ap[k].bssid \in Map!Oldest(A)
      BY <1>3, <1>4, <1>8, <3>1
    <3>3. QED
      BY <2>1, <3>2
  <2>4. {i} \in ApsToLeave(w, now, strong)
    BY <2>1, <2>2
  <2>5. QED
    BY <2>3, <2>4
<1>9. CASE FreeAps(w) = {} /\ E = {} /\ ~strong
  BY <1>1, <1>2, <1>3, <1>5, <1>9
<1>10. QED
  BY <1>6, <1>7, <1>8, <1>9

LEMMA StaVictims ==
    ASSUME NEW w, Good(w), now \in Times, NEW strong \in BOOLEAN,
           NEW A, NEW S, NEW R, Maps(w, A, S, R)
    PROVE  LET V == Map!Victims(S, STA_MAX, STA_TTL, strong)
           IN /\ \A X \in StasToLeave(w, now, strong) : StaNames(w, X) \in V
              /\ StasToLeave(w, now, strong) = {} => V = {}
<1> DEFINE V == Map!Victims(S, STA_MAX, STA_TTL, strong)
           late == LateOf(S, STA_TTL)
           E == ExpiredStas(w, now)
<1> SUFFICES /\ \A X \in StasToLeave(w, now, strong) : StaNames(w, X) \in V
             /\ StasToLeave(w, now, strong) = {} => V = {}
  OBVIOUS
<1>0. late = {x \in DOMAIN S : Map!Late(now, STA_TTL, S[x])}
  BY DEF LateOf
<1> HIDE DEF late
<1>1. V = IF Cardinality(DOMAIN S) < STA_MAX THEN {{}}
          ELSE IF late # {} THEN {late}
          ELSE IF strong THEN {{x} : x \in Map!Oldest(S)}
          ELSE {}
  BY <1>0, SameCardinality DEF Map!Victims
<1>2. (Cardinality(DOMAIN S) < STA_MAX <=> FreeStas(w) # {}) /\ late = StaNames(w, E)
  BY MapSizes, LateNames DEF late
<1>3. /\ StaNames(w, {}) = {} /\ (E # {} <=> late # {})
      /\ \A j : StaNames(w, {j}) = {w.sta[j].mac}
  BY <1>2 DEF StaNames
<1>4. FreeStas(w) = {} => \A j \in OldestStas(w) : w.sta[j].mac \in Map!Oldest(S)
  <2> SUFFICES ASSUME FreeStas(w) = {}, NEW j \in OldestStas(w)
               PROVE  w.sta[j].mac \in Map!Oldest(S)
    OBVIOUS
  <2>1. UsedStas(w) = StaSlot /\ j \in StaSlot
    BY DEF FreeStas, UsedStas, OldestStas
  <2>2. w.sta[j].mac \in DOMAIN S /\ S[w.sta[j].mac] = w.sta[j].last_observed
    BY <2>1 DEF Maps, StaMap
  <2>3. \A y \in DOMAIN S : w.sta[j].last_observed <= S[y]
    BY <2>1 DEF Maps, StaMap, OldestStas
  <2>4. QED
    BY <2>2, <2>3 DEF Map!Oldest
<1> HIDE DEF E, V
<1>5. StasToLeave(w, now, strong) =
         IF FreeStas(w) # {} THEN {{}}
         ELSE IF E # {} THEN {E}
         ELSE IF strong THEN {{j} : j \in OldestStas(w)}
         ELSE {}
  BY DEF StasToLeave, E
<1>6. CASE FreeStas(w) # {}
  BY <1>1, <1>2, <1>3, <1>5, <1>6
<1>7. CASE FreeStas(w) = {} /\ E # {}
  <2>1. StasToLeave(w, now, strong) = {E}
    BY <1>5, <1>7
  <2>2. V = {late}
    BY <1>1, <1>2, <1>3, <1>7
  <2>3. QED
    BY <1>2, <2>1, <2>2
<1>8. CASE FreeStas(w) = {} /\ E = {} /\ strong
  <2>1. StasToLeave(w, now, strong) = {{j} : j \in OldestStas(w)}
        /\ V = {{x} : x \in Map!Oldest(S)}
    BY <1>1, <1>2, <1>3, <1>5, <1>8
  <2>2. PICK j \in OldestStas(w) : TRUE
    BY VictimIsOldest DEF Good
  <2>3. ASSUME NEW X \in StasToLeave(w, now, strong)
        PROVE  StaNames(w, X) \in V
    <3>1. PICK k \in OldestStas(w) : X = {k}
      BY <2>1
    <3>2. StaNames(w, X) = {w.sta[k].mac} /\ w.sta[k].mac \in Map!Oldest(S)
      BY <1>3, <1>4, <1>8, <3>1
    <3>3. QED
      BY <2>1, <3>2
  <2>4. {j} \in StasToLeave(w, now, strong)
    BY <2>1, <2>2
  <2>5. QED
    BY <2>3, <2>4
<1>9. CASE FreeStas(w) = {} /\ E = {} /\ ~strong
  BY <1>1, <1>2, <1>3, <1>5, <1>9
<1>10. QED
  BY <1>6, <1>7, <1>8, <1>9

-----------------------------------------------------------------------------
(* Looking an address up, or entering it, on the maps *)

LEMMA EnteredLearnt ==
    ASSUME NEW f, IsMap(f), NEW x, NEW max, NEW ttl, NEW strong,
           NEW out \in Room(f, x, max, ttl, strong)
    PROVE  /\ Map!Learn(Entered(f, x, out), x, now) = Map!Learn(Map!Without(f, out), x, now)
           /\ Entered(f, x, out) = IF x \in DOMAIN f THEN f
                                   ELSE Map!Learn(Map!Without(f, out), x, now)
<1>1. CASE x \in DOMAIN f
  <2>1. out = {} /\ Entered(f, x, out) = f
    BY <1>1 DEF Room, Entered
  <2>2. QED
    BY <1>1, <2>1, MapAlgebra
<1>2. CASE x \notin DOMAIN f
  BY <1>2, MapAlgebra DEF Entered
<1>3. QED
  BY <1>1, <1>2

LEMMA ReadingsAreMaps ==
    ASSUME NEW w, NEW A, NEW S, NEW R, Maps(w, A, S, R)
    PROVE  /\ IsMap(A) /\ IsMap(S) /\ IsMap(R)
           /\ \A b : b \in DOMAIN A <=> ApsNamed(w, b) # {}
           /\ \A m : m \in DOMAIN S <=> StasNamed(w, m) # {}
           /\ \A b : ApIsNewer(w, b, now) <=> Map!KnownLater(A, b)
           /\ \A m : StaIsNewer(w, m, now) <=> Map!KnownLater(S, m)
<1>1. IsMap(A) /\ IsMap(S) /\ IsMap(R)
  BY DEF Maps, ApMap, StaMap, RelMap, IsMap
<1>2. /\ \A b : b \in DOMAIN A <=> ApsNamed(w, b) # {}
      /\ \A b : \A i \in ApsNamed(w, b) : A[b] = w.ap[i].last_seen
  BY DEF Maps, ApMap, ApsNamed, UsedAps
<1>3. /\ \A m : m \in DOMAIN S <=> StasNamed(w, m) # {}
      /\ \A m : \A j \in StasNamed(w, m) : S[m] = w.sta[j].last_observed
  BY DEF Maps, StaMap, StasNamed, UsedStas
<1>4. \A b : ApIsNewer(w, b, now) <=> Map!KnownLater(A, b)
  BY <1>2 DEF ApIsNewer, Map!KnownLater
<1>5. \A m : StaIsNewer(w, m, now) <=> Map!KnownLater(S, m)
  BY <1>3 DEF StaIsNewer, Map!KnownLater
<1>6. QED
  BY <1>1, <1>2, <1>3, <1>4, <1>5

LEMMA ApForMaps ==
    ASSUME NEW w, Good(w), now \in Times, NEW b \in Mac, NEW strong \in BOOLEAN,
           NEW A, NEW S, NEW R, Maps(w, A, S, R)
    PROVE  LET a == ApFor(w, b, now, strong)
               V == Room(A, b, AP_MAX, AP_TTL, strong)
           IN IF a.slot = 0 THEN V = {} /\ Maps(a.w, A, S, R)
              ELSE \E out \in V : Maps(a.w, Entered(A, b, out), S, Map!RelWithoutAps(R, out))
<1> DEFINE a == ApFor(w, b, now, strong)
           V == Room(A, b, AP_MAX, AP_TTL, strong)
           X == ApsToLeave(w, now, strong)
           fresh == FreshAp(b, now, strong)
<1> SUFFICES IF a.slot = 0 THEN V = {} /\ Maps(a.w, A, S, R)
             ELSE \E out \in V : Maps(a.w, Entered(A, b, out), S, Map!RelWithoutAps(R, out))
  OBVIOUS
<1>1. IF ApsNamed(w, b) # {} THEN a.w = w /\ a.slot \in ApsNamed(w, b)
      ELSE IF X = {} THEN a.slot = 0 /\ Leaves(a.w, w, {}, {}, {})
      ELSE \E Y \in X : \E u :
              /\ Y \subseteq UsedAps(w) /\ Good(u)
              /\ Leaves(u, w, Y, {}, Orphans(w, Y))
              /\ ApsNamed(u, b) = {} /\ a.slot \in FreeAps(u)
              /\ \A k \in ApSlot : a.w.ap[k] = IF k = a.slot THEN fresh ELSE u.ap[k]
              /\ a.w.sta = u.sta
  BY ApForCases
<1>2. fresh.used /\ fresh.bssid = b /\ fresh.last_seen = now
  BY DEF FreshAp, ZeroAp
<1>3. /\ IsMap(A) /\ IsMap(R) /\ (b \in DOMAIN A <=> ApsNamed(w, b) # {})
  BY ReadingsAreMaps
<1>4. 0 \notin ApSlot
  BY DEF ApSlot
<1>5. V = IF b \in DOMAIN A THEN {{}} ELSE Map!Victims(A, AP_MAX, AP_TTL, strong)
  BY DEF Room
<1>6. /\ \A Y \in X : ApNames(w, Y) \in Map!Victims(A, AP_MAX, AP_TTL, strong)
      /\ X = {} => Map!Victims(A, AP_MAX, AP_TTL, strong) = {}
  BY ApVictims
<1> HIDE DEF a, V, X, fresh
<1>7. CASE b \in DOMAIN A
  <2>1. a.w = w /\ a.slot # 0 /\ {} \in V
    BY <1>1, <1>3, <1>4, <1>5, <1>7 DEF ApsNamed
  <2>2. Entered(A, b, {}) = A /\ Map!RelWithoutAps(R, {}) = R
    BY <1>3, <1>7, MapAlgebra DEF Entered
  <2>3. QED
    BY <2>1, <2>2
<1>8. CASE b \notin DOMAIN A /\ X = {}
  <2>1. a.slot = 0 /\ Leaves(a.w, w, {}, {}, {}) /\ V = {}
    BY <1>1, <1>3, <1>5, <1>6, <1>8
  <2>2. QED
    BY <2>1, NobodyLeavesMaps
<1>9. CASE b \notin DOMAIN A /\ X # {}
  <2>1. PICK Y \in X : \E u :
              /\ Y \subseteq UsedAps(w) /\ Good(u)
              /\ Leaves(u, w, Y, {}, Orphans(w, Y))
              /\ ApsNamed(u, b) = {} /\ a.slot \in FreeAps(u)
              /\ \A k \in ApSlot : a.w.ap[k] = IF k = a.slot THEN fresh ELSE u.ap[k]
              /\ a.w.sta = u.sta
    BY <1>1, <1>3, <1>9
  <2>2. PICK u :
              /\ Y \subseteq UsedAps(w) /\ Good(u)
              /\ Leaves(u, w, Y, {}, Orphans(w, Y))
              /\ ApsNamed(u, b) = {} /\ a.slot \in FreeAps(u)
              /\ \A k \in ApSlot : a.w.ap[k] = IF k = a.slot THEN fresh ELSE u.ap[k]
              /\ a.w.sta = u.sta
    BY <2>1
  <2> DEFINE out == ApNames(w, Y)
             A1 == Map!Without(A, out)
             R1 == Map!RelWithoutAps(R, out)
  <2>3. Maps(u, A1, S, R1)
    BY <2>2, ApsLeaveMaps
  <2> HIDE DEF A1, R1
  <2>4. a.slot \in ApSlot /\ ~u.ap[a.slot].used /\ a.slot # 0
    BY <1>4, <2>2 DEF FreeAps
  <2>5. Maps(a.w, Map!Learn(A1, b, fresh.last_seen), S, R1)
    BY <1>2, <2>2, <2>3, <2>4, ApWrittenMaps
  <2>6. Map!Learn(A1, b, fresh.last_seen) = Entered(A, b, out)
    BY <1>2, <1>9 DEF A1, Entered
  <2>7. out \in V
    BY <1>5, <1>6, <1>9
  <2> HIDE DEF out
  <2>8. QED
    BY <2>4, <2>5, <2>6, <2>7 DEF R1
<1>10. QED
  BY <1>7, <1>8, <1>9

LEMMA StaForMaps ==
    ASSUME NEW w, Good(w), now \in Times, NEW m \in Mac, NEW strong \in BOOLEAN,
           NEW A, NEW S, NEW R, Maps(w, A, S, R)
    PROVE  LET a == StaFor(w, m, now, strong)
               V == Room(S, m, STA_MAX, STA_TTL, strong)
           IN IF a.slot = 0 THEN V = {} /\ Maps(a.w, A, S, R)
              ELSE \E out \in V : Maps(a.w, A, Entered(S, m, out), Map!Without(R, out))
<1> DEFINE a == StaFor(w, m, now, strong)
           V == Room(S, m, STA_MAX, STA_TTL, strong)
           X == StasToLeave(w, now, strong)
           fresh == FreshSta(m, now)
<1> SUFFICES IF a.slot = 0 THEN V = {} /\ Maps(a.w, A, S, R)
             ELSE \E out \in V : Maps(a.w, A, Entered(S, m, out), Map!Without(R, out))
  OBVIOUS
<1>1. IF StasNamed(w, m) # {} THEN a.w = w /\ a.slot \in StasNamed(w, m)
      ELSE IF X = {} THEN a.slot = 0 /\ Leaves(a.w, w, {}, {}, {})
      ELSE \E Y \in X : \E u :
              /\ Y \subseteq UsedStas(w) /\ Good(u)
              /\ Leaves(u, w, {}, Y, Y)
              /\ StasNamed(u, m) = {} /\ a.slot \in FreeStas(u)
              /\ \A k \in StaSlot : a.w.sta[k] = IF k = a.slot THEN fresh ELSE u.sta[k]
              /\ a.w.ap = u.ap
  BY StaForCases
<1>2. fresh.used /\ fresh.mac = m /\ fresh.last_observed = now /\ fresh.rel_ap = 0
  BY DEF FreshSta, ZeroSta
<1>3. /\ IsMap(S) /\ IsMap(R) /\ (m \in DOMAIN S <=> StasNamed(w, m) # {})
  BY ReadingsAreMaps
<1>4. 0 \notin StaSlot
  BY DEF StaSlot
<1>5. V = IF m \in DOMAIN S THEN {{}} ELSE Map!Victims(S, STA_MAX, STA_TTL, strong)
  BY DEF Room
<1>6. /\ \A Y \in X : StaNames(w, Y) \in Map!Victims(S, STA_MAX, STA_TTL, strong)
      /\ X = {} => Map!Victims(S, STA_MAX, STA_TTL, strong) = {}
  BY StaVictims
<1> HIDE DEF a, V, X, fresh
<1>7. CASE m \in DOMAIN S
  <2>1. a.w = w /\ a.slot # 0 /\ {} \in V
    BY <1>1, <1>3, <1>4, <1>5, <1>7 DEF StasNamed
  <2>2. Entered(S, m, {}) = S /\ Map!Without(R, {}) = R
    BY <1>3, <1>7, MapAlgebra DEF Entered
  <2>3. QED
    BY <2>1, <2>2
<1>8. CASE m \notin DOMAIN S /\ X = {}
  <2>1. a.slot = 0 /\ Leaves(a.w, w, {}, {}, {}) /\ V = {}
    BY <1>1, <1>3, <1>5, <1>6, <1>8
  <2>2. QED
    BY <2>1, NobodyLeavesMaps
<1>9. CASE m \notin DOMAIN S /\ X # {}
  <2>1. PICK Y \in X : \E u :
              /\ Y \subseteq UsedStas(w) /\ Good(u)
              /\ Leaves(u, w, {}, Y, Y)
              /\ StasNamed(u, m) = {} /\ a.slot \in FreeStas(u)
              /\ \A k \in StaSlot : a.w.sta[k] = IF k = a.slot THEN fresh ELSE u.sta[k]
              /\ a.w.ap = u.ap
    BY <1>1, <1>3, <1>9
  <2>2. PICK u :
              /\ Y \subseteq UsedStas(w) /\ Good(u)
              /\ Leaves(u, w, {}, Y, Y)
              /\ StasNamed(u, m) = {} /\ a.slot \in FreeStas(u)
              /\ \A k \in StaSlot : a.w.sta[k] = IF k = a.slot THEN fresh ELSE u.sta[k]
              /\ a.w.ap = u.ap
    BY <2>1
  <2> DEFINE out == StaNames(w, Y)
             S1 == Map!Without(S, out)
             R1 == Map!Without(R, out)
  <2>3. Maps(u, A, S1, R1)
    BY <2>2, StasLeaveMaps
  <2> HIDE DEF S1, R1
  <2>4. a.slot \in StaSlot /\ ~u.sta[a.slot].used /\ a.slot # 0
    BY <1>4, <2>2 DEF FreeStas
  <2>5. Maps(a.w, A, Map!Learn(S1, m, fresh.last_observed), R1)
    BY <1>2, <2>2, <2>3, <2>4, StaWrittenMaps
  <2>6. Map!Learn(S1, m, fresh.last_observed) = Entered(S, m, out)
    BY <1>2, <1>9 DEF S1, Entered
  <2>7. out \in V
    BY <1>5, <1>6, <1>9
  <2> HIDE DEF out
  <2>8. QED
    BY <2>4, <2>5, <2>6, <2>7 DEF R1
<1>10. QED
  BY <1>7, <1>8, <1>9

-----------------------------------------------------------------------------
(* The handlers, on the maps *)

RoomForAp(A, b, strong)  == Room(A, b, AP_MAX, AP_TTL, strong)
RoomForSta(S, m, strong) == Room(S, m, STA_MAX, STA_TTL, strong)

LEMMA ApObservedMaps ==
    ASSUME NEW w, Good(w), now \in Times, NEW b \in Mac, NEW o \in Obs,
           NEW A, NEW S, NEW R, Maps(w, A, S, R)
    PROVE  \E out \in RoomForAp(A, b, TRUE) :
              Maps(ap_observed(w, b, now, b, o), Map!Learn(Map!Without(A, out), b, now),
                   S, Map!RelWithoutAps(R, out))
<1> DEFINE a == ApFor(w, b, now, TRUE)
           r == a.w.ap[a.slot]
           q == ApSpoke(r, now, b, o)
           v == [a.w EXCEPT !.ap[a.slot] = q]
<1>1. Good(a.w) /\ a.slot \in UsedAps(a.w) /\ r.bssid = b /\ a.slot # 0
  BY ApForGood
<1>2. PICK out \in RoomForAp(A, b, TRUE) :
         Maps(a.w, Entered(A, b, out), S, Map!RelWithoutAps(R, out))
  BY <1>1, ApForMaps DEF RoomForAp
<1>3. ap_observed(w, b, now, b, o) = v
  BY DEF ap_observed
<1> HIDE DEF a
<1>4. a.w \in WorldType /\ a.slot \in ApSlot /\ r \in ApRecord /\ r.used
      /\ o \in Observation /\ b \in Address
  BY <1>1, ObsAssumption DEF Good, WorldType, UsedAps, Address
<1>5. q.bssid = b /\ q.last_seen = now /\ q.used
  BY <1>1, <1>4, ApSpokeRefreshes, ApSpokeFields DEF ApRefreshed
<1>6. a.w.ap[a.slot].used /\ a.w.ap[a.slot].bssid = b
  BY <1>1, <1>4
<1> HIDE DEF q, r
<1>7. v.sta = a.w.sta /\ \A k \in ApSlot : v.ap[k] = IF k = a.slot THEN q ELSE a.w.ap[k]
  BY <1>4 DEF WorldType
<1> HIDE DEF v
<1> DEFINE A1 == Entered(A, b, out)
           R1 == Map!RelWithoutAps(R, out)
<1>8. Maps(a.w, A1, S, R1)
  BY <1>2
<1>9. Map!Learn(A1, b, now) = Map!Learn(Map!Without(A, out), b, now)
  <2>1. IsMap(A) /\ out \in Room(A, b, AP_MAX, AP_TTL, TRUE)
    BY <1>2, ReadingsAreMaps DEF RoomForAp
  <2>2. QED
    BY <2>1, EnteredLearnt
<1> HIDE DEF A1, R1
<1>10. Maps(v, Map!Learn(A1, b, q.last_seen), S, R1)
  BY <1>1, <1>4, <1>5, <1>6, <1>7, <1>8, ApWrittenMaps
<1>11. Maps(v, Map!Learn(Map!Without(A, out), b, now), S, Map!RelWithoutAps(R, out))
  BY <1>5, <1>9, <1>10 DEF R1
<1>12. QED
  BY <1>2, <1>3, <1>11

\* A station was heard: its slot was found or filled, and its record written.
Found(w, m, strong, u, j) ==
    /\ u = StaFor(w, m, now, strong).w /\ j = StaFor(w, m, now, strong).slot
    /\ j # 0 /\ strong \in BOOLEAN

StaWrites(v, u, j, q) ==
    /\ StaRefreshed(q, u.sta[j]) /\ q.last_observed = now /\ SameRelation(q, u.sta[j])
    /\ v.ap = u.ap /\ \A k \in StaSlot : v.sta[k] = IF k = j THEN q ELSE u.sta[k]

LEMMA StaHeardMaps ==
    ASSUME NEW w, Good(w), now \in Times, NEW A, NEW S, NEW R, Maps(w, A, S, R),
           NEW m \in Mac, NEW strong, NEW u, NEW j, Found(w, m, strong, u, j),
           NEW q, NEW v, StaWrites(v, u, j, q)
    PROVE  /\ j \in UsedStas(v) /\ v.sta[j].mac = m
           /\ \E out \in RoomForSta(S, m, strong) :
                 Maps(v, A, Map!Learn(Map!Without(S, out), m, now), Map!Without(R, out))
<1>1. Good(u) /\ j \in UsedStas(u) /\ u.sta[j].mac = m
  BY StaForGood DEF Found
<1>2. PICK out \in RoomForSta(S, m, strong) :
         Maps(u, A, Entered(S, m, out), Map!Without(R, out))
  BY StaForMaps DEF RoomForSta, Found
<1>3. j \in StaSlot /\ u.sta[j].used
  BY <1>1 DEF UsedStas
<1>4. q.used /\ q.mac = m /\ v.sta[j] = q
  BY <1>1, <1>3 DEF StaRefreshed, StaWrites
<1>5. j \in UsedStas(v)
  BY <1>3, <1>4 DEF UsedStas
<1> DEFINE S1 == Entered(S, m, out)
           R1 == Map!Without(R, out)
<1>6. Maps(u, A, S1, R1)
  BY <1>2
<1>7. Map!Learn(S1, m, now) = Map!Learn(Map!Without(S, out), m, now)
  <2>1. IsMap(S) /\ out \in Room(S, m, STA_MAX, STA_TTL, strong)
    BY <1>2, ReadingsAreMaps DEF RoomForSta
  <2>2. QED
    BY <2>1, EnteredLearnt
<1> HIDE DEF S1, R1
<1>8. Maps(v, A, Map!Learn(S1, m, q.last_observed), R1)
  <2>1. /\ SameRelation(q, u.sta[j]) /\ v.ap = u.ap
        /\ \A k \in StaSlot : v.sta[k] = IF k = j THEN q ELSE u.sta[k]
    BY DEF StaWrites
  <2>2. QED
    BY <1>1, <1>3, <1>4, <1>6, <2>1, StaWrittenMaps
<1>9. Maps(v, A, Map!Learn(Map!Without(S, out), m, now), Map!Without(R, out))
  BY <1>7, <1>8 DEF R1, StaWrites
<1>10. QED
  BY <1>2, <1>4, <1>5, <1>9

LEMMA StaNotedMaps ==
    ASSUME NEW w, Good(w), now \in Times, NEW m \in Mac, NEW probe \in BOOLEAN,
           NEW A, NEW S, NEW R, Maps(w, A, S, R)
    PROVE  \E out \in RoomForSta(S, m, TRUE) :
              Maps(sta_noted(w, m, now, m, probe), A,
                   Map!Learn(Map!Without(S, out), m, now), Map!Without(R, out))
<1> DEFINE st == StaFor(w, m, now, TRUE)
           r == st.w.sta[st.slot]
           heard == StaSpoke(r, now, m)
           q == IF probe THEN StaProbed(heard) ELSE heard
           v == [st.w EXCEPT !.sta[st.slot] = q]
<1>1. Good(st.w) /\ st.slot \in UsedStas(st.w) /\ r.mac = m /\ st.slot # 0
  BY StaForGood
<1>2. sta_noted(w, m, now, m, probe) = v
  BY DEF sta_noted
<1> DEFINE u == st.w
           j == st.slot
<1>3. /\ Found(w, m, TRUE, u, j) /\ r = u.sta[j] /\ v = [u EXCEPT !.sta[j] = q]
      /\ Good(u) /\ j \in UsedStas(u)
  BY <1>1 DEF Found
<1> HIDE DEF u, j, st
<1>4. r \in StaRecord /\ m \in Address /\ u \in WorldType /\ j \in StaSlot
  BY <1>3 DEF Good, WorldType, UsedStas, Address
<1> HIDE DEF r
<1>5. /\ heard.last_observed = now /\ SameRelation(heard, r) /\ StaRefreshed(heard, r)
  BY <1>4, StaSpokeFields, StaSpokeRefreshes
<1> HIDE DEF heard
<1>6. heard \in StaRecord
  BY <1>5 DEF StaRefreshed
<1>7. /\ StaRefreshed(StaProbed(heard), heard)
      /\ SameStaText(StaProbed(heard), heard) /\ SameRelation(StaProbed(heard), heard)
  BY <1>4, <1>6, StaSpokeFields, StaSpokeRefreshes
<1>8. StaRefreshed(q, r) /\ q.last_observed = now /\ SameRelation(q, r)
  BY <1>5, <1>7 DEF StaRefreshed, SameStaText, SameRelation
<1> HIDE DEF q
<1>b. v.ap = u.ap /\ \A k \in StaSlot : v.sta[k] = IF k = j THEN q ELSE u.sta[k]
  <2> DEFINE x == [u EXCEPT !.sta[j] = q]
  <2>1. x.ap = u.ap /\ \A k \in StaSlot : x.sta[k] = IF k = j THEN q ELSE u.sta[k]
    BY <1>4 DEF WorldType
  <2> HIDE DEF v
  <2>2. v = x
    BY <1>3
  <2> HIDE DEF x
  <2>3. QED
    BY <2>1, <2>2
<1> HIDE DEF v
<1>9. \E out \in RoomForSta(S, m, TRUE) :
         Maps(v, A, Map!Learn(Map!Without(S, out), m, now), Map!Without(R, out))
  <2>1. StaWrites(v, u, j, q)
    BY <1>3, <1>8, <1>b DEF StaWrites
  <2> DEFINE sure == TRUE
  <2>2. Found(w, m, sure, u, j)
    BY <1>3
  <2> HIDE DEF sure
  <2>3. \E out \in RoomForSta(S, m, sure) :
           Maps(v, A, Map!Learn(Map!Without(S, out), m, now), Map!Without(R, out))
    BY <2>1, <2>2, StaHeardMaps
  <2>4. QED
    BY <2>3 DEF sure
<1>10. QED
  BY <1>2, <1>9 DEF v

LEMMA DataUplinkMaps ==
    ASSUME NEW w, Good(w), now \in Times, NEW m \in Mac, NEW b \in Mac, m # b,
           NEW A, NEW S, NEW R, Maps(w, A, S, R)
    PROVE  LET v == data_uplink(w, m, b, now, m)
           IN \E out \in RoomForSta(S, m, TRUE) :
                LET S1 == Map!Learn(Map!Without(S, out), m, now)
                    R1 == Map!Without(R, out)
                IN \/ RoomForAp(A, b, FALSE) = {} /\ Maps(v, A, S1, R1)
                   \/ \E gone \in RoomForAp(A, b, FALSE) :
                         Maps(v, Entered(A, b, gone), S1,
                              Map!Evidence(Map!RelWithoutAps(R1, gone), m, b, UPLINK))
<1> DEFINE st == StaFor(w, m, now, TRUE)
           j == st.slot
           r == st.w.sta[j]
           p == StaSpoke(r, now, m)
           heard == [st.w EXCEPT !.sta[st.slot] = p]
           a == ApFor(heard, b, now, FALSE)
           i == a.slot
           g == a.w.ap[i]
           q == ApReached(g)
           u == [a.w EXCEPT !.ap[i] = q]
           v == data_uplink(w, m, b, now, m)
<1>1. Good(st.w) /\ j \in UsedStas(st.w) /\ r.mac = m /\ j # 0
  BY StaForGood
<1>2. v = IF i = 0 THEN a.w ELSE relation_evidence(u, j, i, UPLINK, now)
  BY DEF data_uplink
<1> DEFINE x == st.w
<1>3. /\ Found(w, m, TRUE, x, j) /\ r = x.sta[j] /\ heard = [x EXCEPT !.sta[j] = p]
      /\ Good(x) /\ j \in UsedStas(x)
  BY <1>1 DEF Found
<1> HIDE DEF x, j, st, v
<1>4. r \in StaRecord /\ m \in Address /\ x \in WorldType /\ j \in StaSlot
  BY <1>3 DEF Good, WorldType, UsedStas, Address
<1> HIDE DEF r
<1>5. /\ p.last_observed = now /\ SameRelation(p, r) /\ StaRefreshed(p, r)
  BY <1>4, StaSpokeFields, StaSpokeRefreshes
<1> HIDE DEF p, heard
<1>b. heard.ap = x.ap /\ \A k \in StaSlot : heard.sta[k] = IF k = j THEN p ELSE x.sta[k]
  <2> DEFINE y == [x EXCEPT !.sta[j] = p]
  <2>1. y.ap = x.ap /\ \A k \in StaSlot : y.sta[k] = IF k = j THEN p ELSE x.sta[k]
    BY <1>4 DEF WorldType
  <2>2. heard = y
    BY <1>3
  <2> HIDE DEF y
  <2>3. QED
    BY <2>1, <2>2
<1>c. Good(heard)
  BY <1>3, <1>5, RefreshStaGood
<1>6. /\ j \in UsedStas(heard) /\ heard.sta[j].mac = m
      /\ \E out \in RoomForSta(S, m, TRUE) :
            Maps(heard, A, Map!Learn(Map!Without(S, out), m, now), Map!Without(R, out))
  <2>1. StaWrites(heard, x, j, p)
    BY <1>3, <1>5, <1>b DEF StaWrites
  <2> DEFINE sure == TRUE
  <2>2. Found(w, m, sure, x, j)
    BY <1>3
  <2> HIDE DEF sure
  <2>3. /\ j \in UsedStas(heard) /\ heard.sta[j].mac = m
        /\ \E out \in RoomForSta(S, m, sure) :
              Maps(heard, A, Map!Learn(Map!Without(S, out), m, now), Map!Without(R, out))
    BY <2>1, <2>2, StaHeardMaps
  <2>4. QED
    BY <2>3 DEF sure
<1>7. PICK out \in RoomForSta(S, m, TRUE) :
         Maps(heard, A, Map!Learn(Map!Without(S, out), m, now), Map!Without(R, out))
  BY <1>6
<1> DEFINE S1 == Map!Learn(Map!Without(S, out), m, now)
           R1 == Map!Without(R, out)
<1>8. Maps(heard, A, S1, R1)
  BY <1>7
<1> HIDE DEF S1, R1
<1>9. /\ Good(a.w) /\ SameStas(a.w, heard)
      /\ i # 0 => i \in UsedAps(a.w) /\ g.bssid = b
  BY <1>c, ApForGood
<1>10. IF i = 0 THEN RoomForAp(A, b, FALSE) = {} /\ Maps(a.w, A, S1, R1)
       ELSE \E gone \in RoomForAp(A, b, FALSE) :
               Maps(a.w, Entered(A, b, gone), S1, Map!RelWithoutAps(R1, gone))
  BY <1>c, <1>8, ApForMaps DEF RoomForAp
<1>11. j \in UsedStas(a.w) /\ a.w.sta[j].mac = m
  BY <1>6, <1>9, StillUsed DEF SameStas, UsedStas
<1>a. g = a.w.ap[i]
  OBVIOUS
<1> HIDE DEF a, i, g
<1>12. CASE i = 0
  BY <1>2, <1>10, <1>12 DEF S1, R1, v
<1>13. CASE i # 0
  <2>1. i \in UsedAps(a.w) /\ g.bssid = b /\ g \in ApRecord /\ a.w \in WorldType
        /\ i \in ApSlot /\ g.used
    BY <1>9, <1>13, <1>a DEF Good, WorldType, UsedAps
  <2>2. SatInc(g.data_up_count) \in 0..SatMax
    BY <2>1, SatIncType DEF ApRecord
  <2>3. ApRefreshed(q, g) /\ SameApText(q, g)
    BY <2>1, <2>2, ApFields, ApReachedFields DEF ApReached
  <2>4. q.used /\ q.bssid = b /\ q.last_seen = g.last_seen
    BY <2>1, <2>3 DEF ApRefreshed, SameApText
  <2> HIDE DEF q
  <2>5. Good(u) /\ SameAps(u, a.w) /\ SameStas(u, a.w)
    BY <1>9, <1>a, <2>1, <2>3, RefreshApGood
  <2>6. u.sta = a.w.sta /\ \A k \in ApSlot : u.ap[k] = IF k = i THEN q ELSE a.w.ap[k]
    BY <2>1 DEF WorldType
  <2> HIDE DEF u
  <2>7. PICK gone \in RoomForAp(A, b, FALSE) :
           Maps(a.w, Entered(A, b, gone), S1, Map!RelWithoutAps(R1, gone))
    BY <1>10, <1>13
  <2> DEFINE A2 == Entered(A, b, gone)
             R2 == Map!RelWithoutAps(R1, gone)
  <2>8. Maps(a.w, A2, S1, R2)
    BY <2>7
  <2> HIDE DEF A2, R2
  <2>9. a.w.ap[i].used /\ a.w.ap[i].bssid = b
    BY <1>a, <2>1
  <2>10. Maps(u, Map!Learn(A2, b, q.last_seen), S1, R2)
    BY <1>9, <2>1, <2>4, <2>6, <2>8, <2>9, ApWrittenMaps
  <2>11. Map!Learn(A2, b, q.last_seen) = A2
    <3>1. b \in DOMAIN A2 /\ A2[b] = g.last_seen
      BY <1>a, <2>1, <2>8 DEF Maps, ApMap
    <3>2. IsMap(A2)
      BY <2>8, ReadingsAreMaps
    <3>3. QED
      BY <2>4, <3>1, <3>2, MapAlgebra
  <2>12. j \in UsedStas(u) /\ i \in UsedAps(u) /\ u.sta[j].mac = m /\ u.ap[i].bssid = b
    BY <1>11, <2>1, <2>4, <2>5, <2>6, StillUsed
  <2>13. Maps(u, A2, S1, R2)
    BY <2>10, <2>11
  <2>14. Maps(relation_evidence(u, j, i, UPLINK, now), A2, S1,
              Map!Evidence(R2, u.sta[j].mac, u.ap[i].bssid, UPLINK))
    BY <2>5, <2>12, <2>13, EvidenceMaps
  <2>15. Maps(v, A2, S1, Map!Evidence(R2, m, b, UPLINK))
    BY <1>2, <1>13, <2>12, <2>14
  <2>16. QED
    BY <2>7, <2>15 DEF A2, R2, S1, R1, v
<1>14. QED
  BY <1>12, <1>13

\* The station side of a downlink frame.
LEMMA DownlinkDestMaps ==
    ASSUME NEW w, Good(w), now \in Times, NEW i \in UsedAps(w), NEW d \in Mac,
           NEW A, NEW S, NEW R, Maps(w, A, S, R)
    PROVE  LET v == downlink_dest(w, i, d, now)
           IN \/ Maps(v, A, S, R)
              \/ \E out \in RoomForSta(S, d, FALSE) :
                    Maps(v, A, Map!Learn(Map!Without(S, out), d, now),
                         Map!Evidence(Map!Without(R, out), d, w.ap[i].bssid, DOWNLINK))
<1> DEFINE st == StaFor(w, d, now, FALSE)
           j == st.slot
           r == st.w.sta[j]
           q == StaAddressed(r, now)
           u == [st.w EXCEPT !.sta[st.slot] = q]
           v == downlink_dest(w, i, d, now)
<1>1. /\ Good(st.w) /\ SameAps(st.w, w)
      /\ j # 0 => j \in UsedStas(st.w) /\ r.mac = d
  BY StaForGood
<1>2. v = IF j = 0 THEN st.w ELSE relation_evidence(u, j, i, DOWNLINK, now)
  BY DEF downlink_dest
<1>3. j = 0 => Maps(st.w, A, S, R)
  BY StaForMaps
<1> DEFINE x == st.w
<1>4. /\ j # 0 => Found(w, d, FALSE, x, j) /\ j \in UsedStas(x)
      /\ Good(x) /\ r = x.sta[j] /\ u = [x EXCEPT !.sta[j] = q] /\ x = st.w
  BY <1>1 DEF Found
<1> HIDE DEF x, j, st, v
<1>5. CASE j = 0
  BY <1>2, <1>3, <1>5 DEF v
<1>6. CASE j # 0
  <2>1. r \in StaRecord /\ d \in Address /\ x \in WorldType /\ j \in StaSlot
    BY <1>4, <1>6 DEF Good, WorldType, UsedStas, Address
  <2> HIDE DEF r
  <2>2. /\ q.last_observed = now /\ SameRelation(q, r) /\ StaRefreshed(q, r)
    BY <2>1, StaSpokeFields, StaSpokeRefreshes
  <2> HIDE DEF q, u
  <2>b. u.ap = x.ap /\ \A k \in StaSlot : u.sta[k] = IF k = j THEN q ELSE x.sta[k]
    <3> DEFINE y == [x EXCEPT !.sta[j] = q]
    <3>1. y.ap = x.ap /\ \A k \in StaSlot : y.sta[k] = IF k = j THEN q ELSE x.sta[k]
      BY <2>1 DEF WorldType
    <3>2. u = y
      BY <1>4
    <3> HIDE DEF y
    <3>3. QED
      BY <3>1, <3>2
  <2>c. Good(u)
    BY <1>4, <1>6, <2>2, RefreshStaGood
  <2>3. /\ j \in UsedStas(u) /\ u.sta[j].mac = d
        /\ \E out \in RoomForSta(S, d, FALSE) :
              Maps(u, A, Map!Learn(Map!Without(S, out), d, now), Map!Without(R, out))
    <3>1. StaWrites(u, x, j, q)
      BY <1>4, <2>2, <2>b DEF StaWrites
    <3> DEFINE sure == FALSE
    <3>2. Found(w, d, sure, x, j)
      BY <1>4, <1>6
    <3> HIDE DEF sure
    <3>3. /\ j \in UsedStas(u) /\ u.sta[j].mac = d
          /\ \E out \in RoomForSta(S, d, sure) :
                Maps(u, A, Map!Learn(Map!Without(S, out), d, now), Map!Without(R, out))
      BY <3>1, <3>2, StaHeardMaps
    <3>4. QED
      BY <3>3 DEF sure
  <2>4. PICK out \in RoomForSta(S, d, FALSE) :
           Maps(u, A, Map!Learn(Map!Without(S, out), d, now), Map!Without(R, out))
    BY <2>3
  <2>5. i \in UsedAps(u) /\ u.ap[i].bssid = w.ap[i].bssid
    BY <1>1, <1>4, <2>b DEF SameAps, UsedAps
  <2>6. Maps(relation_evidence(u, j, i, DOWNLINK, now), A,
             Map!Learn(Map!Without(S, out), d, now),
             Map!Evidence(Map!Without(R, out), u.sta[j].mac, u.ap[i].bssid, DOWNLINK))
    BY <2>3, <2>4, <2>5, <2>c, EvidenceMaps
  <2>7. QED
    BY <1>2, <1>6, <2>3, <2>4, <2>5, <2>6 DEF v
<1>7. QED
  BY <1>5, <1>6

LEMMA DataDownlinkMaps ==
    ASSUME NEW w, Good(w), now \in Times, NEW b \in Mac, NEW d,
           NEW A, NEW S, NEW R, Maps(w, A, S, R)
    PROVE  LET v == data_downlink(w, b, d, now, b)
           IN \/ Maps(v, A, S, R)
              \/ \E gone \in RoomForAp(A, b, FALSE) :
                   LET A1 == Map!Learn(Map!Without(A, gone), b, now)
                       R1 == Map!RelWithoutAps(R, gone)
                   IN \/ Maps(v, A1, S, R1)
                      \/ /\ d \in Mac /\ d # b /\ ~Map!KnownLater(S, d)
                         /\ \E out \in RoomForSta(S, d, FALSE) :
                              Maps(v, A1, Map!Learn(Map!Without(S, out), d, now),
                                   Map!Evidence(Map!Without(R1, out), d, b, DOWNLINK))
<1> DEFINE a == ApFor(w, b, now, FALSE)
           i == a.slot
           g == a.w.ap[i]
           q == ApRelayed(g, now, b)
           heard == [a.w EXCEPT !.ap[i] = q]
           v == data_downlink(w, b, d, now, b)
<1>1. Good(a.w) /\ (i # 0 => i \in UsedAps(a.w) /\ g.bssid = b)
  BY ApForGood
<1>2. IF i = 0 THEN Maps(a.w, A, S, R)
      ELSE \E gone \in RoomForAp(A, b, FALSE) :
              Maps(a.w, Entered(A, b, gone), S, Map!RelWithoutAps(R, gone))
  BY ApForMaps DEF RoomForAp
<1>3. v = IF i = 0 THEN a.w
          ELSE IF d \notin Mac \/ d = b \/ StaIsNewer(heard, d, now) THEN heard
          ELSE downlink_dest(heard, i, d, now)
  BY DEF data_downlink
<1>a. g = a.w.ap[i]
  OBVIOUS
<1> HIDE DEF a, i, g, v
<1>4. CASE i = 0
  BY <1>2, <1>3, <1>4 DEF v
<1>5. CASE i # 0
  <2>1. /\ i \in UsedAps(a.w) /\ g.bssid = b /\ g \in ApRecord /\ a.w \in WorldType
        /\ i \in ApSlot /\ b \in Address /\ g.used
    BY <1>1, <1>5, <1>a DEF Good, WorldType, UsedAps, Address
  <2>2. ApRefreshed(q, a.w.ap[i]) /\ q.bssid = b /\ q.last_seen = now
    BY <1>a, <2>1, ApRelayedRefreshes, ApRelayedFields
  <2>3. q.used
    BY <1>a, <2>1, <2>2 DEF ApRefreshed
  <2> HIDE DEF q
  <2>4. Good(heard) /\ SameAps(heard, a.w)
    BY <1>1, <2>1, <2>2, RefreshApGood
  <2>5. heard.sta = a.w.sta
        /\ \A k \in ApSlot : heard.ap[k] = IF k = i THEN q ELSE a.w.ap[k]
    BY <2>1 DEF WorldType
  <2> HIDE DEF heard
  <2>6. PICK gone \in RoomForAp(A, b, FALSE) :
           Maps(a.w, Entered(A, b, gone), S, Map!RelWithoutAps(R, gone))
    BY <1>2, <1>5
  <2> DEFINE A0 == Entered(A, b, gone)
             A1 == Map!Learn(Map!Without(A, gone), b, now)
             R1 == Map!RelWithoutAps(R, gone)
  <2>7. Maps(a.w, A0, S, R1)
    BY <2>6
  <2>8. Map!Learn(A0, b, now) = A1
    <3>1. IsMap(A) /\ gone \in Room(A, b, AP_MAX, AP_TTL, FALSE)
      BY <2>6, ReadingsAreMaps DEF RoomForAp
    <3>2. QED
      BY <3>1, EnteredLearnt
  <2> HIDE DEF A0, A1, R1
  <2>9. a.w.ap[i].used /\ a.w.ap[i].bssid = b
    BY <1>a, <2>1
  <2>10. Maps(heard, Map!Learn(A0, b, q.last_seen), S, R1)
    BY <1>1, <2>1, <2>2, <2>3, <2>5, <2>7, <2>9, ApWrittenMaps
  <2>11. Maps(heard, A1, S, R1)
    BY <2>2, <2>8, <2>10
  <2>12. i \in UsedAps(heard) /\ heard.ap[i].bssid = b
    BY <2>1, <2>2, <2>4, <2>5, StillUsed
  <2>13. CASE d \notin Mac \/ d = b \/ StaIsNewer(heard, d, now)
    BY <1>3, <1>5, <2>6, <2>11, <2>13 DEF A1, R1, v
  <2>14. CASE d \in Mac /\ d # b /\ ~StaIsNewer(heard, d, now)
    <3>1. v = downlink_dest(heard, i, d, now)
      BY <1>3, <1>5, <2>14
    <3>2. ~Map!KnownLater(S, d)
      BY <2>11, <2>14, ReadingsAreMaps
    <3>3. \/ Maps(v, A1, S, R1)
          \/ \E out \in RoomForSta(S, d, FALSE) :
                Maps(v, A1, Map!Learn(Map!Without(S, out), d, now),
                     Map!Evidence(Map!Without(R1, out), d, heard.ap[i].bssid, DOWNLINK))
      BY <2>4, <2>11, <2>12, <2>14, <3>1, DownlinkDestMaps
    <3>4. \/ Maps(v, A1, S, R1)
          \/ \E out \in RoomForSta(S, d, FALSE) :
                Maps(v, A1, Map!Learn(Map!Without(S, out), d, now),
                     Map!Evidence(Map!Without(R1, out), d, b, DOWNLINK))
      BY <2>12, <3>3
    <3>5. QED
      BY <2>6, <2>14, <3>2, <3>4 DEF A1, R1, v
  <2>15. QED
    BY <2>13, <2>14
<1>6. QED
  BY <1>4, <1>5

LEMMA MaintainedMaps ==
    ASSUME NEW w, Good(w), now \in Times,
           NEW A, NEW S, NEW R, Maps(w, A, S, R)
    PROVE  LET lateRels == {m \in DOMAIN R : Map!Late(now, REL_TTL, R[m].at)}
           IN Maps(maintained(w, now),
                   Map!Without(A, LateOf(A, AP_TTL)), Map!Without(S, LateOf(S, STA_TTL)),
                   Map!Without(Map!RelWithoutAps(R, LateOf(A, AP_TTL)),
                               LateOf(S, STA_TTL) \cup lateRels))
<1> DEFINE x == sweep_expired_aps(w, now)
           y == sweep_expired_rels(x, now)
           z == sweep_expired_stas(y, now)
           v == CountN(z, "maint_runs", 1)
           lateAps == LateOf(A, AP_TTL)
           lateStas == LateOf(S, STA_TTL)
           lateRels == {m \in DOMAIN R : Map!Late(now, REL_TTL, R[m].at)}
           A1 == Map!Without(A, lateAps)
           R1 == Map!RelWithoutAps(R, lateAps)
           late1 == {m \in DOMAIN R1 : Map!Late(now, REL_TTL, R1[m].at)}
           R2 == Map!Without(R1, late1)
           S3 == Map!Without(S, lateStas)
           R3 == Map!Without(R2, lateStas)
<1>1. maintained(w, now) = v
  BY DEF maintained, Count
<1>2. Good(x) /\ Maps(x, A1, S, R1)
  <2>1. ExpiredAps(w, now) \in SUBSET UsedAps(w)
    BY DEF ExpiredAps, UsedAps
  <2>2. lateAps = ApNames(w, ExpiredAps(w, now))
    BY LateNames
  <2>3. Good(x) /\ Leaves(x, w, ExpiredAps(w, now), {}, Orphans(w, ExpiredAps(w, now)))
    BY SweepApsGood, SweepApsLeaves
  <2> HIDE DEF lateAps, x
  <2>4. QED
    BY <2>1, <2>2, <2>3, ApsLeaveMaps
<1> HIDE DEF x, A1, R1
<1>3. Good(y) /\ Maps(y, A1, S, R2)
  <2>1. ExpiredRels(x, now) \in SUBSET UsedStas(x) /\ {} \in SUBSET UsedStas(x)
    BY DEF ExpiredRels, UsedStas
  <2>2. late1 = StaNames(x, ExpiredRels(x, now))
    BY <1>2, LateNames
  <2>3. Good(y) /\ Leaves(y, x, {}, {}, ExpiredRels(x, now))
    BY <1>2, SweepRelsGood, SweepRelsLeaves
  <2> HIDE DEF late1, y
  <2>4. Maps(y, A1, Map!Without(S, StaNames(x, {})), Map!Without(R1, StaNames(x, ExpiredRels(x, now))))
    BY <1>2, <2>1, <2>3, StasLeaveMaps
  <2>5. StaNames(x, {}) = {} /\ IsMap(S)
    BY ReadingsAreMaps DEF StaNames
  <2>6. QED
    BY <2>2, <2>3, <2>4, <2>5, MapAlgebra
<1> HIDE DEF y, R2
<1>4. Good(z) /\ Maps(z, A1, S3, R3)
  <2>1. ExpiredStas(y, now) \in SUBSET UsedStas(y)
    BY DEF ExpiredStas, UsedStas
  <2>2. lateStas = StaNames(y, ExpiredStas(y, now))
    BY <1>3, LateNames
  <2>3. Good(z) /\ Leaves(z, y, {}, ExpiredStas(y, now), ExpiredStas(y, now))
    BY <1>3, SweepStasGood, SweepStasLeaves
  <2> HIDE DEF lateStas, z
  <2>4. QED
    BY <1>3, <2>1, <2>2, <2>3, StasLeaveMaps
<1> HIDE DEF z
<1>5. Maps(v, A1, S3, R3)
  <2>1. SameTables(v, z) /\ z \in WorldType
    BY <1>4, CountGood DEF Good
  <2> HIDE DEF v, S3, R3
  <2>2. QED
    BY <1>4, <2>1, SameTablesLeave, NobodyLeavesMaps
<1>6. R3 = Map!Without(R1, lateStas \cup lateRels)
  <2>1. R1 = [m \in DOMAIN R \ {n \in DOMAIN R : R[n].ap \in lateAps} |-> R[m]]
    BY MapOperators DEF R1
  <2>2. R2 = [m \in DOMAIN R1 \ late1 |-> R1[m]]
    BY MapOperators DEF R2
  <2>3. R3 = [m \in DOMAIN R2 \ lateStas |-> R2[m]]
    BY MapOperators
  <2>4. Map!Without(R1, lateStas \cup lateRels) =
           [m \in DOMAIN R1 \ (lateStas \cup lateRels) |-> R1[m]]
    BY MapOperators
  <2>5. \A m \in DOMAIN R1 : m \in late1 <=> m \in lateRels
    BY <2>1
  <2> HIDE DEF late1, lateRels, lateStas, R3
  <2>6. QED
    BY <2>2, <2>3, <2>4, <2>5
<1> HIDE DEF v, R3
<1>7. QED
  BY <1>1, <1>5, <1>6 DEF A1, R1, S3

-----------------------------------------------------------------------------
(* The tables implement the maps *)

LEMMA InitMaps == Init => Map!AbsInit
<1> SUFFICES ASSUME Init PROVE Map!AbsInit
  OBVIOUS
<1>1. UsedAps(world) = {} /\ UsedStas(world) = {} /\ now = 0
  BY DEF Init, world_init, UsedAps, UsedStas, ZeroAp, ZeroSta
<1>2. KnownAps(world) = {} /\ KnownStas(world) = {}
  BY <1>1 DEF KnownAps, KnownStas
<1>3. DOMAIN apsMap = {} /\ DOMAIN stasMap = {} /\ DOMAIN relMap = {}
  BY <1>2 DEF apsMap, stasMap, relMap
<1>4. /\ apsMap = [x \in {} |-> apsMap[x]] /\ stasMap = [x \in {} |-> stasMap[x]]
      /\ relMap = [x \in {} |-> relMap[x]]
  BY <1>3 DEF apsMap, stasMap, relMap
<1>5. \A f : f = [x \in {} |-> f[x]] => f = << >>
  OBVIOUS
<1>6. QED
  BY <1>1, <1>4, <1>5 DEF Map!AbsInit

LEMMA NextMaps ==
    ASSUME IInv, [Next]_vars, Maps(world, apsMap, stasMap, relMap),
           Maps(world', apsMap', stasMap', relMap')
    PROVE  [Map!AbsNext]_(Map!absVars)
<1> DEFINE A == apsMap
           S == stasMap
           R == relMap
<1>0. Good(world) /\ now \in Times /\ Maps(world, A, S, R)
  BY DEF IInv
\* Reading the next world is what the maps become.
<1>r. ASSUME NEW B, NEW T, NEW Q, Maps(world', B, T, Q)
      PROVE  apsMap' = B /\ stasMap' = T /\ relMap' = Q
  BY <1>r, ReadingUnique
<1>s. ASSUME Maps(world', A, S, R), now' = now
      PROVE  [Map!AbsNext]_(Map!absVars)
  BY <1>r, <1>s DEF Map!absVars
<1>c. ASSUME NEW c, world' = Count(world, c), now' = now
      PROVE  [Map!AbsNext]_(Map!absVars)
  <2>1. SameTables(world', world) /\ world \in WorldType
    BY <1>0, <1>c, CountGood DEF Count, Good
  <2>2. Maps(world', A, S, R)
    BY <1>0, <2>1, SameTablesLeave, NobodyLeavesMaps
  <2>3. QED
    BY <1>c, <1>s, <2>2
<1>k. /\ \A b : ApIsNewer(world, b, now) <=> Map!KnownLater(A, b)
      /\ \A m : StaIsNewer(world, m, now) <=> Map!KnownLater(S, m)
  BY <1>0, ReadingsAreMaps
<1>u. UPLINK = Map!UP /\ DOWNLINK = Map!DOWN
  BY DEF UPLINK, DOWNLINK, Map!UP, Map!DOWN
<1>v. /\ \A b, strong : RoomForAp(A, b, strong) = Map!RoomForAp(b, strong)
      /\ \A m, strong : RoomForSta(S, m, strong) = Map!RoomForSta(m, strong)
  BY DEF RoomForAp, RoomForSta, Room, Map!RoomForAp, Map!RoomForSta
<1> HIDE DEF A, S, R
<1>e. A = apsMap /\ S = stasMap /\ R = relMap
  BY DEF A, S, R
<1>1. CASE Clock
  <2>1. world' = world /\ now' \in Times /\ (now' > now \/ ClockMayRegress)
    BY <1>1 DEF Clock
  <2>2. now' \in 0..MaxTime /\ (ClockMayRegress \/ now' >= now)
    BY <1>0, <2>1 DEF Times
  <2>3. Maps(world', A, S, R)
    BY <1>0, <2>1
  <2>4. apsMap' = apsMap /\ stasMap' = stasMap /\ relMap' = relMap
    BY <1>e, <1>r, <2>3
  <2>5. Map!Clock
    BY <2>2, <2>4 DEF Map!Clock
  <2>6. QED
    BY <2>5 DEF Map!AbsNext
<1>2. ASSUME NEW b \in Address, NEW o \in Obs, world_on_ap_observation(b, o)
      PROVE  [Map!AbsNext]_(Map!absVars)
  <2>0. now' = now
    BY <1>2 DEF world_on_ap_observation
  <2>1. CASE \E c : world' = Count(world, c)
    BY <1>c, <2>0, <2>1
  <2>2. CASE b \in Mac /\ ~ApIsNewer(world, b, now) /\ world' = ap_observed(world, b, now, b, o)
    <3>1. PICK out \in RoomForAp(A, b, TRUE) :
             Maps(world', Map!Learn(Map!Without(A, out), b, now), S, Map!RelWithoutAps(R, out))
      BY <1>0, <2>2, ApObservedMaps
    <3>2. /\ apsMap' = Map!Learn(Map!Without(A, out), b, now) /\ stasMap' = S
          /\ relMap' = Map!RelWithoutAps(R, out)
      BY <1>r, <3>1
    <3>3. ~Map!KnownLater(A, b) /\ out \in Map!RoomForAp(b, TRUE)
      BY <1>k, <1>v, <2>2, <3>1
    <3>4. Map!ApHeard(b)
      BY <1>e, <2>0, <3>2, <3>3 DEF Map!ApHeard
    <3>5. QED
      BY <2>2, <3>4 DEF Map!AbsNext
  <2>3. QED
    BY <1>2, <2>1, <2>2 DEF world_on_ap_observation
<1>3. ASSUME NEW m \in Address, NEW b \in Address, world_on_uplink(m, b)
      PROVE  [Map!AbsNext]_(Map!absVars)
  <2>0. now' = now
    BY <1>3 DEF world_on_uplink
  <2>1. CASE \E c : world' = Count(world, c)
    BY <1>c, <2>0, <2>1
  <2>2. CASE /\ m \in Mac /\ b \in Mac /\ m # b /\ ~StaIsNewer(world, m, now)
             /\ world' = data_uplink(world, m, b, now, m)
    <3>1. PICK out \in RoomForSta(S, m, TRUE) :
             LET S1 == Map!Learn(Map!Without(S, out), m, now)
                 R1 == Map!Without(R, out)
             IN \/ RoomForAp(A, b, FALSE) = {} /\ Maps(world', A, S1, R1)
                \/ \E gone \in RoomForAp(A, b, FALSE) :
                      Maps(world', Entered(A, b, gone), S1,
                           Map!Evidence(Map!RelWithoutAps(R1, gone), m, b, UPLINK))
      BY <1>0, <2>2, DataUplinkMaps
    <3>2. ~Map!KnownLater(S, m) /\ out \in Map!RoomForSta(m, TRUE)
      BY <1>k, <1>v, <2>2, <3>1
    <3>3. CASE /\ RoomForAp(A, b, FALSE) = {}
               /\ Maps(world', A, Map!Learn(Map!Without(S, out), m, now), Map!Without(R, out))
      <4>1. /\ apsMap' = A /\ stasMap' = Map!Learn(Map!Without(S, out), m, now)
            /\ relMap' = Map!Without(R, out)
        BY <1>r, <3>3
      <4>2. Map!RoomForAp(b, FALSE) = {}
        BY <1>v, <3>3
      <4>3. Map!Uplink(m, b)
        BY <1>e, <2>0, <2>2, <3>2, <4>1, <4>2 DEF Map!Uplink
      <4>4. QED
        BY <2>2, <4>3 DEF Map!AbsNext
    <3>4. CASE \E gone \in RoomForAp(A, b, FALSE) :
                  Maps(world', Entered(A, b, gone), Map!Learn(Map!Without(S, out), m, now),
                       Map!Evidence(Map!RelWithoutAps(Map!Without(R, out), gone), m, b, UPLINK))
      <4>1. PICK gone \in RoomForAp(A, b, FALSE) :
                  Maps(world', Entered(A, b, gone), Map!Learn(Map!Without(S, out), m, now),
                       Map!Evidence(Map!RelWithoutAps(Map!Without(R, out), gone), m, b, UPLINK))
        BY <3>4
      <4>2. /\ apsMap' = Entered(A, b, gone)
            /\ stasMap' = Map!Learn(Map!Without(S, out), m, now)
            /\ relMap' = Map!Evidence(Map!RelWithoutAps(Map!Without(R, out), gone), m, b, Map!UP)
        BY <1>r, <1>u, <4>1
      <4>3. gone \in Map!RoomForAp(b, FALSE)
        BY <1>v
      <4>4. apsMap' = IF b \in DOMAIN A THEN A ELSE Map!Learn(Map!Without(A, gone), b, now)
        BY <4>2 DEF Entered
      <4>5. Map!Uplink(m, b)
        BY <1>e, <2>0, <2>2, <3>2, <4>2, <4>3, <4>4 DEF Map!Uplink
      <4>6. QED
        BY <2>2, <4>5 DEF Map!AbsNext
    <3>5. QED
      BY <3>1, <3>3, <3>4
  <2>3. QED
    BY <1>3, <2>1, <2>2 DEF world_on_uplink
<1>4. ASSUME NEW b \in Address, NEW d \in Address, world_on_downlink(b, d)
      PROVE  [Map!AbsNext]_(Map!absVars)
  <2>0. now' = now
    BY <1>4 DEF world_on_downlink
  <2>1. CASE \E c : world' = Count(world, c)
    BY <1>c, <2>0, <2>1
  <2>2. CASE /\ b \in Mac /\ ~ApIsNewer(world, b, now)
             /\ world' = data_downlink(world, b, d, now, b)
    <3>1. \/ Maps(world', A, S, R)
          \/ \E gone \in RoomForAp(A, b, FALSE) :
               LET A1 == Map!Learn(Map!Without(A, gone), b, now)
                   R1 == Map!RelWithoutAps(R, gone)
               IN \/ Maps(world', A1, S, R1)
                  \/ /\ d \in Mac /\ d # b /\ ~Map!KnownLater(S, d)
                     /\ \E out \in RoomForSta(S, d, FALSE) :
                          Maps(world', A1, Map!Learn(Map!Without(S, out), d, now),
                               Map!Evidence(Map!Without(R1, out), d, b, DOWNLINK))
      BY ZenonT(30), <1>0, <2>2, DataDownlinkMaps
    <3>2. ~Map!KnownLater(A, b)
      BY <1>k, <2>2
    <3>3. CASE Maps(world', A, S, R)
      BY <1>s, <2>0, <3>3 DEF A, S, R
    <3>4. ASSUME NEW gone \in RoomForAp(A, b, FALSE),
                 Maps(world', Map!Learn(Map!Without(A, gone), b, now), S,
                      Map!RelWithoutAps(R, gone))
          PROVE  [Map!AbsNext]_(Map!absVars)
      <4>1. /\ apsMap' = Map!Learn(Map!Without(A, gone), b, now) /\ stasMap' = S
            /\ relMap' = Map!RelWithoutAps(R, gone)
        BY <1>r, <3>4
      <4>2. gone \in Map!RoomForAp(b, FALSE)
        BY <1>v
      <4>3. Map!DownlinkNoSta(b)
        BY <1>e, <2>0, <3>2, <4>1, <4>2 DEF Map!DownlinkNoSta
      <4>4. QED
        BY <2>2, <4>3 DEF Map!AbsNext
    <3>5. ASSUME NEW gone \in RoomForAp(A, b, FALSE), NEW out \in RoomForSta(S, d, FALSE),
                 d \in Mac, d # b, ~Map!KnownLater(S, d),
                 Maps(world', Map!Learn(Map!Without(A, gone), b, now),
                      Map!Learn(Map!Without(S, out), d, now),
                      Map!Evidence(Map!Without(Map!RelWithoutAps(R, gone), out), d, b, DOWNLINK))
          PROVE  [Map!AbsNext]_(Map!absVars)
      <4>1. /\ apsMap' = Map!Learn(Map!Without(A, gone), b, now)
            /\ stasMap' = Map!Learn(Map!Without(S, out), d, now)
            /\ relMap' = Map!Evidence(Map!Without(Map!RelWithoutAps(R, gone), out), d, b, Map!DOWN)
        BY <1>r, <1>u, <3>5
      <4>2. gone \in Map!RoomForAp(b, FALSE) /\ out \in Map!RoomForSta(d, FALSE)
        BY <1>v
      <4>3. Map!Downlink(b, d)
        BY <1>e, <2>0, <3>2, <3>5, <4>1, <4>2 DEF Map!Downlink
      <4>4. QED
        BY <2>2, <3>5, <4>3 DEF Map!AbsNext
    <3>6. QED
      BY <3>1, <3>3, <3>4, <3>5
  <2>3. QED
    BY <1>4, <2>1, <2>2 DEF world_on_downlink
<1>5. ASSUME NEW kind, world_on_unusable_data(kind)
      PROVE  [Map!AbsNext]_(Map!absVars)
  BY <1>5, <1>c DEF world_on_unusable_data
<1>6. ASSUME NEW m \in Address, NEW probe \in BOOLEAN, world_on_sta_tx(m, probe)
      PROVE  [Map!AbsNext]_(Map!absVars)
  <2>0. now' = now
    BY <1>6 DEF world_on_sta_tx
  <2>1. CASE \E c : world' = Count(world, c)
    BY <1>c, <2>0, <2>1
  <2>2. CASE /\ m \in Mac /\ ~StaIsNewer(world, m, now)
             /\ world' = sta_noted(world, m, now, m, probe)
    <3>1. PICK out \in RoomForSta(S, m, TRUE) :
             Maps(world', A, Map!Learn(Map!Without(S, out), m, now), Map!Without(R, out))
      BY <1>0, <2>2, StaNotedMaps
    <3>2. /\ apsMap' = A /\ stasMap' = Map!Learn(Map!Without(S, out), m, now)
          /\ relMap' = Map!Without(R, out)
      BY <1>r, <3>1
    <3>3. ~Map!KnownLater(S, m) /\ out \in Map!RoomForSta(m, TRUE)
      BY <1>k, <1>v, <2>2, <3>1
    <3>4. Map!StaHeard(m)
      BY <1>e, <2>0, <3>2, <3>3 DEF Map!StaHeard
    <3>5. QED
      BY <2>2, <3>4 DEF Map!AbsNext
  <2>3. QED
    BY <1>6, <2>1, <2>2 DEF world_on_sta_tx
<1>7. CASE world_maintenance
  <2>0. now' = now /\ world' = maintained(world, now)
    BY <1>7 DEF world_maintenance
  <2> DEFINE lateRels == {m \in DOMAIN R : Map!Late(now, REL_TTL, R[m].at)}
  <2>1. Maps(world', Map!Without(A, LateOf(A, AP_TTL)), Map!Without(S, LateOf(S, STA_TTL)),
             Map!Without(Map!RelWithoutAps(R, LateOf(A, AP_TTL)),
                         LateOf(S, STA_TTL) \cup lateRels))
    BY <1>0, <2>0, MaintainedMaps
  <2>2. /\ apsMap' = Map!Without(A, LateOf(A, AP_TTL))
        /\ stasMap' = Map!Without(S, LateOf(S, STA_TTL))
        /\ relMap' = Map!Without(Map!RelWithoutAps(R, LateOf(A, AP_TTL)),
                                 LateOf(S, STA_TTL) \cup lateRels)
    BY <1>r, <2>1
  <2>3. Map!Forget
    BY <1>e, <2>0, <2>2, Zenon DEF Map!Forget, LateOf
  <2>4. QED
    BY <2>3 DEF Map!AbsNext
<1>8. CASE UNCHANGED vars
  BY <1>0, <1>8, <1>s DEF vars, A, S, R
<1>9. QED
  BY <1>1, <1>2, <1>3, <1>4, <1>5, <1>6, <1>7, <1>8 DEF Next

\* The slot tables implement the maps for every size of the tables and every
\* clock: what the handlers do with slots, indices and counters is, on the
\* addresses, exactly what WorldMap says (world.c; comment of ap_remove).
THEOREM TablesImplementMaps == Spec => ImplementsMap
<1>1. IInv => Maps(world, apsMap, stasMap, relMap)
  BY MappingReads DEF IInv
<1>2. IInv /\ IInv' /\ [Next]_vars => [Map!AbsNext]_(Map!absVars)
  <2>1. (IInv => Maps(world, apsMap, stasMap, relMap))'
    BY <1>1, PTL
  <2>2. QED
    BY <1>1, <2>1, NextMaps
<1>3. QED
  BY <1>2, InitMaps, SpecIInv, PTL DEF Spec, ImplementsMap, Map!AbsSpec

-----------------------------------------------------------------------------
(* What a step of the maps never does *)

\* Addresses in both maps have not gone back in time.
NotEarlier(f, g) == \A x \in DOMAIN f \cap DOMAIN g : f[x] <= g[x]

TimedMap(f) == IsMap(f) /\ \A x \in DOMAIN f : f[x] \in Nat

\* R is a map of relations between the addresses of A and those of S.
RelationMap(A, S, R) ==
    /\ IsMap(R)
    /\ \A m \in DOMAIN R : /\ m \in DOMAIN S /\ R[m].ap \in DOMAIN A
                           /\ R[m].ev \in Nat /\ R[m].at \in Nat

\* The relation of m is fresh, and both ends of it are still known.
Binding(R, A, S, m) ==
    /\ m \in DOMAIN R /\ ~Map!Late(now, REL_TTL, R[m].at)
    /\ R[m].ap \in DOMAIN A /\ m \in DOMAIN S

\* Q keeps the bindings of R, or has the station bound at least as strongly.
Spares(R, A, S, Q) ==
    \A m : Binding(R, A, S, m) => m \in DOMAIN Q /\ Q[m] = R[m]
Holds(R, A, S, Q) ==
    \A m : Binding(R, A, S, m) => m \in DOMAIN Q /\ Q[m].ev >= R[m].ev

LEMMA LearntNotEarlier ==
    ASSUME NEW f, TimedMap(f), NEW x, ~Map!KnownLater(f, x), now \in Nat, NEW D
    PROVE  /\ NotEarlier(f, Map!Learn(Map!Without(f, D), x, now))
           /\ NotEarlier(f, Map!Without(f, D)) /\ NotEarlier(f, f)
<1> DEFINE g == Map!Without(f, D)
           h == Map!Learn(g, x, now)
<1>1. g = [y \in DOMAIN f \ D |-> f[y]]
  BY MapOperators
<1>2. h = [y \in DOMAIN g \cup {x} |-> IF y = x THEN now ELSE g[y]]
  BY MapOperators
<1> HIDE DEF g, h
<1>3. \A y \in DOMAIN f \cap DOMAIN g : g[y] = f[y]
  BY <1>1
<1>4. \A y \in DOMAIN f \cap DOMAIN h : h[y] = IF y = x THEN now ELSE f[y]
  BY <1>1, <1>2
<1>5. x \in DOMAIN f => f[x] <= now
  BY DEF TimedMap, Map!KnownLater
<1>6. NotEarlier(f, h)
  BY <1>4, <1>5 DEF TimedMap, NotEarlier
<1>7. NotEarlier(f, g) /\ NotEarlier(f, f)
  BY <1>3 DEF TimedMap, NotEarlier
<1>8. QED
  BY <1>6, <1>7 DEF g, h

\* Those who leave were known, and are no longer.
LEMMA GoneAreGone ==
    ASSUME NEW f, NEW x, NEW max, NEW ttl, NEW strong,
           NEW out \in Room(f, x, max, ttl, strong)
    PROVE  \A y \in DOMAIN f : \A v :
              y \in DOMAIN Map!Learn(Map!Without(f, out), x, v) => y \notin out
<1>1. \A v : DOMAIN Map!Learn(Map!Without(f, out), x, v) = (DOMAIN f \ out) \cup {x}
  BY MapOperators
<1>2. x \in DOMAIN f => out = {}
  BY DEF Room
<1>3. QED
  BY <1>1, <1>2

LEMMA RelationsSpared ==
    ASSUME NEW R, IsMap(R), NEW A, NEW S, NEW D, NEW B,
           \A m \in DOMAIN R : m \in DOMAIN S => m \notin D,
           \A m \in DOMAIN R : R[m].ap \in DOMAIN A => R[m].ap \notin B
    PROVE  /\ Spares(R, A, S, Map!Without(R, D))
           /\ Spares(R, A, S, Map!RelWithoutAps(R, B))
           /\ Spares(R, A, S, Map!RelWithoutAps(Map!Without(R, D), B))
           /\ Spares(R, A, S, Map!Without(Map!RelWithoutAps(R, B), D))
           /\ Spares(R, A, S, R)
<1> DEFINE P == Map!Without(R, D)
           Q == Map!RelWithoutAps(R, B)
           PQ == Map!RelWithoutAps(P, B)
           QP == Map!Without(Q, D)
<1>1. /\ P = [y \in DOMAIN R \ D |-> R[y]]
      /\ Q = [y \in DOMAIN R \ {m \in DOMAIN R : R[m].ap \in B} |-> R[y]]
      /\ PQ = [y \in DOMAIN P \ {m \in DOMAIN P : P[m].ap \in B} |-> P[y]]
      /\ QP = [y \in DOMAIN Q \ D |-> Q[y]]
  BY MapOperators
<1> HIDE DEF P, Q, PQ, QP
<1>2. \A m : Binding(R, A, S, m) => m \in DOMAIN R /\ m \notin D /\ R[m].ap \notin B
  BY DEF Binding
<1>3. \A m : Binding(R, A, S, m) => m \in DOMAIN P /\ P[m] = R[m]
  BY <1>1, <1>2
<1>4. \A m : Binding(R, A, S, m) => m \in DOMAIN Q /\ Q[m] = R[m]
  BY <1>1, <1>2
<1>5. \A m : Binding(R, A, S, m) => m \in DOMAIN PQ /\ PQ[m] = R[m]
  BY <1>1, <1>2, <1>3
<1>6. \A m : Binding(R, A, S, m) => m \in DOMAIN QP /\ QP[m] = R[m]
  BY <1>1, <1>2, <1>4
<1>7. QED
  BY <1>2, <1>3, <1>4, <1>5, <1>6 DEF Spares, P, Q, PQ, QP

\* Evidence never weakens a fresh binding.
LEMMA EvidenceHolds ==
    ASSUME NEW A, NEW S, NEW R, RelationMap(A, S, R), NEW A2, NEW S2,
           NEW Q, Spares(R, A2, S2, Q), NEW m, NEW b, NEW ev \in {1, 2}
    PROVE  Holds(R, A2, S2, Map!Evidence(Q, m, b, ev))
<1> DEFINE E == Map!Evidence(Q, m, b, ev)
           Learnt(y) == [x \in DOMAIN Q \cup {m} |-> IF x = m THEN y ELSE Q[x]]
           fresh == [ap |-> b, ev |-> ev, at |-> now]
           old == Q[m]
           more == [ap |-> b, ev |-> IF ev > old.ev THEN ev ELSE old.ev,
                    at |-> IF now >= old.at THEN now ELSE old.at]
<1>1. \A y : Map!Learn(Q, m, y) = Learnt(y)
  BY MapOperators
<1>2. E = IF m \notin DOMAIN Q THEN Learnt(fresh)
          ELSE IF old.ap = b THEN Learnt(more)
          ELSE IF \/ Map!Late(now, REL_TTL, old.at) \/ ev > old.ev
                  \/ ev = old.ev /\ now >= old.at
               THEN Learnt(fresh) ELSE Q
  BY <1>1 DEF Map!Evidence
<1> HIDE DEF E
<1>3. fresh.ev = ev /\ more.ev = IF ev > old.ev THEN ev ELSE old.ev
  OBVIOUS
<1>4. \A y : /\ DOMAIN Learnt(y) = DOMAIN Q \cup {m} /\ Learnt(y)[m] = y
             /\ \A x \in DOMAIN Q : x # m => Learnt(y)[x] = Q[x]
  OBVIOUS
<1> HIDE DEF fresh, more, Learnt
<1>5. ASSUME NEW x, Binding(R, A2, S2, x)
      PROVE  x \in DOMAIN E /\ E[x].ev >= R[x].ev
  <2>1. /\ x \in DOMAIN Q /\ Q[x] = R[x] /\ R[x].ev \in Nat
        /\ ~Map!Late(now, REL_TTL, R[x].at)
    BY <1>5 DEF Spares, Binding, RelationMap
  <2>2. CASE x # m
    <3>1. x \in DOMAIN E /\ E[x] = Q[x]
      BY <1>2, <1>4, <2>1, <2>2
    <3>2. QED
      BY <2>1, <3>1
  <2>3. CASE x = m
    <3>1. CASE E = Learnt(fresh) /\ ev >= old.ev
      BY <1>3, <1>4, <2>1, <2>3, <3>1
    <3>2. CASE E = Learnt(more)
      BY <1>3, <1>4, <2>1, <2>3, <3>2
    <3>3. CASE E = Q
      BY <2>1, <2>3, <3>3
    <3>4. QED
      BY <1>2, <2>1, <2>3, <3>1, <3>2, <3>3
  <2>4. QED
    BY <2>2, <2>3
<1>6. QED
  BY <1>5 DEF Holds, E

\* Every step of the maps: no address goes back in time, and no fresh binding
\* whose ends both stay is dropped or weakened.
LEMMA MapsStep ==
    ASSUME [Map!AbsNext]_(Map!absVars), now \in Nat,
           TimedMap(apsMap), TimedMap(stasMap), RelationMap(apsMap, stasMap, relMap)
    PROVE  /\ NotEarlier(apsMap, apsMap') /\ NotEarlier(stasMap, stasMap')
           /\ Holds(relMap, apsMap', stasMap', relMap')
<1> DEFINE A == apsMap
           S == stasMap
           R == relMap
           A2 == apsMap'
           S2 == stasMap'
           R2 == relMap'
           Goal == NotEarlier(A, A2) /\ NotEarlier(S, S2) /\ Holds(R, A2, S2, R2)
<1> SUFFICES Goal
  OBVIOUS
<1>0. now \in Nat /\ TimedMap(A) /\ TimedMap(S) /\ RelationMap(A, S, R) /\ IsMap(R)
  BY DEF RelationMap
<1>s. \A Q : Spares(R, A2, S2, Q) /\ R2 = Q => Holds(R, A2, S2, R2)
  BY <1>0 DEF Spares, Holds, RelationMap, Binding
<1>r. /\ \A b, strong : Map!RoomForAp(b, strong) = RoomForAp(A, b, strong)
      /\ \A m, strong : Map!RoomForSta(m, strong) = RoomForSta(S, m, strong)
  BY DEF RoomForAp, RoomForSta, Room, Map!RoomForAp, Map!RoomForSta
\* Those who make room leave no binding behind.
<1>a. ASSUME NEW b, NEW strong, NEW out \in Map!RoomForAp(b, strong),
             A2 = Map!Learn(Map!Without(A, out), b, now)
      PROVE  \A m \in DOMAIN R : R[m].ap \in DOMAIN A2 => R[m].ap \notin out
  <2>1. out \in Room(A, b, AP_MAX, AP_TTL, strong)
    BY <1>a, <1>r DEF RoomForAp
  <2>2. \A m \in DOMAIN R : R[m].ap \in DOMAIN A
    BY <1>0 DEF RelationMap
  <2> HIDE DEF A, S, R, A2
  <2>3. \A y \in DOMAIN A : y \in DOMAIN A2 => y \notin out
    BY <1>a, <2>1, GoneAreGone
  <2>4. QED
    BY <2>2, <2>3
<1>b. ASSUME NEW m, NEW strong, NEW out \in Map!RoomForSta(m, strong),
             S2 = Map!Learn(Map!Without(S, out), m, now)
      PROVE  \A x \in DOMAIN R : x \in DOMAIN S2 => x \notin out
  <2>1. out \in Room(S, m, STA_MAX, STA_TTL, strong)
    BY <1>b, <1>r DEF RoomForSta
  <2>2. \A x \in DOMAIN R : x \in DOMAIN S
    BY <1>0 DEF RelationMap
  <2> HIDE DEF A, S, R, S2
  <2>3. \A y \in DOMAIN S : y \in DOMAIN S2 => y \notin out
    BY <1>b, <2>1, GoneAreGone
  <2>4. QED
    BY <2>2, <2>3
<1> DEFINE none == {}
<1>n. /\ \A m \in DOMAIN R : m \in DOMAIN S2 => m \notin none
      /\ \A m \in DOMAIN R : R[m].ap \in DOMAIN A2 => R[m].ap \notin none
  OBVIOUS
<1> HIDE DEF none
<1>u. Map!UP \in {1, 2} /\ Map!DOWN \in {1, 2}
  BY DEF Map!UP, Map!DOWN
<1>1. CASE Map!Clock
  <2>1. A2 = A /\ S2 = S /\ R2 = R
    BY <1>1 DEF Map!Clock
  <2>2. NotEarlier(A, A2) /\ NotEarlier(S, S2) /\ Spares(R, A2, S2, R)
    BY <1>0, <2>1 DEF NotEarlier, TimedMap, Spares, Binding
  <2>3. QED
    BY <1>s, <2>1, <2>2
<1>2. ASSUME NEW b \in Mac, Map!ApHeard(b)
      PROVE  Goal
  <2>1. PICK out \in Map!RoomForAp(b, TRUE) :
           A2 = Map!Learn(Map!Without(A, out), b, now) /\ R2 = Map!RelWithoutAps(R, out)
    BY <1>2 DEF Map!ApHeard
  <2>2. ~Map!KnownLater(A, b) /\ S2 = S
    BY <1>2 DEF Map!ApHeard
  <2>3. \A m \in DOMAIN R : R[m].ap \in DOMAIN A2 => R[m].ap \notin out
    BY <1>a, <2>1
  <2> HIDE DEF A, S, R, A2, S2, R2
  <2>4. NotEarlier(A, A2) /\ NotEarlier(S, S2)
    BY <1>0, <2>1, <2>2, LearntNotEarlier DEF NotEarlier, TimedMap
  <2>5. Spares(R, A2, S2, R2)
    BY <1>0, <1>n, <2>1, <2>3, RelationsSpared
  <2>6. QED
    BY <1>s, <2>4, <2>5
<1>3. ASSUME NEW b \in Mac, Map!DownlinkNoSta(b)
      PROVE  Goal
  <2>1. PICK out \in Map!RoomForAp(b, FALSE) :
           A2 = Map!Learn(Map!Without(A, out), b, now) /\ R2 = Map!RelWithoutAps(R, out)
    BY <1>3 DEF Map!DownlinkNoSta
  <2>2. ~Map!KnownLater(A, b) /\ S2 = S
    BY <1>3 DEF Map!DownlinkNoSta
  <2>3. \A m \in DOMAIN R : R[m].ap \in DOMAIN A2 => R[m].ap \notin out
    BY <1>a, <2>1
  <2> HIDE DEF A, S, R, A2, S2, R2
  <2>4. NotEarlier(A, A2) /\ NotEarlier(S, S2)
    BY <1>0, <2>1, <2>2, LearntNotEarlier DEF NotEarlier, TimedMap
  <2>5. Spares(R, A2, S2, R2)
    BY <1>0, <1>n, <2>1, <2>3, RelationsSpared
  <2>6. QED
    BY <1>s, <2>4, <2>5
<1>4. ASSUME NEW m \in Mac, Map!StaHeard(m)
      PROVE  Goal
  <2>1. PICK out \in Map!RoomForSta(m, TRUE) :
           S2 = Map!Learn(Map!Without(S, out), m, now) /\ R2 = Map!Without(R, out)
    BY <1>4 DEF Map!StaHeard
  <2>2. ~Map!KnownLater(S, m) /\ A2 = A
    BY <1>4 DEF Map!StaHeard
  <2>3. \A x \in DOMAIN R : x \in DOMAIN S2 => x \notin out
    BY <1>b, <2>1
  <2> HIDE DEF A, S, R, A2, S2, R2
  <2>4. NotEarlier(A, A2) /\ NotEarlier(S, S2)
    BY <1>0, <2>1, <2>2, LearntNotEarlier DEF NotEarlier, TimedMap
  <2>5. Spares(R, A2, S2, R2)
    BY <1>0, <1>n, <2>1, <2>3, RelationsSpared
  <2>6. QED
    BY <1>s, <2>4, <2>5
<1>5. ASSUME NEW m \in Mac, NEW b \in Mac, Map!Uplink(m, b)
      PROVE  Goal
  <2>1. PICK out \in Map!RoomForSta(m, TRUE) :
           /\ S2 = Map!Learn(Map!Without(S, out), m, now)
           /\ \/ R2 = Map!Without(R, out) /\ A2 = A
              \/ \E gone \in Map!RoomForAp(b, FALSE) :
                   /\ A2 = IF b \in DOMAIN A THEN A ELSE Map!Learn(Map!Without(A, gone), b, now)
                   /\ R2 = Map!Evidence(Map!RelWithoutAps(Map!Without(R, out), gone), m, b, Map!UP)
    BY <1>5 DEF Map!Uplink
  <2>2. ~Map!KnownLater(S, m)
    BY <1>5 DEF Map!Uplink
  <2>3. \A x \in DOMAIN R : x \in DOMAIN S2 => x \notin out
    BY <1>b, <2>1
  <2>4. NotEarlier(S, S2)
    <3> HIDE DEF A, S, R, A2, S2, R2
    <3>1. QED
      BY <1>0, <2>1, <2>2, LearntNotEarlier
  <2>5. CASE R2 = Map!Without(R, out) /\ A2 = A
    <3> HIDE DEF A, S, R, A2, S2, R2
    <3>1. NotEarlier(A, A2)
      BY <1>0, <2>5 DEF NotEarlier, TimedMap
    <3>2. Spares(R, A2, S2, R2)
      BY <1>0, <1>n, <2>3, <2>5, RelationsSpared
    <3>3. QED
      BY <1>s, <2>4, <3>1, <3>2
  <2>6. ASSUME NEW gone \in Map!RoomForAp(b, FALSE),
               A2 = IF b \in DOMAIN A THEN A ELSE Map!Learn(Map!Without(A, gone), b, now),
               R2 = Map!Evidence(Map!RelWithoutAps(Map!Without(R, out), gone), m, b, Map!UP)
        PROVE  Goal
    <3>1. \A x \in DOMAIN R : R[x].ap \in DOMAIN A2 => R[x].ap \notin gone
      <4>1. CASE b \in DOMAIN A
        <5>1. gone = {}
          BY <4>1, <2>6 DEF Map!RoomForAp
        <5>2. QED
          BY <5>1
      <4>2. CASE b \notin DOMAIN A
        BY <1>a, <2>6, <4>2
      <4>3. QED
        BY <4>1, <4>2
    <3>2. b \in DOMAIN A \/ ~Map!KnownLater(A, b)
      BY DEF Map!KnownLater
    <3> DEFINE Q == Map!RelWithoutAps(Map!Without(R, out), gone)
    <3> HIDE DEF A, S, R, A2, S2, R2
    <3>3. NotEarlier(A, A2)
      <4>1. CASE b \in DOMAIN A
        BY <1>0, <2>6, <4>1 DEF NotEarlier, TimedMap
      <4>2. CASE b \notin DOMAIN A
        BY <1>0, <2>6, <3>2, <4>2, LearntNotEarlier
      <4>3. QED
        BY <4>1, <4>2
    <3>4. Spares(R, A2, S2, Q)
      BY <1>0, <2>3, <3>1, RelationsSpared
    <3> HIDE DEF Q
    <3>5. Holds(R, A2, S2, Map!Evidence(Q, m, b, Map!UP))
      BY <1>0, <1>u, <3>4, EvidenceHolds
    <3>6. QED
      BY <2>4, <2>6, <3>3, <3>5 DEF Q
  <2>7. QED
    BY <2>1, <2>5, <2>6
<1>6. ASSUME NEW m \in Mac, NEW b \in Mac, Map!Downlink(b, m)
      PROVE  Goal
  <2>1. PICK gone \in Map!RoomForAp(b, FALSE), out \in Map!RoomForSta(m, FALSE) :
           /\ A2 = Map!Learn(Map!Without(A, gone), b, now)
           /\ S2 = Map!Learn(Map!Without(S, out), m, now)
           /\ R2 = Map!Evidence(Map!Without(Map!RelWithoutAps(R, gone), out), m, b, Map!DOWN)
    BY <1>6 DEF Map!Downlink
  <2>2. ~Map!KnownLater(A, b) /\ ~Map!KnownLater(S, m)
    BY <1>6 DEF Map!Downlink
  <2>3. /\ \A x \in DOMAIN R : x \in DOMAIN S2 => x \notin out
        /\ \A x \in DOMAIN R : R[x].ap \in DOMAIN A2 => R[x].ap \notin gone
    BY <1>a, <1>b, <2>1
  <2> DEFINE Q == Map!Without(Map!RelWithoutAps(R, gone), out)
  <2> HIDE DEF A, S, R, A2, S2, R2
  <2>4. NotEarlier(A, A2) /\ NotEarlier(S, S2)
    BY <1>0, <2>1, <2>2, LearntNotEarlier
  <2>5. Spares(R, A2, S2, Q)
    BY <1>0, <2>3, RelationsSpared
  <2> HIDE DEF Q
  <2>6. Holds(R, A2, S2, Map!Evidence(Q, m, b, Map!DOWN))
    BY <1>0, <1>u, <2>5, EvidenceHolds
  <2>7. QED
    BY <2>1, <2>4, <2>6 DEF Q
<1>7. CASE Map!Forget
  <2> DEFINE lateAps == {b \in DOMAIN A : Map!Late(now, AP_TTL, A[b])}
             lateStas == {m \in DOMAIN S : Map!Late(now, STA_TTL, S[m])}
             lateRels == {m \in DOMAIN R : Map!Late(now, REL_TTL, R[m].at)}
             P == Map!RelWithoutAps(R, lateAps)
  <2>1. /\ A2 = Map!Without(A, lateAps) /\ S2 = Map!Without(S, lateStas)
        /\ R2 = Map!Without(P, lateStas \cup lateRels)
    BY <1>7, Zenon DEF Map!Forget
  <2>2. \A m : Binding(R, A2, S2, m) => m \notin lateRels
    BY DEF Binding
  <2> HIDE DEF A, S, R, A2, S2, R2, lateAps, lateStas, lateRels, P
  <2>3. /\ A2 = [y \in DOMAIN A \ lateAps |-> A[y]]
        /\ S2 = [y \in DOMAIN S \ lateStas |-> S[y]]
        /\ P = [y \in DOMAIN R \ {m \in DOMAIN R : R[m].ap \in lateAps} |-> R[y]]
        /\ R2 = [y \in DOMAIN P \ (lateStas \cup lateRels) |-> P[y]]
    BY <2>1, MapOperators DEF P
  <2>4. NotEarlier(A, A2) /\ NotEarlier(S, S2)
    BY <1>0, <2>3 DEF NotEarlier, TimedMap
  <2>5. ASSUME NEW m, Binding(R, A2, S2, m)
        PROVE  m \in DOMAIN R2 /\ R2[m] = R[m]
    <3>1. m \in DOMAIN R /\ R[m].ap \notin lateAps /\ m \notin lateStas
      BY <2>3, <2>5 DEF Binding
    <3>2. m \in DOMAIN P /\ P[m] = R[m]
      BY <2>3, <3>1
    <3>3. QED
      BY <2>2, <2>3, <2>5, <3>1, <3>2
  <2>6. Spares(R, A2, S2, R2)
    BY <2>5 DEF Spares
  <2>7. QED
    BY <1>s, <2>4, <2>6
<1>8. CASE UNCHANGED Map!absVars
  <2>1. A2 = A /\ S2 = S /\ R2 = R
    BY <1>8 DEF Map!absVars
  <2>2. NotEarlier(A, A2) /\ NotEarlier(S, S2) /\ Spares(R, A2, S2, R)
    BY <1>0, <2>1 DEF NotEarlier, TimedMap, Spares, Binding
  <2>3. QED
    BY <1>s, <2>1, <2>2
<1>9. QED
  BY <1>1, <1>2, <1>3, <1>4, <1>5, <1>6, <1>7, <1>8 DEF Map!AbsNext

-----------------------------------------------------------------------------
(* What a step of the tables never does *)

LEMMA LookUp ==
    ASSUME NEW w, KeysUnique(w)
    PROVE  /\ \A b \in KnownAps(w) : /\ find_ap(w, b) \in UsedAps(w)
                                     /\ w.ap[find_ap(w, b)].bssid = b
           /\ \A m \in KnownStas(w) : /\ find_sta(w, m) \in UsedStas(w)
                                      /\ w.sta[find_sta(w, m)].mac = m
<1>1. ASSUME NEW b \in KnownAps(w)
      PROVE  find_ap(w, b) \in UsedAps(w) /\ w.ap[find_ap(w, b)].bssid = b
  <2>1. ApsNamed(w, b) \in SUBSET Nat /\ ApsNamed(w, b) # {}
    BY DEF ApsNamed, ApSlot, KnownAps, UsedAps
  <2>2. find_ap(w, b) \in ApsNamed(w, b)
    BY <2>1, MinOfNats DEF find_ap
  <2>3. QED
    BY <2>2 DEF ApsNamed, UsedAps
<1>2. ASSUME NEW m \in KnownStas(w)
      PROVE  find_sta(w, m) \in UsedStas(w) /\ w.sta[find_sta(w, m)].mac = m
  <2>1. StasNamed(w, m) \in SUBSET Nat /\ StasNamed(w, m) # {}
    BY DEF StasNamed, StaSlot, KnownStas, UsedStas
  <2>2. find_sta(w, m) \in StasNamed(w, m)
    BY <2>1, MinOfNats DEF find_sta
  <2>3. QED
    BY <2>2 DEF StasNamed, UsedStas
<1>3. QED
  BY <1>1, <1>2

LEMMA ReadingsTyped ==
    ASSUME NEW w, Good(w), NEW A, NEW S, NEW R, Maps(w, A, S, R)
    PROVE  TimedMap(A) /\ TimedMap(S) /\ RelationMap(A, S, R)
<1>0. /\ \A i \in UsedAps(w) : i \in ApSlot /\ w.ap[i].last_seen \in Nat
      /\ \A j \in UsedStas(w) :
            /\ j \in StaSlot /\ w.sta[j].last_observed \in Nat
            /\ w.sta[j].rel_last \in Nat /\ w.sta[j].rel_evidence \in Nat
            /\ w.sta[j].rel_ap \in 0..AP_MAX
  <2>1. \A i \in ApSlot : w.ap[i].last_seen \in Nat
    BY DEF Good, WorldType, ApRecord, Times
  <2>2. \A j \in StaSlot :
            /\ w.sta[j].last_observed \in Nat /\ w.sta[j].rel_last \in Nat
            /\ w.sta[j].rel_evidence \in {NONE, DOWNLINK, UPLINK}
            /\ w.sta[j].rel_ap \in 0..AP_MAX
    BY DEF Good, WorldType, StaRecord, Times
  <2>3. {NONE, DOWNLINK, UPLINK} \subseteq Nat
    BY DEF NONE, DOWNLINK, UPLINK
  <2>4. QED
    BY <2>1, <2>2, <2>3 DEF UsedAps, UsedStas
<1>1. TimedMap(A) /\ TimedMap(S)
  BY <1>0, ReadingsAreMaps DEF Maps, ApMap, StaMap, TimedMap
<1>2. IsMap(R)
  BY ReadingsAreMaps
<1>3. ASSUME NEW m \in DOMAIN R
      PROVE  /\ m \in DOMAIN S /\ R[m].ap \in DOMAIN A
             /\ R[m].ev \in Nat /\ R[m].at \in Nat
  <2>1. PICK j \in UsedStas(w) : w.sta[j].mac = m /\ w.sta[j].rel_ap # 0
    BY <1>3 DEF Maps, RelMap
  <2> DEFINE r == w.sta[j]
  <2>2. R[m] = Relation(w, r)
    BY <2>1 DEF Maps, RelMap
  <2>3. r.rel_ap \in UsedAps(w)
    BY <1>0, <2>1 DEF Good, RelationsSound, UsedAps, ApSlot
  <2>4. m \in DOMAIN S /\ w.ap[r.rel_ap].bssid \in DOMAIN A
    BY <2>1, <2>3 DEF Maps, ApMap, StaMap
  <2>5. r.rel_evidence \in Nat /\ r.rel_last \in Nat
    BY <1>0
  <2> HIDE DEF r
  <2>6. QED
    BY <2>2, <2>4, <2>5, RelationFields
<1>4. QED
  BY <1>1, <1>2, <1>3 DEF RelationMap

\* The maps of both worlds of a step, and what relates them.
LEMMA StepOfMaps ==
    ASSUME IInv, IInv', [Next]_vars, Maps(world, apsMap, stasMap, relMap),
           Maps(world', apsMap', stasMap', relMap')
    PROVE  /\ NotEarlier(apsMap, apsMap') /\ NotEarlier(stasMap, stasMap')
           /\ Holds(relMap, apsMap', stasMap', relMap')
<1>1. [Map!AbsNext]_(Map!absVars)
  BY NextMaps
<1>2. Good(world) /\ now \in Nat
  BY DEF IInv, Times
<1>3. TimedMap(apsMap) /\ TimedMap(stasMap) /\ RelationMap(apsMap, stasMap, relMap)
  BY <1>2, ReadingsTyped
<1>4. QED
  BY <1>1, <1>2, <1>3, MapsStep

StepNotEarlier ==
    /\ \A i \in UsedAps(world) : world.ap[i].bssid \in KnownAps(world') =>
          world'.ap[ApAfter(world.ap[i].bssid)].last_seen >= world.ap[i].last_seen
    /\ \A j \in UsedStas(world) : world.sta[j].mac \in KnownStas(world') =>
          world'.sta[StaAfter(world.sta[j].mac)].last_observed >= world.sta[j].last_observed

StepHolds ==
    \A j \in StaSlot :
        LET r == world.sta[j]
            b == world.ap[r.rel_ap].bssid
        IN (/\ r.rel_ap # 0 /\ ~rel_expired_at(r, now)
            /\ b \in KnownAps(world') /\ r.mac \in KnownStas(world')) =>
             LET n == world'.sta[StaAfter(r.mac)]
             IN n.rel_ap # 0 /\ n.rel_evidence >= r.rel_evidence

LEMMA StepOfTables ==
    ASSUME IInv, IInv', [Next]_vars, Maps(world, apsMap, stasMap, relMap),
           Maps(world', apsMap', stasMap', relMap')
    PROVE  StepNotEarlier /\ StepHolds
<1> DEFINE A == apsMap
           S == stasMap
           R == relMap
           A2 == apsMap'
           S2 == stasMap'
           R2 == relMap'
<1>0. Good(world) /\ Good(world') /\ Maps(world, A, S, R) /\ Maps(world', A2, S2, R2)
      /\ now \in Nat
  BY DEF IInv, Times
<1>1. NotEarlier(A, A2) /\ NotEarlier(S, S2) /\ Holds(R, A2, S2, R2)
  BY StepOfMaps
<1> HIDE DEF A, S, R, A2, S2, R2
<1>2. /\ \A b \in KnownAps(world') : /\ ApAfter(b) \in UsedAps(world')
                                     /\ world'.ap[ApAfter(b)].bssid = b
      /\ \A m \in KnownStas(world') : /\ StaAfter(m) \in UsedStas(world')
                                      /\ world'.sta[StaAfter(m)].mac = m
  BY <1>0, LookUp DEF Good, ApAfter, StaAfter
<1>3. ASSUME NEW i \in UsedAps(world), world.ap[i].bssid \in KnownAps(world')
      PROVE  world'.ap[ApAfter(world.ap[i].bssid)].last_seen >= world.ap[i].last_seen
  <2> DEFINE b == world.ap[i].bssid
             k == ApAfter(b)
  <2>1. k \in UsedAps(world') /\ world'.ap[k].bssid = b
    BY <1>2, <1>3
  <2>2. b \in DOMAIN A /\ A[b] = world.ap[i].last_seen
    BY <1>0 DEF Maps, ApMap
  <2>3. b \in DOMAIN A2 /\ A2[b] = world'.ap[k].last_seen
    BY <1>0, <2>1 DEF Maps, ApMap
  <2>4. A[b] \in Nat /\ A2[b] \in Nat
    BY <1>0, <2>2, <2>3, ReadingsTyped DEF TimedMap
  <2> HIDE DEF b, k
  <2>5. world'.ap[k].last_seen >= world.ap[i].last_seen
    BY <1>1, <2>2, <2>3, <2>4 DEF NotEarlier
  <2>6. QED
    BY <2>5 DEF k, b
<1>4. ASSUME NEW j \in UsedStas(world), world.sta[j].mac \in KnownStas(world')
      PROVE  world'.sta[StaAfter(world.sta[j].mac)].last_observed >= world.sta[j].last_observed
  <2> DEFINE m == world.sta[j].mac
             k == StaAfter(m)
  <2>1. k \in UsedStas(world') /\ world'.sta[k].mac = m
    BY <1>2, <1>4
  <2>2. m \in DOMAIN S /\ S[m] = world.sta[j].last_observed
    BY <1>0 DEF Maps, StaMap
  <2>3. m \in DOMAIN S2 /\ S2[m] = world'.sta[k].last_observed
    BY <1>0, <2>1 DEF Maps, StaMap
  <2>4. S[m] \in Nat /\ S2[m] \in Nat
    BY <1>0, <2>2, <2>3, ReadingsTyped DEF TimedMap
  <2> HIDE DEF m, k
  <2>5. world'.sta[k].last_observed >= world.sta[j].last_observed
    BY <1>1, <2>2, <2>3, <2>4 DEF NotEarlier
  <2>6. QED
    BY <2>5 DEF k, m
<1>5. ASSUME NEW j \in StaSlot, world.sta[j].rel_ap # 0,
             ~rel_expired_at(world.sta[j], now),
             world.ap[world.sta[j].rel_ap].bssid \in KnownAps(world'),
             world.sta[j].mac \in KnownStas(world')
      PROVE  LET n == world'.sta[StaAfter(world.sta[j].mac)]
             IN n.rel_ap # 0 /\ n.rel_evidence >= world.sta[j].rel_evidence
  <2> DEFINE r == world.sta[j]
             m == r.mac
             b == world.ap[r.rel_ap].bssid
             k == StaAfter(m)
             n == world'.sta[k]
  <2>1. j \in UsedStas(world)
    BY <1>0, <1>5 DEF Good, RelationsSound, UsedStas
  <2>2. k \in UsedStas(world') /\ n.mac = m
    BY <1>2, <1>5
  <2>3. m \in DOMAIN R /\ R[m] = Relation(world, r)
    BY <1>0, <1>5, <2>1 DEF Maps, RelMap
  <2>4. R[m].ap = b /\ R[m].ev = r.rel_evidence /\ R[m].at = r.rel_last
    BY <2>3, RelationFields
  <2>5. R[m].ev \in Nat /\ R[m].at \in Nat
    BY <1>0, <2>3, ReadingsTyped DEF RelationMap
  <2>6. ~Map!Late(now, REL_TTL, R[m].at)
    <3>1. ~(now > r.rel_last /\ now - r.rel_last > REL_TTL)
      BY <1>5 DEF rel_expired_at
    <3> HIDE DEF r, m
    <3>2. QED
      BY <1>0, <2>4, <2>5, <3>1, TimeAssumption DEF Map!Late
  <2>7. b \in DOMAIN A2 /\ m \in DOMAIN S2
    <3>1. b \in KnownAps(world') /\ m \in KnownStas(world')
      BY <1>5
    <3> HIDE DEF b, m
    <3>2. QED
      BY <1>0, <3>1 DEF Maps, ApMap, StaMap, KnownAps, KnownStas
  <2> HIDE DEF b, m, r, k
  <2>8. m \in DOMAIN R2 /\ R2[m].ev >= R[m].ev
    BY <1>1, <2>3, <2>4, <2>6, <2>7 DEF Holds, Binding
  <2>9. n.rel_ap # 0
    BY <1>0, <2>2, <2>8 DEF Maps, RelMap, Good, KeysUnique
  <2>10. R2[m] = Relation(world', n)
    BY <1>0, <2>2, <2>9 DEF Maps, RelMap
  <2>11. R2[m].ev = n.rel_evidence
    BY <2>10, RelationFields
  <2>12. n.rel_ap # 0 /\ n.rel_evidence >= r.rel_evidence
    BY <2>4, <2>8, <2>9, <2>11
  <2>13. QED
    BY <2>12 DEF r, m, k
<1>6. QED
  BY <1>3, <1>4, <1>5 DEF StepNotEarlier, StepHolds

\* A fresh relation is not stolen: as long as its station and its AP stay, it
\* moves to another AP only on evidence at least as strong, in every
\* interleaving of frames, evictions and expiry (relation_evidence).
THEOREM FreshBindingsHold == Spec => LiveBindingNotStolen
<1> DEFINE Kept ==
        \A j \in StaSlot :
          LET r == world.sta[j]
              b == world.ap[r.rel_ap].bssid
          IN (/\ r.rel_ap # 0 /\ ~rel_expired_at(r, now)
              /\ b \in KnownAps(world') /\ r.mac \in KnownStas(world')) =>
               LET n == world'.sta[StaAfter(r.mac)]
               IN /\ n.rel_ap # 0
                  /\ world'.ap[n.rel_ap].bssid # b => n.rel_evidence >= r.rel_evidence
                  /\ n.rel_evidence < r.rel_evidence =>
                        world'.ap[n.rel_ap].bssid # b
<1>1. IInv => Maps(world, apsMap, stasMap, relMap)
  BY MappingReads DEF IInv
<1>2. IInv /\ IInv' /\ [Next]_vars => [Kept]_vars
  <2> SUFFICES ASSUME IInv, IInv', [Next]_vars PROVE Kept
    OBVIOUS
  <2>1. (IInv => Maps(world, apsMap, stasMap, relMap))'
    BY <1>1, PTL
  <2>2. StepHolds
    BY <1>1, <2>1, StepOfTables
  <2>3. ASSUME NEW j \in StaSlot, NEW k \in UsedStas(world')
        PROVE  world.sta[j].rel_evidence \in Nat /\ world'.sta[k].rel_evidence \in Nat
    <3>1. world \in WorldType /\ world' \in WorldType /\ k \in StaSlot
      BY DEF IInv, Good, UsedStas
    <3>2. {NONE, DOWNLINK, UPLINK} \subseteq Nat
      BY DEF NONE, DOWNLINK, UPLINK
    <3>3. QED
      BY <3>1, <3>2 DEF WorldType, StaRecord
  <2>4. \A m \in KnownStas(world') : StaAfter(m) \in UsedStas(world')
    BY LookUp DEF IInv, Good, StaAfter
  <2>5. SUFFICES ASSUME NEW j \in StaSlot, world.sta[j].rel_ap # 0,
                        ~rel_expired_at(world.sta[j], now),
                        world.ap[world.sta[j].rel_ap].bssid \in KnownAps(world'),
                        world.sta[j].mac \in KnownStas(world')
                 PROVE  LET b == world.ap[world.sta[j].rel_ap].bssid
                            n == world'.sta[StaAfter(world.sta[j].mac)]
                            r == world.sta[j]
                        IN /\ n.rel_ap # 0
                           /\ world'.ap[n.rel_ap].bssid # b => n.rel_evidence >= r.rel_evidence
                           /\ n.rel_evidence < r.rel_evidence =>
                                 world'.ap[n.rel_ap].bssid # b
    OBVIOUS
  <2> DEFINE r == world.sta[j]
             n == world'.sta[StaAfter(r.mac)]
             x == n.rel_evidence
             y == r.rel_evidence
  <2>6. n.rel_ap # 0 /\ x >= y
    BY <2>2, <2>5 DEF StepHolds
  <2>7. x \in Nat /\ y \in Nat
    BY <2>3, <2>4, <2>5
  <2> HIDE DEF x, y
  <2>8. ~(x < y)
    BY <2>6, <2>7
  <2>9. QED
    BY <2>6, <2>8 DEF x, y
<1>3. QED
  BY <1>2, SpecIInv, PTL DEF Spec, LiveBindingNotStolen

-----------------------------------------------------------------------------
(* Times of relations *)

\* v holds the stations of u, and none of their relations went back in time.
Steady(v, u) ==
    /\ SameStas(v, u)
    /\ \A k \in StaSlot : v.sta[k].rel_last >= u.sta[k].rel_last

\* The stations of w are forgotten in v, or kept in their slots with
\* relations that did not go back in time.
Onward(v, w) ==
    \A j \in UsedStas(w) :
        \/ w.sta[j].mac \notin KnownStas(v)
        \/ /\ j \in UsedStas(v) /\ v.sta[j].mac = w.sta[j].mac
           /\ v.sta[j].rel_last >= w.sta[j].rel_last

LEMMA SteadyOnward ==
    ASSUME NEW w \in WorldType, NEW u \in WorldType, NEW v \in WorldType
    PROVE  /\ Onward(u, w) /\ Steady(v, u) => Onward(v, w)
           /\ Steady(u, w) /\ Onward(v, u) => Onward(v, w)
           /\ Steady(u, w) /\ Steady(v, u) => Steady(v, w)
           /\ Steady(w, w) /\ Onward(w, w)
<1>1. \A k \in StaSlot : /\ w.sta[k].rel_last \in Nat /\ u.sta[k].rel_last \in Nat
                         /\ v.sta[k].rel_last \in Nat
  BY DEF WorldType, StaRecord, Times
<1>2. \A x, y : SameStas(x, y) =>
         UsedStas(x) = UsedStas(y) /\ KnownStas(x) = KnownStas(y)
  BY DEF SameStas, UsedStas, KnownStas
<1>3. ASSUME Onward(u, w), Steady(v, u)
      PROVE  Onward(v, w)
  <2>1. UsedStas(v) = UsedStas(u) /\ KnownStas(v) = KnownStas(u)
    BY <1>2, <1>3 DEF Steady
  <2>2. QED
    BY <1>1, <1>3, <2>1 DEF Onward, Steady, SameStas, UsedStas
<1>4. ASSUME Steady(u, w), Onward(v, u)
      PROVE  Onward(v, w)
  <2>1. UsedStas(u) = UsedStas(w)
    BY <1>2, <1>4 DEF Steady
  <2>2. QED
    BY <1>1, <1>4, <2>1 DEF Onward, Steady, SameStas, UsedStas
<1>5. Steady(u, w) /\ Steady(v, u) => Steady(v, w)
  BY <1>1 DEF Steady, SameStas
<1>6. Steady(w, w) /\ Onward(w, w)
  BY <1>1 DEF Steady, SameStas, Onward, UsedStas
<1>7. QED
  BY <1>3, <1>4, <1>5, <1>6

LEMMA LeavesOnward ==
    ASSUME NEW w, Good(w), NEW v, NEW A, NEW S, NEW B, Leaves(v, w, A, S, B)
    PROVE  Onward(v, w) /\ (S = {} => Steady(v, w))
<1>1. \A k \in StaSlot : w.sta[k].rel_last \in Nat /\ w.sta[k].used \in BOOLEAN
  BY DEF Good, WorldType, StaRecord, Times
<1>2. \A k \in StaSlot : /\ v.sta[k].used = (w.sta[k].used /\ k \notin S)
                         /\ v.sta[k].mac = w.sta[k].mac
                         /\ v.sta[k].rel_last = w.sta[k].rel_last
  BY DEF Leaves, SameStaText
<1>3. ASSUME NEW j \in UsedStas(w), w.sta[j].mac \in KnownStas(v)
      PROVE  j \in UsedStas(v)
  <2>1. PICK k \in UsedStas(v) : v.sta[k].mac = w.sta[j].mac
    BY <1>3 DEF KnownStas
  <2>2. k \in UsedStas(w) /\ w.sta[k].mac = w.sta[j].mac
    BY <1>2, <2>1 DEF UsedStas
  <2>3. QED
    BY <2>1, <2>2 DEF Good, KeysUnique
<1>4. QED
  BY <1>1, <1>2, <1>3 DEF Onward, Steady, SameStas, UsedStas

LEMMA StaForOnward ==
    ASSUME NEW w, Good(w), NEW m \in Mac, NEW t \in Times, NEW strong \in BOOLEAN
    PROVE  Onward(StaFor(w, m, t, strong).w, w)
<1> DEFINE a == StaFor(w, m, t, strong)
           V == StasToLeave(w, t, strong)
           fresh == FreshSta(m, t)
<1> SUFFICES Onward(a.w, w)
  OBVIOUS
<1>1. IF StasNamed(w, m) # {} THEN a.w = w /\ a.slot \in StasNamed(w, m)
      ELSE IF V = {} THEN a.slot = 0 /\ Leaves(a.w, w, {}, {}, {})
      ELSE \E A \in V : \E u :
              /\ A \subseteq UsedStas(w) /\ Good(u)
              /\ Leaves(u, w, {}, A, A)
              /\ StasNamed(u, m) = {} /\ a.slot \in FreeStas(u)
              /\ \A k \in StaSlot : a.w.sta[k] = IF k = a.slot THEN fresh ELSE u.sta[k]
              /\ a.w.ap = u.ap
  BY StaForCases
<1>f. fresh.mac = m
  BY FreshStaFields
<1> HIDE DEF a, V, fresh
<1>2. CASE StasNamed(w, m) # {}
  BY <1>1, <1>2, SteadyOnward DEF Good
<1>3. CASE Leaves(a.w, w, {}, {}, {})
  BY <1>3, LeavesOnward
<1>4. ASSUME StasNamed(w, m) = {}, NEW A, NEW u, Leaves(u, w, {}, A, A),
             a.slot \in FreeStas(u),
             \A k \in StaSlot : a.w.sta[k] = IF k = a.slot THEN fresh ELSE u.sta[k]
      PROVE  Onward(a.w, w)
  <2>1. Onward(u, w)
    BY <1>4, LeavesOnward
  <2>2. KnownStas(a.w) \subseteq KnownStas(u) \cup {m}
    BY <1>4, <1>f DEF KnownStas, UsedStas
  <2>3. \A j \in UsedStas(u) : j \in UsedStas(a.w) /\ a.w.sta[j] = u.sta[j]
    BY <1>4 DEF UsedStas, FreeStas
  <2>4. \A j \in UsedStas(w) : w.sta[j].mac # m
    BY <1>4 DEF StasNamed, UsedStas
  <2>5. QED
    BY <2>1, <2>2, <2>3, <2>4 DEF Onward
<1>5. QED
  BY <1>1, <1>2, <1>3, <1>4

LEMMA RecordSteady ==
    ASSUME NEW u \in WorldType, NEW j \in StaSlot, NEW q, NEW v,
           q.used = u.sta[j].used, q.mac = u.sta[j].mac,
           q.rel_last >= u.sta[j].rel_last,
           \A k \in StaSlot : v.sta[k] = IF k = j THEN q ELSE u.sta[k]
    PROVE  Steady(v, u)
<1>1. \A k \in StaSlot : u.sta[k].rel_last \in Nat
  BY DEF WorldType, StaRecord, Times
<1>2. QED
  BY <1>1 DEF Steady, SameStas

LEMMA EvidenceSteady ==
    ASSUME NEW w, Good(w), NEW j \in StaSlot, NEW i \in ApSlot,
           NEW ev \in {DOWNLINK, UPLINK}, NEW t \in Times, w.sta[j].rel_last <= t
    PROVE  Steady(relation_evidence(w, j, i, ev, t), w)
<1> DEFINE v == relation_evidence(w, j, i, ev, t)
           r == w.sta[j]
           q == v.sta[j]
<1>1. /\ \A k \in StaSlot \ {j} : v.sta[k] = w.sta[k]
      /\ q.mac = r.mac /\ q.used = r.used
      /\ IF r.rel_ap = i
         THEN /\ q.rel_ap = i
              /\ q.rel_evidence = IF ev > r.rel_evidence THEN ev ELSE r.rel_evidence
              /\ q.rel_last = IF t >= r.rel_last THEN t ELSE r.rel_last
         ELSE IF Takes(r, ev, t)
         THEN q.rel_ap = i /\ q.rel_evidence = ev /\ q.rel_last = t
         ELSE SameRelation(q, r)
  BY RelationEvidenceEffect
<1>2. t \in Nat /\ r.rel_last \in Nat /\ w \in WorldType
  BY DEF Good, WorldType, StaRecord, Times
<1> HIDE DEF v
<1>3. q.rel_last >= r.rel_last
  BY <1>1, <1>2 DEF SameRelation
<1>4. \A k \in StaSlot : v.sta[k] = IF k = j THEN q ELSE w.sta[k]
  BY <1>1
<1> HIDE DEF q
<1>5. Steady(v, w)
  BY <1>1, <1>2, <1>3, <1>4, RecordSteady
<1>6. QED
  BY <1>5 DEF v

\* A station was heard of at t: found or entered, its record refreshed, its
\* relation as it was and not later than t.
Refreshes(v, u, j, q) ==
    /\ StaRefreshed(q, u.sta[j]) /\ SameRelation(q, u.sta[j])
    /\ \A k \in StaSlot : v.sta[k] = IF k = j THEN q ELSE u.sta[k]

LEMMA RefreshSteady ==
    ASSUME NEW u, Good(u), NEW j \in StaSlot, NEW q, NEW v, Refreshes(v, u, j, q)
    PROVE  Steady(v, u) /\ v.sta[j].rel_last = u.sta[j].rel_last
<1>1. u \in WorldType /\ u.sta[j].rel_last \in Nat
  BY DEF Good, WorldType, StaRecord, Times
<1>2. /\ q.used = u.sta[j].used /\ q.mac = u.sta[j].mac
      /\ q.rel_last = u.sta[j].rel_last /\ q.rel_last >= u.sta[j].rel_last
      /\ \A k \in StaSlot : v.sta[k] = IF k = j THEN q ELSE u.sta[k]
  BY <1>1 DEF Refreshes, StaRefreshed, SameRelation
<1>3. QED
  BY <1>1, <1>2, RecordSteady

LEMMA StaForTimes ==
    ASSUME NEW w, Good(w), Facts(w, {}), NEW m \in Mac, NEW t \in Times,
           NEW strong \in BOOLEAN, ~StaIsNewer(w, m, t)
    PROVE  LET a == StaFor(w, m, t, strong)
           IN a.slot # 0 => a.w.sta[a.slot].rel_last <= t
<1> DEFINE a == StaFor(w, m, t, strong)
           u == a.w
           j == a.slot
<1>1. /\ Good(u) /\ (j # 0 => j \in UsedStas(u)) /\ Facts(u, {})
      /\ j # 0 => u.sta[j].last_observed <= t
  BY StaForGood, StaForFacts
<1> HIDE DEF u, j
<1>2. ASSUME j # 0 PROVE u.sta[j].rel_last <= t
  <2>1. j \in StaSlot /\ StaFine(u, u.sta[j])
    BY <1>1, <1>2 DEF UsedStas, Facts
  <2>2. u.sta[j].rel_last \in Nat /\ u.sta[j].last_observed \in Nat /\ t \in Nat
    BY <1>1, <2>1 DEF Good, WorldType, StaRecord, Times
  <2>3. QED
    BY <1>1, <1>2, <2>1, <2>2 DEF StaFine
<1>3. QED
  BY <1>2 DEF u, j

LEMMA ApForSteady ==
    ASSUME NEW w, Good(w), Facts(w, {}), NEW b \in Mac, NEW t \in Times,
           NEW strong \in BOOLEAN
    PROVE  Steady(ApFor(w, b, t, strong).w, w)
<1> DEFINE v == ApFor(w, b, t, strong).w
<1>1. SameStas(v, w) /\ SameStaTexts(v, w)
  BY ApForGood, ApForFacts
<1> HIDE DEF v
<1>2. \A k \in StaSlot : w.sta[k].rel_last \in Nat
  BY DEF Good, WorldType, StaRecord, Times
<1>3. Steady(v, w)
  BY <1>1, <1>2 DEF Steady, SameStaTexts, SameStaText
<1>4. QED
  BY <1>3 DEF v

\* Worlds with the same stations.
LEMMA SameStationsOnward ==
    ASSUME NEW w, NEW u, NEW v, v.sta = u.sta
    PROVE  /\ Onward(u, w) => Onward(v, w)
           /\ Onward(w, u) => Onward(w, v)
           /\ Steady(u, w) => Steady(v, w)
BY DEF Onward, Steady, SameStas, KnownStas, UsedStas

LEMMA ApObservedOnward ==
    ASSUME NEW w, Good(w), Facts(w, {}), NEW b \in Mac, NEW t \in Times, NEW o
    PROVE  Onward(ap_observed(w, b, t, b, o), w)
<1> DEFINE a == ApFor(w, b, t, TRUE)
           q == ApSpoke(a.w.ap[a.slot], t, b, o)
           v == [a.w EXCEPT !.ap[a.slot] = q]
<1>1. ap_observed(w, b, t, b, o) = v
  BY DEF ap_observed
<1>2. Good(a.w)
  BY ApForGood
<1>3. Steady(a.w, w)
  <2> DEFINE sure == TRUE
  <2>1. sure \in BOOLEAN
    OBVIOUS
  <2> HIDE DEF sure
  <2>2. Steady(ApFor(w, b, t, sure).w, w)
    BY <2>1, ApForSteady
  <2>3. QED
    BY <2>2 DEF sure
<1> HIDE DEF a, q
<1>4. v.sta = a.w.sta
  BY <1>2 DEF Good, WorldType
<1> HIDE DEF v
<1> DEFINE u == a.w
<1>5. Onward(u, w)
  <2>1. w \in WorldType /\ u \in WorldType /\ Steady(u, w)
    BY <1>2, <1>3 DEF Good
  <2> HIDE DEF u
  <2>2. QED
    BY <2>1, SteadyOnward
<1>6. QED
  BY <1>1, <1>4, <1>5, SameStationsOnward

LEMMA StaNotedOnward ==
    ASSUME NEW w, Good(w), NEW m \in Mac, NEW t \in Times, NEW probe \in BOOLEAN
    PROVE  Onward(sta_noted(w, m, t, m, probe), w)
<1> DEFINE st == StaFor(w, m, t, TRUE)
           u == st.w
           j == st.slot
           r == u.sta[j]
           heard == StaSpoke(r, t, m)
           q == IF probe THEN StaProbed(heard) ELSE heard
           v == [u EXCEPT !.sta[j] = q]
<1>1. Good(u) /\ j \in UsedStas(u) /\ Onward(u, w)
  BY StaForGood, StaForOnward
<1>2. sta_noted(w, m, t, m, probe) = v
  BY DEF sta_noted
<1> HIDE DEF st, u, j
<1>3. r \in StaRecord /\ m \in Address /\ u \in WorldType /\ j \in StaSlot /\ w \in WorldType
  BY <1>1 DEF Good, WorldType, UsedStas, Address
<1>a. r = u.sta[j]
  OBVIOUS
<1> HIDE DEF r
<1>4. SameRelation(heard, r) /\ StaRefreshed(heard, r)
  BY <1>3, StaSpokeFields, StaSpokeRefreshes
<1> HIDE DEF heard
<1>5. heard \in StaRecord
  BY <1>4 DEF StaRefreshed
<1>6. StaRefreshed(StaProbed(heard), heard) /\ SameRelation(StaProbed(heard), heard)
  BY <1>3, <1>5, StaSpokeFields, StaSpokeRefreshes
<1>7. StaRefreshed(q, r) /\ SameRelation(q, r)
  BY <1>4, <1>6 DEF StaRefreshed, SameRelation
<1> HIDE DEF q
<1>8. /\ \A k \in StaSlot : v.sta[k] = IF k = j THEN q ELSE u.sta[k]
      /\ v \in WorldType
  <2>1. q \in StaRecord
    BY <1>7 DEF StaRefreshed
  <2>2. QED
    BY <1>3, <2>1 DEF WorldType
<1> HIDE DEF v
<1>9. Steady(v, u)
  BY <1>1, <1>3, <1>7, <1>8, <1>a, RefreshSteady DEF Refreshes
<1>10. QED
  BY <1>1, <1>2, <1>3, <1>8, <1>9, SteadyOnward

LEMMA DataUplinkOnward ==
    ASSUME NEW w, Good(w), Facts(w, {}), NEW s \in Mac, NEW b \in Mac, s # b,
           NEW t \in Times, ~StaIsNewer(w, s, t)
    PROVE  Onward(data_uplink(w, s, b, t, s), w)
<1> DEFINE st == StaFor(w, s, t, TRUE)
           x == st.w
           j == st.slot
           r == x.sta[j]
           p == StaSpoke(r, t, s)
           heard == [x EXCEPT !.sta[j] = p]
           a == ApFor(heard, b, t, FALSE)
           y == a.w
           i == a.slot
           g == y.ap[i]
           q == ApReached(g)
           v == [y EXCEPT !.ap[i] = q]
<1>1. /\ Good(x) /\ j \in UsedStas(x) /\ r.mac = s /\ j # 0 /\ Onward(x, w)
      /\ Facts(x, {}) /\ r.last_observed <= t
  BY StaForGood, StaForOnward, StaForFacts
<1>2. r.rel_last <= t
  <2> DEFINE sure == TRUE
  <2>1. sure \in BOOLEAN
    OBVIOUS
  <2> HIDE DEF sure
  <2>2. LET c == StaFor(w, s, t, sure)
        IN c.slot # 0 => c.w.sta[c.slot].rel_last <= t
    BY <2>1, StaForTimes
  <2>3. QED
    BY <1>1, <2>2 DEF sure
<1>3. data_uplink(w, s, b, t, s) = IF i = 0 THEN y ELSE relation_evidence(v, j, i, UPLINK, t)
  BY DEF data_uplink
<1> HIDE DEF st, x, j
<1>4. /\ r \in StaRecord /\ s \in Address /\ x \in WorldType /\ j \in StaSlot
      /\ w \in WorldType /\ StaFine(x, r) /\ r.rel_ap \in 0..AP_MAX
      /\ t \in Nat /\ r.last_observed \in Nat /\ r.rel_last \in Nat
  BY <1>1 DEF Good, WorldType, UsedStas, Address, Facts, StaRecord, Times
<1>a. r = x.sta[j]
  OBVIOUS
<1> HIDE DEF r
<1>5. /\ SameRelation(p, r) /\ StaRefreshed(p, r)
      /\ p.mac = s /\ p.last_observed = t /\ p.rssi = s
  BY <1>1, <1>4, StaSpokeFields, StaSpokeRefreshes
<1> HIDE DEF p
<1>6. /\ \A k \in StaSlot : heard.sta[k] = IF k = j THEN p ELSE x.sta[k]
      /\ \A k \in ApSlot : heard.ap[k].used = x.ap[k].used
                           /\ SameApText(heard.ap[k], x.ap[k])
  BY <1>4 DEF WorldType, SameApText
<1>7. Good(heard)
  BY <1>1, <1>5, <1>a, RefreshStaGood
<1>8. Facts(heard, {})
  <2>1. StaFine(x, p) /\ p.rel_ap \in 0..AP_MAX
    BY <1>1, <1>4, <1>5 DEF StaFine, SameRelation
  <2> HIDE DEF heard
  <2>2. QED
    BY <1>1, <1>4, <1>5, <1>6, <2>1, StaWrittenFacts
<1> HIDE DEF heard
<1>9. Steady(heard, x) /\ heard.sta[j].rel_last = r.rel_last
  BY <1>1, <1>4, <1>5, <1>6, <1>a, RefreshSteady DEF Refreshes
<1>10. /\ Good(y) /\ (i # 0 => i \in UsedAps(y)) /\ Steady(y, heard)
       /\ SameStaTexts(y, heard)
  BY <1>7, <1>8, ApForGood, ApForSteady, ApForFacts
<1> HIDE DEF a, y, i
<1>11. Onward(y, w)
  <2>1. Onward(heard, w)
    BY <1>1, <1>4, <1>7, <1>9, SteadyOnward DEF Good
  <2>2. QED
    BY <1>4, <1>7, <1>10, <2>1, SteadyOnward DEF Good
<1>12. y.sta[j].rel_last <= t
  BY <1>2, <1>4, <1>9, <1>10 DEF SameStaTexts, SameStaText
<1>13. ASSUME i # 0
       PROVE  Onward(relation_evidence(v, j, i, UPLINK, t), w)
  <2>1. i \in ApSlot /\ g \in ApRecord /\ y \in WorldType
    BY <1>10, <1>13 DEF Good, WorldType, UsedAps
  <2>b. g = y.ap[i]
    OBVIOUS
  <2> HIDE DEF g
  <2>2. SatInc(g.data_up_count) \in 0..SatMax
    BY <2>1, SatIncType DEF ApRecord
  <2>3. ApRefreshed(q, g)
    BY <2>1, <2>2, ApFields, ApReachedFields DEF ApReached
  <2> HIDE DEF q
  <2>4. Good(v)
    BY <1>10, <1>13, <2>b, <2>3, RefreshApGood
  <2>5. v.sta = y.sta
    BY <2>1 DEF WorldType
  <2> HIDE DEF v
  <2> DEFINE z == relation_evidence(v, j, i, UPLINK, t)
  <2>6. Steady(z, v) /\ Good(z)
    <3>1. v.sta[j].rel_last <= t
      BY <1>12, <2>5
    <3>2. UPLINK \in {DOWNLINK, UPLINK}
      OBVIOUS
    <3>3. Steady(z, v)
      BY <1>4, <2>1, <2>4, <3>1, <3>2, EvidenceSteady
    <3>4. j \in UsedStas(v) /\ i \in UsedAps(v)
      <4>1. j \in UsedStas(heard)
        BY <1>1, <1>9, StillUsed DEF Steady
      <4>2. j \in UsedStas(y)
        BY <1>10, <4>1, StillUsed DEF Steady
      <4>3. SameAps(v, y)
        BY <1>10, <1>13, <2>b, <2>3, RefreshApGood DEF v
      <4>4. QED
        BY <1>10, <1>13, <2>5, <4>2, <4>3, StillUsed DEF UsedStas
    <3>5. Good(z)
      BY <2>4, <3>2, <3>4, RelationEvidenceGood
    <3>6. QED
      BY <3>3, <3>5
  <2> HIDE DEF z
  <2>7. Onward(v, w)
    BY <1>11, <2>5, SameStationsOnward
  <2>8. Onward(z, w)
    BY <1>4, <2>4, <2>6, <2>7, SteadyOnward DEF Good
  <2>9. QED
    BY <2>8 DEF z
<1>14. QED
  BY <1>3, <1>11, <1>13

LEMMA DownlinkDestOnward ==
    ASSUME NEW w, Good(w), Facts(w, {}), NEW i \in UsedAps(w), NEW d \in Mac,
           NEW t \in Times, ~StaIsNewer(w, d, t)
    PROVE  Onward(downlink_dest(w, i, d, t), w)
<1> DEFINE st == StaFor(w, d, t, FALSE)
           x == st.w
           j == st.slot
           r == x.sta[j]
           q == StaAddressed(r, t)
           v == [x EXCEPT !.sta[j] = q]
           z == relation_evidence(v, j, i, DOWNLINK, t)
<1>1. /\ Good(x) /\ SameAps(x, w) /\ Onward(x, w)
      /\ j # 0 => j \in UsedStas(x) /\ r.mac = d
  BY StaForGood, StaForOnward
<1>2. j # 0 => r.rel_last <= t
  <2> DEFINE sure == FALSE
  <2>1. sure \in BOOLEAN
    OBVIOUS
  <2> HIDE DEF sure
  <2>2. LET c == StaFor(w, d, t, sure)
        IN c.slot # 0 => c.w.sta[c.slot].rel_last <= t
    BY <2>1, StaForTimes
  <2>3. QED
    BY <2>2 DEF sure
<1>3. downlink_dest(w, i, d, t) = IF j = 0 THEN x ELSE z
  BY DEF downlink_dest
<1>a. r = x.sta[j]
  OBVIOUS
<1> HIDE DEF st, x, j
<1>4. ASSUME j # 0
      PROVE  Onward(z, w)
  <2>1. /\ x \in WorldType /\ w \in WorldType /\ j \in StaSlot /\ r \in StaRecord
        /\ i \in ApSlot /\ j \in UsedStas(x) /\ NonUnicast \in Address
    BY <1>1, <1>4 DEF Good, WorldType, UsedStas, UsedAps, Address
  <2> HIDE DEF r
  <2>2. SameRelation(q, r) /\ StaRefreshed(q, r)
    BY <2>1, StaSpokeFields, StaSpokeRefreshes
  <2> HIDE DEF q
  <2>3. Good(v) /\ SameAps(v, x) /\ SameStas(v, x)
    BY <1>1, <1>a, <2>1, <2>2, RefreshStaGood
  <2>4. \A k \in StaSlot : v.sta[k] = IF k = j THEN q ELSE x.sta[k]
    BY <2>1 DEF WorldType
  <2> HIDE DEF v
  <2>5. Steady(v, x) /\ v.sta[j].rel_last = r.rel_last
    BY <1>1, <1>a, <2>1, <2>2, <2>4, RefreshSteady DEF Refreshes
  <2>6. j \in UsedStas(v) /\ i \in UsedAps(v)
    BY <1>1, <2>1, <2>3, StillUsed
  <2>7. Good(z)
    BY <2>3, <2>6, RelationEvidenceGood
  <2>8. Steady(z, v)
    BY <1>2, <1>4, <2>1, <2>3, <2>5, EvidenceSteady
  <2> HIDE DEF z
  <2>9. Onward(v, w)
    BY <1>1, <2>1, <2>3, <2>5, SteadyOnward DEF Good
  <2>10. QED
    BY <2>1, <2>3, <2>7, <2>8, <2>9, SteadyOnward DEF Good
<1>5. QED
  BY <1>1, <1>3, <1>4

LEMMA DataDownlinkOnward ==
    ASSUME NEW w, Good(w), Facts(w, {}), NEW b \in Mac, NEW d, NEW t \in Times
    PROVE  Onward(data_downlink(w, b, d, t, b), w)
<1> DEFINE a == ApFor(w, b, t, FALSE)
           x == a.w
           i == a.slot
           g == x.ap[i]
           q == ApRelayed(g, t, b)
           heard == [x EXCEPT !.ap[i] = q]
           z == downlink_dest(heard, i, d, t)
<1>1. /\ Good(x) /\ (i # 0 => i \in UsedAps(x) /\ g.bssid = b)
      /\ Steady(x, w)
  <2> DEFINE sure == FALSE
  <2>1. sure \in BOOLEAN
    OBVIOUS
  <2> HIDE DEF sure
  <2>2. Steady(ApFor(w, b, t, sure).w, w)
    BY <2>1, ApForSteady
  <2>3. QED
    BY <2>2, ApForGood DEF sure
<1>2. Facts(x, {})
  <2>1. Facts(x, IF FALSE THEN {a.slot} ELSE {})
    BY ApForFacts
  <2>2. QED
    BY <2>1
<1>3. data_downlink(w, b, d, t, b) =
         IF i = 0 THEN x
         ELSE IF d \notin Mac \/ d = b \/ StaIsNewer(heard, d, t) THEN heard ELSE z
  BY DEF data_downlink
<1>a. g = x.ap[i]
  OBVIOUS
<1> HIDE DEF a, x, i, g
<1>4. w \in WorldType /\ x \in WorldType
  BY <1>1 DEF Good
<1>5. ASSUME i # 0
      PROVE  /\ Good(heard) /\ Facts(heard, {}) /\ i \in UsedAps(heard)
             /\ heard.sta = x.sta
  <2>1. i \in UsedAps(x) /\ g.bssid = b /\ g \in ApRecord
        /\ i \in ApSlot /\ b \in Address
    BY <1>1, <1>5, <1>a DEF Good, WorldType, UsedAps, Address
  <2>2. /\ ApRefreshed(q, x.ap[i]) /\ q.bssid = b /\ q.rssi = b
        /\ q.provisional = g.provisional /\ q.ssid = g.ssid
        /\ q.channel = g.channel /\ q.sec = g.sec
        /\ q.beacon_count = g.beacon_count
        /\ q.probe_resp_count = g.probe_resp_count
    BY <1>a, <2>1, ApRelayedRefreshes, ApRelayedFields
  <2>3. ApFine(g) /\ (SatMax > 0 => ProvFine(g))
    BY <1>2, <1>a, <2>1 DEF Facts
  <2>4. ApFine(q) /\ (SatMax > 0 => ProvFine(q)) /\ q.bssid = x.ap[i].bssid
    BY <1>a, <2>1, <2>2, <2>3 DEF ApFine, ProvFine
  <2> HIDE DEF q
  <2>5. Good(heard) /\ SameAps(heard, x)
    BY <1>1, <2>1, <2>2, RefreshApGood
  <2>6. heard.sta = x.sta
        /\ \A k \in ApSlot : heard.ap[k] = IF k = i THEN q ELSE x.ap[k]
    BY <1>4, <2>1 DEF WorldType
  <2> HIDE DEF heard
  <2>7. Facts(heard, {})
    BY <1>1, <1>2, <2>1, <2>4, <2>6, ApRewrittenFacts
  <2>8. i \in UsedAps(heard)
    BY <2>1, <2>5, StillUsed
  <2>9. QED
    BY <2>5, <2>6, <2>7, <2>8
<1> HIDE DEF heard
<1>6. i # 0 => Steady(heard, w) /\ heard \in WorldType
  BY <1>1, <1>5, SameStationsOnward DEF Good
<1>7. /\ Onward(x, w)
      /\ i # 0 => Onward(heard, w)
  BY <1>1, <1>4, <1>6, SteadyOnward
<1>8. ASSUME i # 0, d \in Mac, d # b, ~StaIsNewer(heard, d, t)
      PROVE  Onward(z, w)
  <2>1. Onward(z, heard)
    BY <1>5, <1>8, DownlinkDestOnward
  <2>2. heard.ap[i].bssid = b
    <3>1. i \in ApSlot /\ g \in ApRecord /\ g.bssid = b /\ b \in Address
      BY <1>1, <1>4, <1>8, <1>a DEF WorldType, UsedAps, Address
    <3>2. q.bssid = b
      BY <3>1, ApRelayedFields, ApRelayedRefreshes DEF ApRefreshed
    <3> HIDE DEF q
    <3>3. QED
      BY <1>4, <3>1, <3>2 DEF heard, WorldType
  <2>3. Good(z)
    BY <1>5, <1>8, <2>2, DownlinkDestGood
  <2> HIDE DEF z
  <2>4. QED
    BY <1>4, <1>6, <1>8, <2>1, <2>3, SteadyOnward DEF Good
<1>9. QED
  BY <1>3, <1>7, <1>8

LEMMA CountOnward ==
    ASSUME NEW w, Good(w), NEW c, NEW n \in Nat
    PROVE  Onward(CountN(w, c, n), w) /\ CountN(w, c, n).sta = w.sta
<1>1. CountN(w, c, n).sta = w.sta
  BY CountGood DEF SameTables
<1>2. Onward(w, w)
  BY SteadyOnward DEF Good
<1> DEFINE v == CountN(w, c, n)
<1> HIDE DEF v
<1>3. v.sta = w.sta
  BY <1>1 DEF v
<1>4. Onward(v, w)
  BY <1>2, <1>3, SameStationsOnward
<1>5. QED
  BY <1>3, <1>4 DEF v

LEMMA MaintainedOnward ==
    ASSUME NEW w, Good(w), NEW t \in Times
    PROVE  Onward(maintained(w, t), w)
<1> DEFINE x == sweep_expired_aps(w, t)
           y == sweep_expired_rels(x, t)
           z == sweep_expired_stas(y, t)
           v == CountN(z, "maint_runs", 1)
<1>1. Good(x) /\ Steady(x, w)
  BY SweepApsGood, SweepApsLeaves, LeavesOnward
<1> HIDE DEF x
<1>2. Good(y) /\ Steady(y, x)
  BY <1>1, SweepRelsGood, SweepRelsLeaves, LeavesOnward
<1> HIDE DEF y
<1>3. Good(z) /\ Onward(z, y)
  BY <1>2, SweepStasGood, SweepStasLeaves, LeavesOnward
<1> HIDE DEF z
<1>4. v.sta = z.sta
  BY <1>3, CountOnward
<1>5. maintained(w, t) = v
  BY DEF maintained, Count, x, y, z
<1> HIDE DEF v
<1>6. Steady(y, w)
  BY <1>1, <1>2, SteadyOnward DEF Good
<1>7. Onward(z, w)
  BY <1>2, <1>3, <1>6, SteadyOnward DEF Good
<1>8. QED
  BY <1>4, <1>5, <1>7, SameStationsOnward

LEMMA NextOnward == FInv /\ [Next]_vars => Onward(world', world)
<1> SUFFICES ASSUME FInv, [Next]_vars
             PROVE  Onward(world', world)
  OBVIOUS
<1>0. Good(world) /\ now \in Times /\ Facts(world, {})
  BY DEF FInv, IInv
<1>a. \A c : Onward(Count(world, c), world)
  BY <1>0, CountOnward DEF Count
<1>b. UNCHANGED world => Onward(world', world)
  BY <1>0, SteadyOnward DEF Good
<1>1. CASE Clock
  BY <1>1, <1>b DEF Clock
<1>2. ASSUME NEW b \in Address, NEW o \in Obs, world_on_ap_observation(b, o)
      PROVE  Onward(world', world)
  BY <1>0, <1>2, <1>a, ApObservedOnward DEF world_on_ap_observation
<1>3. ASSUME NEW s \in Address, NEW b \in Address, world_on_uplink(s, b)
      PROVE  Onward(world', world)
  BY <1>0, <1>3, <1>a, DataUplinkOnward DEF world_on_uplink
<1>4. ASSUME NEW b \in Address, NEW d \in Address, world_on_downlink(b, d)
      PROVE  Onward(world', world)
  BY <1>0, <1>4, <1>a, DataDownlinkOnward DEF world_on_downlink
<1>5. ASSUME NEW kind, world_on_unusable_data(kind)
      PROVE  Onward(world', world)
  BY <1>5, <1>a DEF world_on_unusable_data
<1>6. ASSUME NEW m \in Address, NEW probe \in BOOLEAN, world_on_sta_tx(m, probe)
      PROVE  Onward(world', world)
  BY <1>0, <1>6, <1>a, StaNotedOnward DEF world_on_sta_tx
<1>7. CASE world_maintenance
  BY <1>0, <1>7, MaintainedOnward DEF world_maintenance
<1>8. CASE UNCHANGED vars
  BY <1>8, <1>b DEF vars
<1>9. QED
  BY <1>1, <1>2, <1>3, <1>4, <1>5, <1>6, <1>7, <1>8 DEF Next

\* A caller whose clock runs backwards never makes a record younger or older:
\* while an address stays in its table its time does not decrease, nor does
\* the time of its relation, for any clock (the stale checks of the entry
\* points and of relation_evidence).
THEOREM TimesStayMonotone == Spec => TimesNeverRegress
<1> DEFINE NotBack ==
        /\ \A i \in UsedAps(world) : world.ap[i].bssid \in KnownAps(world') =>
             world'.ap[ApAfter(world.ap[i].bssid)].last_seen >= world.ap[i].last_seen
        /\ \A j \in UsedStas(world) : world.sta[j].mac \in KnownStas(world') =>
             LET n == world'.sta[StaAfter(world.sta[j].mac)]
             IN /\ n.last_observed >= world.sta[j].last_observed
                /\ n.rel_last >= world.sta[j].rel_last
<1>1. IInv => Maps(world, apsMap, stasMap, relMap)
  BY MappingReads DEF IInv
<1>2. FInv /\ FInv' /\ [Next]_vars => [NotBack]_vars
  <2> SUFFICES ASSUME FInv, FInv', [Next]_vars PROVE NotBack
    OBVIOUS
  <2>1. IInv /\ IInv'
    BY DEF FInv
  <2>2. (IInv => Maps(world, apsMap, stasMap, relMap))'
    BY <1>1, PTL
  <2>3. StepNotEarlier
    BY <1>1, <2>1, <2>2, StepOfTables
  <2>4. Onward(world', world)
    BY NextOnward
  <2>5. KeysUnique(world')
    BY <2>1 DEF IInv, Good
  <2>6. ASSUME NEW j \in UsedStas(world), world.sta[j].mac \in KnownStas(world')
        PROVE  world'.sta[StaAfter(world.sta[j].mac)].rel_last >= world.sta[j].rel_last
    <3> DEFINE k == StaAfter(world.sta[j].mac)
    <3>1. k \in UsedStas(world') /\ world'.sta[k].mac = world.sta[j].mac
      BY <2>5, <2>6, LookUp DEF StaAfter
    <3>2. /\ j \in UsedStas(world') /\ world'.sta[j].mac = world.sta[j].mac
          /\ world'.sta[j].rel_last >= world.sta[j].rel_last
      BY <2>4, <2>6 DEF Onward
    <3> HIDE DEF k
    <3>3. k = j
      BY <2>5, <3>1, <3>2 DEF KeysUnique
    <3>4. QED
      BY <3>2, <3>3 DEF k
  <2>7. QED
    BY <2>3, <2>6 DEF StepNotEarlier
<1>3. QED
  BY <1>2, SpecFInv, PTL DEF Spec, TimesNeverRegress

=============================================================================
