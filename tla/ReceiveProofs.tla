--------------------------- MODULE ReceiveProofs ---------------------------
(***************************************************************************)
(* The two halves of the receive path.  Of RxPath, the way of a frame from *)
(* the driver to the consumer task, for every pool and queue size: no slot *)
(* is leaked or doubled, the occupancy counter is exact, a queue as large  *)
(* as the pool never refuses a frame, and every frame is accounted for.    *)
(* Of RxTask, what the consumer task does with a frame, for every set of   *)
(* readers and frames: every copy of the counters that a reader gets adds  *)
(* up, none goes back, and no observation is lost without a trace.         *)
(***************************************************************************)
EXTENDS RxPath, RxTask, FiniteSetTheorems, SequenceTheorems, TLAPS

Elements(q) == {q[i] : i \in 1..Len(q)}
Distinct(q) == \A i, k \in 1..Len(q) : q[i] = q[k] => i = k

\* A queue without duplicates gains one element at its end and loses one at
\* its front.
LEMMA QueueGrows ==
    ASSUME NEW q \in Seq(Slot), NEW s \in Slot
    PROVE  /\ Append(q, s) \in Seq(Slot) /\ Len(Append(q, s)) = Len(q) + 1
           /\ Elements(Append(q, s)) = Elements(q) \cup {s}
           /\ Distinct(q) /\ s \notin Elements(q) => Distinct(Append(q, s))
<1> DEFINE p == Append(q, s)
<1>1. /\ p \in Seq(Slot) /\ Len(p) = Len(q) + 1 /\ Len(q) \in Nat
      /\ \A i \in 1..Len(q) : p[i] = q[i]
      /\ p[Len(q) + 1] = s
  BY AppendProperties, LenProperties
<1> HIDE DEF p
<1>2. 1..Len(p) = 1..Len(q) \cup {Len(q) + 1}
  BY <1>1
<1>3. Elements(p) = Elements(q) \cup {s}
  BY <1>1, <1>2 DEF Elements
<1>4. ASSUME Distinct(q), s \notin Elements(q) PROVE Distinct(p)
  BY <1>1, <1>2, <1>4 DEF Elements, Distinct
<1>5. QED
  BY <1>1, <1>3, <1>4 DEF p

LEMMA QueueShrinks ==
    ASSUME NEW q \in Seq(Slot), q # <<>>
    PROVE  /\ Tail(q) \in Seq(Slot) /\ Head(q) \in Slot
           /\ Len(q) \in Nat \ {0} /\ Len(Tail(q)) = Len(q) - 1
           /\ Head(q) \in Elements(q)
           /\ Distinct(q) => /\ Distinct(Tail(q))
                             /\ Elements(Tail(q)) = Elements(q) \ {Head(q)}
<1> DEFINE t == Tail(q)
<1>1. /\ t \in Seq(Slot) /\ Head(q) \in Slot /\ Len(q) \in Nat \ {0}
      /\ Len(t) = Len(q) - 1 /\ \A i \in 1..Len(t) : t[i] = q[i + 1]
  BY HeadTailProperties, EmptySeq
<1>2. Head(q) = q[1]
  OBVIOUS
<1> HIDE DEF t
<1>3. /\ \A i \in 1..Len(t) : i \in Nat /\ i + 1 \in 1..Len(q)
      /\ \A k \in 1..Len(q) : k # 1 => k - 1 \in 1..Len(t) /\ k = (k - 1) + 1
      /\ 1 \in 1..Len(q)
  BY <1>1
<1>4. ASSUME Distinct(q) PROVE Distinct(t)
  BY <1>1, <1>3, <1>4 DEF Distinct
<1>5. ASSUME Distinct(q) PROVE Elements(t) = Elements(q) \ {q[1]}
  <2>1. ASSUME NEW x \in Elements(t) PROVE x \in Elements(q) \ {q[1]}
    <3>1. PICK i \in 1..Len(t) : x = t[i]
      BY DEF Elements
    <3>2. x = q[i + 1] /\ i + 1 \in 1..Len(q) /\ i + 1 # 1
      BY <1>1, <1>3, <3>1
    <3>3. QED
      BY <1>3, <1>5, <3>2 DEF Elements, Distinct
  <2>2. ASSUME NEW x \in Elements(q) \ {q[1]} PROVE x \in Elements(t)
    <3>1. PICK k \in 1..Len(q) : x = q[k]
      BY DEF Elements
    <3>2. k # 1 /\ k - 1 \in 1..Len(t) /\ x = t[k - 1]
      BY <1>1, <1>3, <3>1
    <3>3. QED
      BY <3>2 DEF Elements
  <2>3. QED
    BY <2>1, <2>2
<1>6. QED
  BY <1>1, <1>2, <1>3, <1>4, <1>5 DEF t, Elements

LEMMA PoolFinite == Cardinality(Slot) \in Nat /\ CounterMod \in Nat
                    /\ CounterMod > Cardinality(Slot) + 1
BY PoolAssumption, WidthAssumption, FS_CardinalityType

-----------------------------------------------------------------------------
(* Types and places *)

SInv == TypeOK /\ SlotsConserved

LEMMA BumpType ==
    ASSUME stats \in [CounterName -> 0..(CounterMod - 1)], NEW S
    PROVE  /\ Bump(S) \in [CounterName -> 0..(CounterMod - 1)]
           /\ \A c \in CounterName \ S : Bump(S)[c] = stats[c]
           /\ \A c \in CounterName \cap S : Bump(S)[c] = Inc(stats[c])
BY PoolFinite DEF Bump, Inc

LEMMA InitSInv == Init => SInv
<1> SUFFICES ASSUME Init PROVE SInv
  OBVIOUS
<1>1. rxq \in Seq(Slot) /\ Len(rxq) = 0
  BY EmptySeq DEF Init
<1>2. packet \in [Slot -> Packet]
  BY DEF Init, Packet, Blank
<1>3. stats \in [CounterName -> 0..(CounterMod - 1)]
  BY PoolFinite DEF Init
<1>4. TypeOK
  BY <1>1, <1>2, <1>3, BoundAssumption DEF Init, TypeOK, Idle, Waiting
<1>5. SlotsConserved
  BY <1>1, PoolAssumption DEF Init, SlotsConserved, Queued, Idle, Waiting
<1>6. QED
  BY <1>4, <1>5 DEF SInv

CbType == [at : {"idle", "typing", "gate", "filling", "counting", "dropping"},
           slot : Slot \cup {NoSlot}, frame : Frame \cup {Idle.frame}]

\* Steps of the callback that touch neither the pool nor the queue.
LEMMA CallbackOnly ==
    ASSUME SInv, UNCHANGED <<free, rxq, packet, task>>,
           arrivals' \in 0..MaxFrames,
           stats' \in [CounterName -> 0..(CounterMod - 1)],
           cb' \in CbType, cb.slot = NoSlot, cb'.slot = NoSlot, cb'.at # "filling"
    PROVE  SInv'
<1>1. TypeOK'
  BY DEF SInv, TypeOK, CbType
<1>2. SlotsConserved'
  BY PoolAssumption DEF SInv, SlotsConserved, Queued
<1>3. QED
  BY <1>1, <1>2 DEF SInv

LEMMA NextSInv == SInv /\ [Next]_vars => SInv'
<1> SUFFICES ASSUME SInv, [Next]_vars PROVE SInv'
  OBVIOUS
<1> USE DEF SInv
<1>0. /\ cb \in CbType /\ stats \in [CounterName -> 0..(CounterMod - 1)]
      /\ packet \in [Slot -> Packet] /\ rxq \in Seq(Slot) /\ free \subseteq Slot
      /\ arrivals \in 0..MaxFrames /\ arrivals \in Nat
      /\ cb.at = "filling" <=> cb.slot # NoSlot
  BY BoundAssumption DEF TypeOK, CbType
<1>a. Idle \in CbType /\ Idle.slot = NoSlot /\ Idle.at = "idle"
  BY DEF CbType, Idle
<1>q. Queued = Elements(rxq) /\ Queued' = Elements(rxq')
  BY DEF Queued, Elements
<1>1. ASSUME NEW f \in Frame, frame_arrives(f) PROVE SInv'
  <2>1. cb' \in CbType /\ cb'.slot = NoSlot /\ cb'.at # "filling" /\ cb.slot = NoSlot
    BY <1>0, <1>1 DEF frame_arrives, CbType
  <2>2. stats' \in [CounterName -> 0..(CounterMod - 1)]
    BY <1>0, <1>1, BumpType DEF frame_arrives
  <2>3. arrivals' \in 0..MaxFrames
    BY <1>0, <1>1, BoundAssumption DEF frame_arrives
  <2>4. QED
    BY <1>1, <2>1, <2>2, <2>3, CallbackOnly DEF frame_arrives
<1>2. CASE count_type
  <2>1. cb' \in CbType /\ cb'.slot = NoSlot /\ cb'.at # "filling" /\ cb.slot = NoSlot
    BY <1>0, <1>2, <1>a DEF count_type, CbType
  <2>2. stats' \in [CounterName -> 0..(CounterMod - 1)]
    BY <1>0, <1>2, BumpType DEF count_type
  <2>3. QED
    BY <1>0, <1>2, <2>1, <2>2, CallbackOnly DEF count_type
<1>3. CASE reject_state
  <2>1. stats' \in [CounterName -> 0..(CounterMod - 1)]
    BY <1>0, <1>3, BumpType DEF reject_state
  <2>2. QED
    BY <1>0, <1>3, <1>a, <2>1, CallbackOnly DEF reject_state
<1>4. CASE slot_alloc
  <2>1. PICK s \in free : free' = free \ {s} /\ cb' = [cb EXCEPT !.at = "filling", !.slot = s]
    BY <1>4 DEF slot_alloc
  <2>2. s \in Slot /\ s # NoSlot
    BY <1>0, PoolAssumption
  <2>a. cb' = [at |-> "filling", slot |-> s, frame |-> cb.frame]
    BY <1>0, <2>1 DEF CbType
  <2>3. cb' \in CbType /\ cb'.slot = s /\ cb'.at = "filling"
    BY <1>0, <2>2, <2>a DEF CbType
  <2>4. TypeOK'
    BY <1>0, <1>4, <2>1, <2>2, <2>3 DEF slot_alloc, TypeOK, CbType
  <2>5. Queued' = Queued /\ cb.slot = NoSlot
    BY <1>0, <1>4 DEF slot_alloc, Queued
  <2>b. /\ rxq' = rxq /\ task' = task /\ free' = free \ {s} /\ cb'.slot = s
        /\ s \in free /\ cb.slot = NoSlot
    BY <1>4, <2>1, <2>3, <2>5 DEF slot_alloc
  <2>c. ASSUME NEW x \in Slot
        PROVE  \/ x \in free'    /\ x \notin Queued' /\ cb'.slot # x /\ task'.slot # x
               \/ x \notin free' /\ x \in Queued'    /\ cb'.slot # x /\ task'.slot # x
               \/ x \notin free' /\ x \notin Queued' /\ cb'.slot = x /\ task'.slot # x
               \/ x \notin free' /\ x \notin Queued' /\ cb'.slot # x /\ task'.slot = x
    <3>1. CASE x = s
      BY <2>2, <2>5, <2>b, <3>1 DEF SlotsConserved
    <3>2. CASE x # s
      BY <2>2, <2>5, <2>b, <3>2, PoolAssumption DEF SlotsConserved
    <3>3. QED
      BY <3>1, <3>2
  <2>6. SlotsConserved'
    BY <2>b, <2>c DEF SlotsConserved
  <2>7. QED
    BY <2>4, <2>6
<1>5. CASE pool_empty
  <2>1. stats' \in [CounterName -> 0..(CounterMod - 1)]
    BY <1>0, <1>5, BumpType DEF pool_empty
  <2>2. QED
    BY <1>0, <1>5, <1>a, <2>1, CallbackOnly DEF pool_empty
<1>f. ASSUME cb.at = "filling" PROVE Filled \in [Slot -> Packet] /\ cb.slot \in Slot
  <2>1. cb.slot \in Slot
    BY <1>0, <1>f DEF CbType
  <2>2. cb.frame.sig_len \in Nat
    BY <1>0, FrameAssumption DEF CbType, Idle
  <2>3. CopyLength(cb.frame) \in Nat
    BY <2>2, FrameAssumption DEF CopyLength, Least
  <2>4. QED
    BY <1>0, <2>1, <2>2, <2>3 DEF Filled, Packet
<1>6. CASE rx_push
  <2>1. cb.slot \in Slot /\ packet' \in [Slot -> Packet]
    BY <1>f, <1>6 DEF rx_push
  <2>a. cb' = [at |-> "counting", slot |-> NoSlot, frame |-> cb.frame]
    BY <1>0, <1>6 DEF rx_push, CbType
  <2>2. cb' \in CbType /\ cb'.slot = NoSlot /\ cb'.at = "counting"
    BY <1>0, <2>a DEF CbType
  <2>3. rxq' = Append(rxq, cb.slot)
    BY <1>6 DEF rx_push
  <2>4. /\ rxq' \in Seq(Slot) /\ Queued' = Queued \cup {cb.slot}
        /\ Distinct(rxq')
    BY <1>0, <1>q, <2>1, <2>3, QueueGrows DEF SlotsConserved, Distinct
  <2>5. TypeOK'
    BY <1>0, <1>6, <2>1, <2>2, <2>4 DEF rx_push, TypeOK, CbType
  <2>6. SlotsConserved'
    BY <1>6, <2>1, <2>2, <2>4, PoolAssumption DEF rx_push, SlotsConserved, Distinct
  <2>7. QED
    BY <2>5, <2>6
<1>7. CASE push_fails
  <2>1. cb.slot \in Slot /\ packet' \in [Slot -> Packet]
    BY <1>f, <1>7 DEF push_fails
  <2>a. cb' = [at |-> "dropping", slot |-> NoSlot, frame |-> cb.frame]
    BY <1>0, <1>7 DEF push_fails, CbType
  <2>2. cb' \in CbType /\ cb'.slot = NoSlot /\ cb'.at = "dropping"
    BY <1>0, <2>a DEF CbType
  <2>3. TypeOK'
    BY <1>0, <1>7, <2>1, <2>2 DEF push_fails, TypeOK, CbType
  <2>4. SlotsConserved'
    BY <1>7, <2>1, <2>2, PoolAssumption DEF push_fails, SlotsConserved, Queued
  <2>5. QED
    BY <2>3, <2>4
<1>8. CASE count_dropped
  <2>1. stats' \in [CounterName -> 0..(CounterMod - 1)]
    BY <1>0, <1>8, BumpType DEF count_dropped
  <2>2. QED
    BY <1>0, <1>8, <1>a, <2>1, CallbackOnly DEF count_dropped
<1>9. CASE count_queued
  <2> DEFINE current == Inc(stats["queue_current"])
             base == Bump({"rx_queued", "queue_current"}
                         \cup (IF cb.frame.sig_len > MAX_LEN THEN {"rx_truncated"} ELSE {})
                         \cup (IF CopyLength(cb.frame) = 0 THEN {"rx_no_payload"} ELSE {}))
  <2>1. base \in [CounterName -> 0..(CounterMod - 1)]
    BY <1>0, BumpType
  <2>2. stats' = [base EXCEPT !["queue_peak"] =
                     IF current > stats["queue_peak"] THEN current ELSE @]
    BY <1>9 DEF count_queued
  <2>a. stats["queue_current"] \in 0..(CounterMod - 1)
    BY <1>0 DEF CounterName
  <2>3. current \in 0..(CounterMod - 1)
    BY <2>a, PoolFinite DEF Inc
  <2> HIDE DEF base, current
  <2>4. stats' \in [CounterName -> 0..(CounterMod - 1)]
    BY <2>1, <2>2, <2>3
  <2>5. QED
    BY <1>0, <1>9, <1>a, <2>4, CallbackOnly DEF count_queued
<1>10. CASE rx_take
  <2>1. task' = [at |-> "parsing", slot |-> Head(rxq)] /\ rxq' = Tail(rxq) /\ rxq # <<>>
    BY <1>10 DEF rx_take
  <2>2. /\ rxq' \in Seq(Slot) /\ Head(rxq) \in Slot /\ Head(rxq) \in Queued
        /\ Distinct(rxq') /\ Queued' = Queued \ {Head(rxq)}
    BY <1>0, <1>q, <2>1, QueueShrinks DEF SlotsConserved, Distinct
  <2>3. Head(rxq) # NoSlot
    BY <2>2, PoolAssumption
  <2>4. TypeOK'
    BY <1>0, <1>10, <2>1, <2>2, <2>3 DEF rx_take, TypeOK, CbType
  <2>5. task.slot = NoSlot
    BY <1>10 DEF rx_take, TypeOK
  <2>6. SlotsConserved'
    BY <1>10, <2>1, <2>2, <2>5, PoolAssumption DEF rx_take, SlotsConserved, Distinct
  <2>7. QED
    BY <2>4, <2>6
<1>11. CASE release_counted
  <2> DEFINE base == Bump({"rx_processed"})
  <2>1. base \in [CounterName -> 0..(CounterMod - 1)]
    BY <1>0, BumpType
  <2>2. stats' = [base EXCEPT !["queue_current"] = Dec(@)]
    BY <1>11 DEF release_counted
  <2> HIDE DEF base
  <2>3. stats' \in [CounterName -> 0..(CounterMod - 1)]
    BY <2>1, <2>2, PoolFinite DEF Dec, CounterName
  <2>4. task' = [at |-> "releasing", slot |-> task.slot]
    BY <1>11 DEF release_counted, TypeOK
  <2>5. TypeOK'
    BY <1>0, <1>11, <2>3, <2>4 DEF release_counted, TypeOK, CbType
  <2>6. SlotsConserved'
    BY <1>11, <2>4 DEF release_counted, SlotsConserved, Queued
  <2>7. QED
    BY <2>5, <2>6
<1>12. CASE slot_return
  <2>1. task' = Waiting /\ Waiting.slot = NoSlot /\ task.slot \in Slot
    BY <1>12 DEF slot_return, TypeOK, Waiting
  <2>2. TypeOK'
    BY <1>0, <1>12, <2>1 DEF slot_return, TypeOK, CbType, Waiting
  <2>3. SlotsConserved'
    BY <1>12, <2>1, PoolAssumption DEF slot_return, SlotsConserved, Queued
  <2>4. QED
    BY <2>2, <2>3
<1>13. CASE UNCHANGED vars
  BY <1>13 DEF vars, TypeOK, SlotsConserved, Queued
<1>14. QED
  BY <1>1, <1>2, <1>3, <1>4, <1>5, <1>6, <1>7, <1>8, <1>9, <1>10, <1>11, <1>12, <1>13
  DEF Next, Callback, Consumer, Done

\* Every field of the receive path keeps its range.
THEOREM RxTypeCorrect == Spec => []TypeOK
<1>1. SInv => TypeOK
  BY DEF SInv
<1>2. QED
  BY InitSInv, NextSInv, <1>1, PTL DEF Spec

\* For every pool and every queue size, no interleaving of the callback with
\* the consumer leaks, doubles or shares a slot.
THEOREM SlotsAlwaysConserved == Spec => []SlotsConserved
<1>1. SInv => SlotsConserved
  BY DEF SInv
<1>2. QED
  BY InitSInv, NextSInv, <1>1, PTL DEF Spec

-----------------------------------------------------------------------------
(* Occupancy *)

\* There is room in the pool for what is queued, held and being filled.
LEMMA PoolBound ==
    ASSUME SInv
    PROVE  /\ Len(rxq) \in Nat
           /\ Len(rxq) + (IF task.slot # NoSlot THEN 1 ELSE 0)
                       + (IF cb.slot # NoSlot THEN 1 ELSE 0) <= Cardinality(Slot)
<1> DEFINE n == Len(rxq)
           Q == Elements(rxq)
           R == IF task.slot # NoSlot THEN Q \cup {task.slot} ELSE Q
           T == IF cb.slot # NoSlot THEN R \cup {cb.slot} ELSE R
<1>1. n \in Nat /\ rxq \in [1..n -> Slot] /\ Distinct(rxq) /\ DOMAIN rxq = 1..n
  BY LenProperties DEF SInv, TypeOK, SlotsConserved, Distinct
<1>2. Q = Queued /\ Q \subseteq Slot
  BY <1>1 DEF Elements, Queued
<1>3. rxq \in Surjection(1..n, Q) /\ rxq \in Injection(1..n, Q)
  BY <1>1 DEF Elements, Distinct, Surjection, Injection, IsInjective
<1>4. IsFiniteSet(1..n) /\ Cardinality(1..n) = n
  BY SMTT(30), <1>1, FS_Interval
<1>5. IsFiniteSet(Q) /\ Cardinality(Q) = n
  <2> HIDE DEF Q, n
  <2>1. QED
    BY <1>3, <1>4, FS_Surjection
<1>6. /\ task.slot # NoSlot => task.slot \in Slot \ Q
      /\ cb.slot # NoSlot => cb.slot \in Slot \ R
  <2>1. task.slot \in Slot \cup {NoSlot} /\ cb.slot \in Slot \cup {NoSlot}
    BY DEF SInv, TypeOK
  <2>2. QED
    BY <1>2, <2>1 DEF SInv, SlotsConserved
<1> HIDE DEF Q, n
<1>7. /\ IsFiniteSet(R) /\ R \subseteq Slot
      /\ Cardinality(R) = n + (IF task.slot # NoSlot THEN 1 ELSE 0)
  <2>1. CASE task.slot # NoSlot
    BY <1>2, <1>5, <1>6, <2>1, FS_AddElement
  <2>2. CASE task.slot = NoSlot
    BY <1>1, <1>2, <1>5, <2>2
  <2>3. QED
    BY <2>1, <2>2
<1> HIDE DEF R
<1>8. /\ IsFiniteSet(T) /\ T \subseteq Slot
      /\ Cardinality(T) = Cardinality(R) + (IF cb.slot # NoSlot THEN 1 ELSE 0)
  <2>1. CASE cb.slot # NoSlot
    BY <1>6, <1>7, <2>1, FS_AddElement
  <2>2. CASE cb.slot = NoSlot
    <3>1. Cardinality(R) \in Nat
      BY <1>7, FS_CardinalityType
    <3>2. QED
      BY <1>7, <2>2, <3>1
  <2>3. QED
    BY <2>1, <2>2
<1>9. Cardinality(T) <= Cardinality(Slot)
  BY <1>8, PoolAssumption, FS_Subset
<1>10. QED
  BY <1>1, <1>7, <1>8, <1>9 DEF n

\* The same without the callback, one fact per case.
LEMMA LineFits ==
    ASSUME SInv
    PROVE  /\ Len(rxq) \in Nat /\ Cardinality(Slot) \in Nat
           /\ Len(rxq) <= Cardinality(Slot)
           /\ task.at = "parsing" => Len(rxq) + 1 <= Cardinality(Slot)
<1> DEFINE n == Len(rxq)
           N == Cardinality(Slot)
           a == IF task.slot # NoSlot THEN 1 ELSE 0
           b == IF cb.slot # NoSlot THEN 1 ELSE 0
<1>1. n \in Nat /\ n + a + b <= N
  BY PoolBound
<1>2. N \in Nat
  BY PoolFinite
<1>3. a \in {0, 1} /\ b \in {0, 1} /\ (task.at = "parsing" => a = 1)
  BY DEF SInv, TypeOK
<1> HIDE DEF n, N, a, b
<1>4. n <= N /\ (a = 1 => n + 1 <= N)
  BY <1>1, <1>2, <1>3
<1>5. QED
  BY <1>1, <1>2, <1>3, <1>4 DEF n, N

IInv == SInv /\ OccupancyExact

\* The occupancy, as the counter shows it.
Shown == IF Occupancy < 0 THEN Occupancy + CounterMod ELSE Occupancy

LEMMA OccupancyRange ==
    ASSUME SInv
    PROVE  /\ Occupancy \in Int /\ Occupancy >= -1 /\ Occupancy <= Cardinality(Slot)
           /\ cb.at # "counting" => Occupancy >= 0
           /\ task.at = "parsing" \/ rxq # <<>> => Occupancy >= 0
<1> DEFINE n == Len(rxq)
           N == Cardinality(Slot)
           held == IF task.at = "parsing" THEN 1 ELSE 0
           uncounted == IF cb.at = "counting" THEN 1 ELSE 0
<1>1. n \in Nat /\ N \in Nat /\ n <= N /\ (task.at = "parsing" => n + 1 <= N)
  BY LineFits
<1>2. rxq # <<>> => n # 0
  BY EmptySeq DEF SInv, TypeOK
<1>3. Occupancy = n + held - uncounted
  BY DEF Occupancy
<1>4. /\ held \in {0, 1} /\ uncounted \in {0, 1}
      /\ (task.at = "parsing" <=> held = 1) /\ (cb.at = "counting" <=> uncounted = 1)
  OBVIOUS
<1> HIDE DEF n, N, held, uncounted
<1>5. /\ Occupancy \in Int /\ Occupancy >= -1 /\ Occupancy <= N
      /\ uncounted = 0 => Occupancy >= 0
      /\ held = 1 \/ n # 0 => Occupancy >= 0
  BY <1>1, <1>3, <1>4
<1>6. QED
  BY <1>2, <1>4, <1>5 DEF N

\* Steps that leave the occupancy and both its counters alone.
LEMMA SameOccupancy ==
    ASSUME IInv, SInv', Occupancy' = Occupancy,
           stats'["queue_current"] = stats["queue_current"],
           stats'["queue_peak"] = stats["queue_peak"]
    PROVE  IInv'
BY DEF IInv, OccupancyExact

LEMMA InitIInv == Init => IInv
<1>1. ASSUME Init PROVE OccupancyExact
  <2>1. Len(rxq) = 0 /\ Occupancy = 0
    BY <1>1, EmptySeq DEF Init, Occupancy, Idle, Waiting
  <2>2. stats["queue_current"] = 0 /\ stats["queue_peak"] = 0
    BY <1>1 DEF Init, CounterName
  <2>3. QED
    BY <2>1, <2>2, PoolFinite DEF OccupancyExact
<1>2. QED
  BY <1>1, InitSInv DEF IInv

LEMMA NextIInv == IInv /\ [Next]_vars => IInv'
<1> SUFFICES ASSUME IInv, [Next]_vars PROVE IInv'
  OBVIOUS
<1>0. SInv /\ SInv' /\ OccupancyExact
  BY NextSInv DEF IInv
<1>1. /\ stats \in [CounterName -> 0..(CounterMod - 1)]
      /\ stats["queue_current"] = Shown /\ stats["queue_peak"] <= Cardinality(Slot)
      /\ stats["queue_current"] \in 0..(CounterMod - 1)
      /\ stats["queue_peak"] \in Nat
  <2>1. stats \in [CounterName -> 0..(CounterMod - 1)]
    BY <1>0 DEF SInv, TypeOK
  <2>2. "queue_current" \in CounterName /\ "queue_peak" \in CounterName
    BY DEF CounterName
  <2>3. /\ stats["queue_current"] \in 0..(CounterMod - 1)
        /\ stats["queue_peak"] \in 0..(CounterMod - 1)
    BY <2>1, <2>2
  <2>4. stats["queue_current"] = Shown /\ stats["queue_peak"] <= Cardinality(Slot)
    BY <1>0 DEF OccupancyExact, Shown
  <2>5. QED
    BY <2>1, <2>3, <2>4, PoolFinite
<1>2. ASSUME NEW S, "queue_current" \notin S, "queue_peak" \notin S
      PROVE  /\ Bump(S)["queue_current"] = stats["queue_current"]
             /\ Bump(S)["queue_peak"] = stats["queue_peak"]
  BY <1>2 DEF Bump, CounterName
<1>3. ASSUME NEW f \in Frame, frame_arrives(f) PROVE IInv'
  <2>1. Occupancy' = Occupancy
    BY <1>3 DEF frame_arrives, Occupancy
  <2>2. QED
    BY <1>0, <1>2, <1>3, <2>1, SameOccupancy DEF frame_arrives
<1>4. CASE count_type
  <2>1. Occupancy' = Occupancy
    BY <1>4 DEF count_type, Occupancy, Idle
  <2>2. "queue_current" # TypeCounter[cb.frame.type] /\ "queue_peak" # TypeCounter[cb.frame.type]
    <3>1. cb.frame.type \in FrameType
      BY <1>0, FrameAssumption DEF SInv, TypeOK, Idle, FrameType
    <3>2. QED
      BY <3>1 DEF TypeCounter, FrameType
  <2>3. QED
    BY <1>0, <1>2, <1>4, <2>1, <2>2, SameOccupancy DEF count_type
<1>5. CASE reject_state
  <2>1. Occupancy' = Occupancy
    BY <1>5 DEF reject_state, Occupancy, Idle
  <2>2. QED
    BY <1>0, <1>2, <1>5, <2>1, SameOccupancy DEF reject_state
<1>6. CASE slot_alloc
  <2>1. cb'.at = "filling"
    BY <1>0, <1>6 DEF slot_alloc, SInv, TypeOK
  <2>2. Occupancy' = Occupancy
    BY <1>6, <2>1 DEF slot_alloc, Occupancy
  <2>3. QED
    BY <1>0, <1>6, <2>2, SameOccupancy DEF slot_alloc
<1>7. CASE pool_empty
  <2>1. Occupancy' = Occupancy
    BY <1>7 DEF pool_empty, Occupancy, Idle
  <2>2. QED
    BY <1>0, <1>2, <1>7, <2>1, SameOccupancy DEF pool_empty
<1>8. CASE rx_push
  <2>1. cb'.at = "counting" /\ cb.at = "filling" /\ task' = task
    BY <1>0, <1>8 DEF rx_push, SInv, TypeOK
  <2>2. Len(rxq') = Len(rxq) + 1 /\ Len(rxq) \in Nat
    BY <1>0, <1>8, <2>1, QueueGrows, LenProperties DEF rx_push, SInv, TypeOK
  <2>3. Occupancy' = Occupancy
    BY <2>1, <2>2 DEF Occupancy
  <2>4. QED
    BY <1>0, <1>8, <2>3, SameOccupancy DEF rx_push
<1>9. CASE push_fails
  <2>1. cb'.at = "dropping"
    BY <1>0, <1>9 DEF push_fails, SInv, TypeOK
  <2>2. Occupancy' = Occupancy
    BY <1>9, <2>1 DEF push_fails, Occupancy
  <2>3. QED
    BY <1>0, <1>9, <2>2, SameOccupancy DEF push_fails
<1>10. CASE count_dropped
  <2>1. Occupancy' = Occupancy
    BY <1>10 DEF count_dropped, Occupancy, Idle
  <2>2. QED
    BY <1>0, <1>2, <1>10, <2>1, SameOccupancy DEF count_dropped
<1>11. CASE count_queued
  <2> DEFINE current == Inc(stats["queue_current"])
             S == {"rx_queued", "queue_current"}
                         \cup (IF cb.frame.sig_len > MAX_LEN THEN {"rx_truncated"} ELSE {})
                         \cup (IF CopyLength(cb.frame) = 0 THEN {"rx_no_payload"} ELSE {})
             base == Bump(S)
  <2>1. Occupancy' = Occupancy + 1
    BY <1>0, <1>11, PoolBound DEF count_queued, Occupancy, Idle
  <2>2. Occupancy' >= 0 /\ Occupancy' <= Cardinality(Slot) /\ Occupancy' \in Int
    <3>1. /\ cb.at = "counting" /\ cb' = Idle /\ rxq' = rxq /\ task' = task
      BY <1>11 DEF count_queued
    <3>2. Occupancy' = Len(rxq) + (IF task.at = "parsing" THEN 1 ELSE 0)
      BY <3>1, <1>0, PoolBound DEF Occupancy, Idle
    <3>3. QED
      BY <1>0, <3>2, LineFits
  <2>3. Occupancy >= -1 /\ Occupancy \in Int
    BY <1>0, OccupancyRange
  <2>4. current = Occupancy'
    BY <1>1, <2>1, <2>2, <2>3, PoolFinite DEF Inc, Shown
  <2>5. stats' = [base EXCEPT !["queue_peak"] =
                     IF current > stats["queue_peak"] THEN current ELSE @]
    BY <1>11 DEF count_queued
  <2>6. /\ base["queue_current"] = current
        /\ base["queue_peak"] = stats["queue_peak"]
        /\ base = [c \in CounterName |-> base[c]]
    BY DEF Bump, CounterName
  <2> HIDE DEF base, current
  <2>7. /\ stats'["queue_current"] = current
        /\ stats'["queue_peak"] = IF current > stats["queue_peak"]
                                  THEN current ELSE stats["queue_peak"]
    BY <2>5, <2>6 DEF CounterName
  <2>8. OccupancyExact'
    BY <1>1, <2>2, <2>4, <2>7 DEF OccupancyExact
  <2>9. QED
    BY <1>0, <2>8 DEF IInv
<1>12. CASE rx_take
  <2>1. task'.at = "parsing" /\ task.at = "waiting" /\ cb' = cb
    BY <1>12 DEF rx_take
  <2>2. Len(rxq') = Len(rxq) - 1 /\ Len(rxq) \in Nat
    BY <1>0, <1>12, QueueShrinks DEF rx_take, SInv, TypeOK
  <2>3. Occupancy' = Occupancy
    BY <2>1, <2>2 DEF Occupancy
  <2>4. QED
    BY <1>0, <1>12, <2>3, SameOccupancy DEF rx_take
<1>13. CASE release_counted
  <2> DEFINE base == Bump({"rx_processed"})
  <2>1. Occupancy >= 0 /\ Occupancy <= Cardinality(Slot) /\ Occupancy \in Int
    BY <1>0, <1>13, OccupancyRange DEF release_counted
  <2>2. task'.at = "releasing" /\ task.at = "parsing" /\ rxq' = rxq /\ cb' = cb
    BY <1>0, <1>13 DEF release_counted, SInv, TypeOK
  <2>3. Occupancy' = Occupancy - 1
    BY <1>0, <2>2, PoolBound DEF Occupancy
  <2>4. stats' = [base EXCEPT !["queue_current"] = Dec(@)]
    BY <1>13 DEF release_counted
  <2>5. /\ base["queue_current"] = stats["queue_current"]
        /\ base["queue_peak"] = stats["queue_peak"]
        /\ base = [c \in CounterName |-> base[c]]
    BY DEF Bump, CounterName
  <2> HIDE DEF base
  <2>6. /\ stats'["queue_current"] = Dec(stats["queue_current"])
        /\ stats'["queue_peak"] = stats["queue_peak"]
    BY <2>4, <2>5 DEF CounterName
  <2>7. OccupancyExact'
    BY <1>1, <2>1, <2>3, <2>6, PoolFinite DEF OccupancyExact, Shown, Dec
  <2>8. QED
    BY <1>0, <2>7 DEF IInv
<1>14. CASE slot_return
  <2>1. Occupancy' = Occupancy
    BY <1>14 DEF slot_return, Occupancy, Waiting
  <2>2. QED
    BY <1>0, <1>14, <2>1, SameOccupancy DEF slot_return
<1>15. CASE UNCHANGED vars
  <2>1. Occupancy' = Occupancy
    BY <1>15 DEF vars, Occupancy
  <2>2. QED
    BY <1>0, <1>15, <2>1, SameOccupancy DEF vars
<1>16. QED
  BY <1>3, <1>4, <1>5, <1>6, <1>7, <1>8, <1>9, <1>10, <1>11, <1>12, <1>13, <1>14, <1>15
  DEF Next, Callback, Consumer, Done

\* queue_current is exact up to the one frame that is queued and not yet
\* counted, and queue_peak never exceeds the pool, whatever the interleaving.
THEOREM OccupancyAlwaysExact == Spec => []OccupancyExact
<1>1. IInv => OccupancyExact
  BY DEF IInv
<1>2. QED
  BY InitIInv, NextIInv, <1>1, PTL DEF Spec

\* A consumer queue at least as large as the pool never refuses a frame, as
\* the sizes of wifi_sniffer_init intend: rx_dropped_queue stays zero.
NeverRefused == cb.at # "dropping" /\ stats["rx_dropped_queue"] = 0

THEOREM QueueNeverRefuses ==
    ASSUME QUEUE_SIZE >= Cardinality(Slot)
    PROVE  Spec => []NeverRefused
<1> DEFINE J == SInv /\ NeverRefused
<1>1. Init => J
  BY InitSInv DEF Init, Idle, NeverRefused, CounterName
<1>2. J /\ [Next]_vars => J'
  <2> SUFFICES ASSUME J, [Next]_vars PROVE NeverRefused'
    BY NextSInv
  <2>1. ASSUME push_fails PROVE FALSE
    <3>1. cb.slot # NoSlot /\ Len(rxq) >= QUEUE_SIZE
      BY <2>1 DEF push_fails, SInv, TypeOK
    <3>2. Len(rxq) + 1 <= Cardinality(Slot) /\ Len(rxq) \in Nat
      BY <3>1, PoolBound, PoolFinite
    <3>3. QED
      BY <3>1, <3>2, PoolFinite, PoolAssumption
  <2>2. ASSUME NEW S, "rx_dropped_queue" \notin S
        PROVE  Bump(S)["rx_dropped_queue"] = stats["rx_dropped_queue"]
    BY <2>2 DEF Bump, CounterName
  <2>3. \A f \in Frame : frame_arrives(f) => NeverRefused'
    BY <2>2 DEF frame_arrives, NeverRefused
  <2>4. count_type => NeverRefused'
    <3>1. cb.frame.type \in FrameType
      BY FrameAssumption DEF SInv, TypeOK, Idle, FrameType
    <3>2. "rx_dropped_queue" # TypeCounter[cb.frame.type]
      BY <3>1 DEF TypeCounter, FrameType
    <3>3. ASSUME count_type PROVE cb'.at # "dropping"
      BY <3>3 DEF count_type, Idle, SInv, TypeOK
    <3>4. QED
      BY <2>2, <3>2, <3>3 DEF count_type, NeverRefused
  <2>5. reject_state \/ pool_empty => NeverRefused'
    BY <2>2 DEF reject_state, pool_empty, Idle, NeverRefused
  <2>6. slot_alloc \/ rx_push => NeverRefused'
    BY DEF slot_alloc, rx_push, NeverRefused, SInv, TypeOK
  <2>7. ASSUME count_queued PROVE NeverRefused'
    <3> DEFINE S == {"rx_queued", "queue_current"}
                     \cup (IF cb.frame.sig_len > MAX_LEN THEN {"rx_truncated"} ELSE {})
                     \cup (IF CopyLength(cb.frame) = 0 THEN {"rx_no_payload"} ELSE {})
               base == Bump(S)
               peak == IF Inc(stats["queue_current"]) > stats["queue_peak"]
                       THEN Inc(stats["queue_current"]) ELSE base["queue_peak"]
    <3>1. stats' = [base EXCEPT !["queue_peak"] = peak] /\ cb' = Idle
      BY <2>7 DEF count_queued
    <3>2. base["rx_dropped_queue"] = stats["rx_dropped_queue"]
      BY <2>2
    <3>3. base = [c \in CounterName |-> base[c]]
      BY DEF Bump
    <3> HIDE DEF base, peak
    <3>4. stats'["rx_dropped_queue"] = base["rx_dropped_queue"]
      BY <3>1, <3>3 DEF CounterName
    <3>5. QED
      BY <3>1, <3>2, <3>4 DEF NeverRefused, Idle
  <2>8. ~count_dropped
    BY DEF count_dropped, NeverRefused
  <2>9. rx_take \/ slot_return \/ UNCHANGED vars => NeverRefused'
    BY DEF rx_take, slot_return, vars, NeverRefused
  <2>10. ASSUME release_counted PROVE NeverRefused'
    <3> DEFINE base == Bump({"rx_processed"})
    <3>1. stats' = [base EXCEPT !["queue_current"] = Dec(@)] /\ cb' = cb
      BY <2>10 DEF release_counted
    <3>2. base["rx_dropped_queue"] = stats["rx_dropped_queue"]
      BY <2>2
    <3>3. base = [c \in CounterName |-> base[c]]
      BY DEF Bump
    <3> HIDE DEF base
    <3>4. stats'["rx_dropped_queue"] = base["rx_dropped_queue"]
      BY <3>1, <3>3 DEF CounterName
    <3>5. QED
      BY <3>1, <3>2, <3>4 DEF NeverRefused
  <2>11. QED
    BY <2>1, <2>3, <2>4, <2>5, <2>6, <2>7, <2>8, <2>9, <2>10
    DEF Next, Callback, Consumer, Done
<1>3. J => NeverRefused
  OBVIOUS
<1>4. QED
  BY <1>1, <1>2, <1>3, PTL DEF Spec

-----------------------------------------------------------------------------
(* What is in a queued slot *)

InFlight(s) == s \in Queued \/ task.slot = s

\* A frame that waits or is parsed lies in a slot that no other path touches,
\* so a callback that fills a packet fills one nobody reads.
LEMMA FilledNotInFlight ==
    ASSUME SInv, cb.at = "filling"
    PROVE  cb.slot \in Slot /\ ~InFlight(cb.slot) /\ cb.slot \notin free
<1>1. cb.slot \in Slot
  BY DEF SInv, TypeOK
<1>2. QED
  BY <1>1 DEF SInv, SlotsConserved, InFlight

\* rx_path_on_frame writes a slot only before it has pushed it and after it
\* has come back to the pool: what the parser reads is what was captured.
THEOREM PacketsNeverOverwritten == Spec => NeverOverwritten
<1>1. SInv /\ [Next]_vars =>
          [\A s \in Slot : s \in Queued \/ task.slot = s => packet'[s] = packet[s]]_vars
  <2> SUFFICES ASSUME SInv, Next, NEW s \in Slot, InFlight(s)
               PROVE  packet'[s] = packet[s]
    BY DEF InFlight
  <2>1. CASE rx_push \/ push_fails
    <3>1. cb.at = "filling" /\ packet' = Filled
      BY <2>1 DEF rx_push, push_fails
    <3>2. s # cb.slot /\ packet \in [Slot -> Packet]
      BY <3>1, FilledNotInFlight DEF SInv, TypeOK
    <3>3. QED
      BY <3>1, <3>2 DEF Filled
  <2>2. ASSUME ~rx_push, ~push_fails PROVE packet' = packet
    BY <2>2 DEF Next, Callback, Consumer, Done, vars, frame_arrives, count_type,
       reject_state, slot_alloc, pool_empty, count_dropped, count_queued, rx_take,
       release_counted, slot_return
  <2>3. QED
    BY <2>1, <2>2
<1>2. QED
  BY InitSInv, NextSInv, <1>1, PTL DEF Spec, NeverOverwritten

Handling == cb.at \in {"typing", "gate", "filling"}

\* Every frame in flight was copied by the rule of rx_path_on_frame, and is
\* older than the frame the callback has still to push.
Stamped ==
    \A s \in Slot : InFlight(s) =>
        /\ packet[s].length = Least(packet[s].orig_length, MAX_LEN)
        /\ packet[s].seq <= arrivals
        /\ Handling => packet[s].seq < arrivals

\* FramesInOrder, with the parsed frame apart from the queue.
Older(s, t) == packet[s].seq < packet[t].seq
InOrder ==
    /\ \A i, k \in 1..Len(rxq) : i < k => Older(rxq[i], rxq[k])
    /\ task.slot # NoSlot => \A i \in 1..Len(rxq) : Older(task.slot, rxq[i])

OInv == SInv /\ Stamped /\ InOrder

\* The steps that leave the packets and what is in flight alone.
LEMMA FlightUntouched ==
    ASSUME OInv, SInv', packet' = packet, rxq' = rxq, task'.slot = task.slot,
           arrivals' >= arrivals, Handling' => Handling \/ arrivals' > arrivals
    PROVE  OInv'
<1>1. arrivals \in Nat /\ arrivals' \in Nat /\ packet \in [Slot -> Packet]
  BY BoundAssumption DEF OInv, SInv, TypeOK
<1>2. Queued' = Queued
  BY DEF Queued
<1>3. \A s \in Slot : packet[s].seq \in Nat
  BY <1>1 DEF Packet
<1>4. Stamped'
  BY <1>1, <1>2, <1>3 DEF OInv, Stamped, InFlight
<1>5. InOrder'
  BY DEF OInv, InOrder, Older
<1>6. QED
  BY <1>4, <1>5 DEF OInv

LEMMA InitOInv == Init => OInv
<1> SUFFICES ASSUME Init PROVE OInv
  OBVIOUS
<1>1. SInv /\ rxq = <<>> /\ task.slot = NoSlot /\ Len(rxq) = 0
  BY InitSInv DEF Init, Waiting
<1>2. Queued = {}
  BY <1>1 DEF Queued
<1>3. QED
  BY <1>1, <1>2, PoolAssumption DEF OInv, Stamped, InOrder, InFlight

LEMMA PushOInv ==
    ASSUME OInv, SInv', rx_push
    PROVE  OInv'
<1>1. /\ cb.at = "filling" /\ packet' = Filled /\ rxq' = Append(rxq, cb.slot)
      /\ task' = task /\ arrivals' = arrivals /\ cb'.at = "counting"
  BY DEF rx_push, OInv, SInv, TypeOK
<1>2. /\ cb.slot \in Slot /\ cb.slot # NoSlot /\ ~InFlight(cb.slot)
      /\ rxq \in Seq(Slot) /\ Len(rxq) \in Nat /\ arrivals \in Nat
      /\ packet \in [Slot -> Packet]
      /\ task.slot # NoSlot => task.slot \in Slot
  BY <1>1, FilledNotInFlight, PoolAssumption, BoundAssumption, LenProperties
     DEF OInv, SInv, TypeOK
<1>3. /\ Len(rxq') = Len(rxq) + 1 /\ rxq'[Len(rxq) + 1] = cb.slot
      /\ \A i \in 1..Len(rxq) : rxq'[i] = rxq[i] /\ rxq[i] \in Slot /\ InFlight(rxq[i])
  BY <1>1, <1>2, AppendProperties, LenProperties DEF InFlight, Queued
<1>4. /\ packet'[cb.slot].seq = arrivals
      /\ packet'[cb.slot].length = Least(packet'[cb.slot].orig_length, MAX_LEN)
      /\ \A s \in Slot : s # cb.slot => packet'[s] = packet[s]
  BY <1>1, <1>2 DEF Filled, CopyLength
<1>5. Queued' = Queued \cup {cb.slot}
  BY <1>1, <1>2, QueueGrows DEF Queued, Elements
<1>6. \A s \in Slot : InFlight(s) =>
          s # cb.slot /\ packet[s].seq < arrivals
          /\ packet[s].length = Least(packet[s].orig_length, MAX_LEN)
  BY <1>1, <1>2 DEF OInv, Stamped, Handling
<1>7. Stamped'
  <2> SUFFICES ASSUME NEW s \in Slot, InFlight(s)'
               PROVE  /\ packet'[s].length = Least(packet'[s].orig_length, MAX_LEN)
                      /\ packet'[s].seq <= arrivals'
    BY <1>1 DEF Stamped, Handling
  <2>1. CASE s = cb.slot
    BY <2>1, <1>1, <1>2, <1>4
  <2>2. CASE s # cb.slot
    <3>1. InFlight(s)
      BY <2>2, <1>1, <1>5 DEF InFlight
    <3>2. packet[s].seq \in Nat
      BY <1>2 DEF Packet
    <3>3. QED
      BY <3>1, <3>2, <2>2, <1>1, <1>2, <1>4, <1>6
  <2>3. QED
    BY <2>1, <2>2
<1>8. ASSUME NEW i \in 1..Len(rxq'), NEW k \in 1..Len(rxq'), i < k
      PROVE  packet'[rxq'[i]].seq < packet'[rxq'[k]].seq
  <2>1. i \in 1..Len(rxq) /\ rxq'[i] = rxq[i] /\ rxq[i] \in Slot /\ InFlight(rxq[i])
    BY <1>2, <1>3, <1>8
  <2>2. packet'[rxq'[i]] = packet[rxq[i]] /\ packet[rxq[i]].seq < arrivals
    BY <2>1, <1>4, <1>6
  <2>3. CASE k = Len(rxq) + 1
    BY <2>2, <2>3, <1>3, <1>4
  <2>4. CASE k # Len(rxq) + 1
    <3>1. k \in 1..Len(rxq) /\ rxq'[k] = rxq[k] /\ rxq[k] \in Slot /\ InFlight(rxq[k])
      BY <2>4, <1>2, <1>3
    <3>2. packet'[rxq'[k]] = packet[rxq[k]]
      BY <3>1, <1>4, <1>6
    <3>3. QED
      BY <2>1, <2>2, <3>1, <3>2, <1>8 DEF OInv, InOrder, Older
  <2>5. QED
    BY <2>3, <2>4
<1>9. ASSUME task'.slot # NoSlot, NEW i \in 1..Len(rxq')
      PROVE  packet'[task'.slot].seq < packet'[rxq'[i]].seq
  <2>1. task'.slot = task.slot /\ task.slot \in Slot /\ InFlight(task.slot)
    BY <1>1, <1>2, <1>9 DEF InFlight
  <2>2. packet'[task.slot] = packet[task.slot] /\ packet[task.slot].seq < arrivals
    BY <2>1, <1>4, <1>6
  <2>3. CASE i = Len(rxq) + 1
    BY <2>1, <2>2, <2>3, <1>3, <1>4
  <2>4. CASE i # Len(rxq) + 1
    <3>1. i \in 1..Len(rxq) /\ rxq'[i] = rxq[i] /\ rxq[i] \in Slot /\ InFlight(rxq[i])
      BY <2>4, <1>2, <1>3
    <3>2. packet'[rxq'[i]] = packet[rxq[i]]
      BY <3>1, <1>4, <1>6
    <3>3. QED
      BY <2>1, <2>2, <3>1, <3>2, <1>9 DEF OInv, InOrder, Older
  <2>5. QED
    BY <2>3, <2>4
<1>10. QED
  BY <1>7, <1>8, <1>9 DEF OInv, InOrder, Older

\* A refused frame was written where nobody looks.
LEMMA RefusedOInv ==
    ASSUME OInv, SInv', push_fails
    PROVE  OInv'
<1>1. /\ cb.at = "filling" /\ packet' = Filled /\ rxq' = rxq /\ task' = task
      /\ arrivals' = arrivals /\ cb'.at = "dropping"
  BY DEF push_fails, OInv, SInv, TypeOK
<1>2. /\ cb.slot \in Slot /\ ~InFlight(cb.slot) /\ arrivals \in Nat
      /\ packet \in [Slot -> Packet] /\ rxq \in Seq(Slot)
      /\ task.slot # NoSlot => task.slot \in Slot
  BY <1>1, FilledNotInFlight, BoundAssumption DEF OInv, SInv, TypeOK
<1>3. /\ \A s \in Slot : InFlight(s) => packet'[s] = packet[s]
      /\ \A s : InFlight(s)' <=> InFlight(s)
  BY <1>1, <1>2 DEF Filled, InFlight, Queued
<1>4. Stamped'
  BY <1>1, <1>3 DEF OInv, Stamped, Handling
<1>5. \A i \in 1..Len(rxq) : rxq[i] \in Slot /\ InFlight(rxq[i])
  BY <1>2, LenProperties DEF InFlight, Queued
<1>6. task.slot # NoSlot => task.slot \in Slot /\ InFlight(task.slot)
  BY <1>2 DEF InFlight
<1>7. InOrder'
  BY <1>1, <1>3, <1>5, <1>6 DEF OInv, InOrder, Older
<1>8. QED
  BY <1>4, <1>7 DEF OInv

\* The consumer takes the oldest frame.
LEMMA TakeOInv ==
    ASSUME OInv, SInv', rx_take
    PROVE  OInv'
<1>1. /\ rxq # <<>> /\ rxq' = Tail(rxq) /\ task'.slot = Head(rxq)
      /\ packet' = packet /\ cb' = cb /\ arrivals' = arrivals
      /\ rxq \in Seq(Slot)
  BY DEF rx_take, OInv, SInv, TypeOK
<1>2. /\ Len(rxq) \in Nat \ {0} /\ Len(rxq') = Len(rxq) - 1 /\ task'.slot = rxq[1]
      /\ \A i \in 1..Len(rxq') : rxq'[i] = rxq[i + 1]
  BY <1>1, HeadTailProperties, QueueShrinks
<1>3. ASSUME NEW s \in Slot, InFlight(s)' PROVE InFlight(s)
  <2>1. s = rxq[1] \/ \E i \in 1..Len(rxq') : s = rxq[i + 1]
    BY <1>2, <1>3 DEF InFlight, Queued
  <2>2. 1 \in 1..Len(rxq) /\ \A i \in 1..Len(rxq') : i + 1 \in 1..Len(rxq)
    BY <1>2
  <2>3. QED
    BY <2>1, <2>2 DEF InFlight, Queued
<1>4. Stamped'
  BY <1>1, <1>3 DEF OInv, Stamped, Handling
<1>5. InOrder'
  <2>1. /\ 1 \in 1..Len(rxq)
        /\ \A i \in 1..Len(rxq') : i + 1 \in 1..Len(rxq) /\ 1 < i + 1
    BY <1>2
  <2>2. QED
    BY <1>1, <1>2, <2>1 DEF OInv, InOrder, Older
<1>6. QED
  BY <1>4, <1>5 DEF OInv

\* What the parser has finished with is in flight no more.
LEMMA ReturnOInv ==
    ASSUME OInv, SInv', slot_return
    PROVE  OInv'
<1>1. /\ task'.slot = NoSlot /\ rxq' = rxq /\ packet' = packet /\ cb' = cb
      /\ arrivals' = arrivals
  BY DEF slot_return, Waiting
<1>2. \A s \in Slot : InFlight(s)' => InFlight(s)
  BY <1>1, PoolAssumption DEF InFlight, Queued
<1>3. Stamped'
  BY <1>1, <1>2 DEF OInv, Stamped, Handling
<1>4. InOrder'
  BY <1>1 DEF OInv, InOrder, Older
<1>5. QED
  BY <1>3, <1>4 DEF OInv

LEMMA NextOInv == OInv /\ [Next]_vars => OInv'
<1> SUFFICES ASSUME OInv, [Next]_vars PROVE OInv'
  OBVIOUS
<1>1. SInv'
  BY NextSInv DEF OInv
<1>2. /\ arrivals \in Nat /\ arrivals + 1 > arrivals /\ arrivals >= arrivals
      /\ task \in [at : {"waiting", "parsing", "releasing"}, slot : Slot \cup {NoSlot}]
      /\ cb \in CbType
  BY BoundAssumption DEF OInv, SInv, TypeOK, CbType
<1>3. ASSUME NEW f \in Frame, frame_arrives(f) PROVE OInv'
  BY <1>1, <1>2, <1>3, FlightUntouched DEF frame_arrives
<1>4. CASE \/ count_type \/ reject_state \/ slot_alloc \/ pool_empty
           \/ count_dropped \/ count_queued
  <2>1. UNCHANGED <<packet, rxq, task, arrivals>>
    BY <1>4 DEF count_type, reject_state, slot_alloc, pool_empty, count_dropped,
       count_queued
  <2>2. Handling' => Handling
    <3>1. CASE count_type \/ reject_state \/ slot_alloc \/ pool_empty
      BY <3>1 DEF count_type, reject_state, slot_alloc, pool_empty, Handling
    <3>2. CASE count_dropped \/ count_queued
      <4>1. cb' = Idle
        BY <3>2 DEF count_dropped, count_queued
      <4>2. QED
        BY <4>1 DEF Handling, Idle
    <3>3. QED
      BY <1>4, <3>1, <3>2
  <2>3. QED
    BY <1>1, <1>2, <2>1, <2>2, FlightUntouched
<1>5. CASE release_counted
  <2>1. UNCHANGED <<packet, rxq, cb, arrivals>> /\ task'.slot = task.slot
    BY <1>2, <1>5 DEF release_counted
  <2>2. QED
    BY <1>1, <1>2, <2>1, FlightUntouched DEF Handling
<1>6. CASE rx_push
  BY <1>1, <1>6, PushOInv
<1>7. CASE push_fails
  BY <1>1, <1>7, RefusedOInv
<1>8. CASE rx_take
  BY <1>1, <1>8, TakeOInv
<1>9. CASE slot_return
  BY <1>1, <1>9, ReturnOInv
<1>10. CASE UNCHANGED vars
  BY <1>1, <1>2, <1>10, FlightUntouched DEF vars, Handling
<1>11. QED
  BY <1>3, <1>4, <1>5, <1>6, <1>7, <1>8, <1>9, <1>10 DEF Next, Callback, Consumer, Done

\* The consumer parses the frames in the order of their reception, for every
\* pool and queue and every interleaving with the callback.
THEOREM FramesAlwaysInOrder == Spec => []FramesInOrder
<1>1. ASSUME OInv PROVE FramesInOrder
  <2> DEFINE held == IF task.slot = NoSlot THEN <<>> ELSE <<task.slot>>
             line == held \o rxq
  <2>1. rxq \in Seq(Slot) /\ Len(rxq) \in Nat /\ task.slot \in Slot \cup {NoSlot}
    BY <1>1, LenProperties DEF OInv, SInv, TypeOK
  <2>2. CASE task.slot = NoSlot
    <3>1. line = rxq
      BY <2>1, <2>2, ConcatEmptySeq
    <3>2. QED
      BY <3>1, <1>1 DEF FramesInOrder, OInv, InOrder, Older
  <2>3. CASE task.slot # NoSlot
    <3>1. held = <<task.slot>> /\ held \in Seq(Slot) /\ Len(held) = 1
      BY <2>1, <2>3
    <3>2. /\ Len(line) = 1 + Len(rxq)
          /\ \A i \in 1..(1 + Len(rxq)) :
                line[i] = IF i <= 1 THEN held[i] ELSE rxq[i - 1]
      BY <2>1, <3>1, ConcatProperties
    <3>3. line[1] = task.slot /\ \A i \in 2..(1 + Len(rxq)) : line[i] = rxq[i - 1]
      BY <2>1, <3>1, <3>2
    <3> HIDE DEF line
    <3>4. ASSUME NEW i \in 1..Len(line), NEW k \in 1..Len(line), i < k
          PROVE  packet[line[i]].seq < packet[line[k]].seq
      <4>1. k - 1 \in 1..Len(rxq) /\ line[k] = rxq[k - 1]
        BY <2>1, <3>2, <3>3, <3>4
      <4>2. CASE i = 1
        BY <4>1, <4>2, <3>3, <2>3, <1>1 DEF OInv, InOrder, Older
      <4>3. CASE i # 1
        <5>1. i - 1 \in 1..Len(rxq) /\ line[i] = rxq[i - 1] /\ i - 1 < k - 1
          BY <2>1, <3>2, <3>3, <3>4, <4>3
        <5>2. QED
          BY <4>1, <5>1, <1>1 DEF OInv, InOrder, Older
      <4>4. QED
        BY <4>2, <4>3
    <3>5. QED
      BY <3>4 DEF FramesInOrder, line
  <2>4. QED
    BY <2>2, <2>3
<1>2. QED
  BY InitOInv, NextOInv, <1>1, PTL DEF Spec

\* What rx_path_parse_length and rx_path_body_truncated tell the parser is
\* right for every frame length and every size of a slot.
THEOREM BodyAlwaysOnly == Spec => []BodyOnly
<1>1. ASSUME OInv, task.at = "parsing"
      PROVE  LET p == packet[task.slot]
                 body == p.orig_length - FCS
             IN /\ rx_path_parse_length(p) <= p.length
                /\ p.orig_length >= FCS =>
                     /\ rx_path_parse_length(p) <= body
                     /\ rx_path_body_truncated(p) <=> rx_path_parse_length(p) < body
  <2> DEFINE p == packet[task.slot]
  <2>1. task.slot \in Slot
    BY <1>1 DEF OInv, SInv, TypeOK
  <2>2. p \in Packet /\ p.length = Least(p.orig_length, MAX_LEN)
    BY <1>1, <2>1 DEF OInv, SInv, TypeOK, Stamped, InFlight
  <2> HIDE DEF p
  <2>3. p.length \in Nat /\ p.orig_length \in Nat
    BY <2>2 DEF Packet
  <2>4. /\ rx_path_parse_length(p) <= p.length
        /\ p.orig_length >= FCS =>
             /\ rx_path_parse_length(p) <= p.orig_length - FCS
             /\ rx_path_body_truncated(p) <=> rx_path_parse_length(p) < p.orig_length - FCS
    BY <2>2, <2>3, FrameAssumption DEF rx_path_parse_length, rx_path_body_truncated, Least, FCS
  <2>5. QED
    BY <2>4 DEF p
<1>2. OInv => BodyOnly
  BY <1>1 DEF BodyOnly
<1>3. QED
  BY InitOInv, NextOInv, <1>2, PTL DEF Spec

-----------------------------------------------------------------------------
(* Arithmetic of counters that wrap *)

LEMMA DivModFacts ==
    ASSUME NEW M \in Nat \ {0}, NEW a \in Int
    PROVE  /\ a % M \in 0..(M - 1) /\ a \div M \in Int
           /\ a = M * (a \div M) + (a % M)
  OBVIOUS

\* A multiple of M other than zero is not near zero.
LEMMA Below ==
    ASSUME NEW M \in Nat \ {0}, NEW k \in Int, k # 0, NEW d \in Int, d = M * k
    PROVE  d >= M \/ d <= -M
<1>1. CASE k >= 1
  <2>1. M * k >= M
    BY <1>1
  <2>2. QED
    BY <2>1
<1>2. CASE k <= -1
  <2>1. M * k <= -M
    BY <1>2
  <2>2. QED
    BY <2>1
<1>3. QED
  BY <1>1, <1>2

\* A remainder is known from any division that leaves it.
LEMMA ModUnique ==
    ASSUME NEW M \in Nat \ {0}, NEW a \in Int, NEW q \in Int, NEW r \in 0..(M - 1),
           a = M * q + r
    PROVE  a % M = r
<1> DEFINE q2 == a \div M
           r2 == a % M
<1>1. r2 \in 0..(M-1) /\ q2 \in Int /\ a = M * q2 + r2
  BY DivModFacts
<1> HIDE DEF q2, r2
<1>2. M * (q - q2) = r2 - r
  <2>1. M * (q - q2) = M * q - M * q2
    BY <1>1
  <2>2. M * q \in Int /\ M * q2 \in Int
    BY <1>1
  <2>3. QED
    BY <1>1, <2>1, <2>2
<1>3. q - q2 = 0
  <2>1. SUFFICES ASSUME q - q2 # 0 PROVE FALSE
    OBVIOUS
  <2>2. q - q2 \in Int
    BY <1>1
  <2>3. r2 - r >= M \/ r2 - r <= -M
    BY <1>1, <1>2, <2>1, <2>2, Below
  <2>4. QED
    BY <1>1, <2>3
<1>4. r2 = r
  BY <1>1, <1>2, <1>3
<1>5. QED
  BY <1>4 DEF r2

-----------------------------------------------------------------------------
(* The accounting identity *)

\* Both sides may wrap on the way: their difference moves by whole counters.
LEMMA SameSteps ==
    ASSUME NEW m \in Int, NEW n \in Int, NEW m2 \in Int, NEW n2 \in Int, Same(m, n),
           m2 - n2 \in {m - n, (m - n) + CounterMod, (m - n) - CounterMod}
    PROVE  Same(m2, n2)
<1> DEFINE M == CounterMod
           d == m - n
           d2 == m2 - n2
           q == d \div M
<1>0. M \in Nat \ {0} /\ d \in Int /\ d2 \in Int
  BY PoolFinite
<1>1. q \in Int /\ d = M * q + (d % M) /\ d % M = 0
  BY <1>0, DivModFacts DEF Same
<1>a. d2 \in {d, d + M, d - M}
  OBVIOUS
<1> HIDE DEF q, d, d2, M
<1>2. d2 = M * q + 0 \/ d2 = M * (q + 1) + 0 \/ d2 = M * (q - 1) + 0
  <2>1. M * (q + 1) = M * q + M /\ M * (q - 1) = M * q - M /\ M * q \in Int
    BY <1>0, <1>1
  <2>2. QED
    BY <1>0, <1>1, <1>a, <2>1
<1>3. 0 \in 0..(M - 1) /\ q + 1 \in Int /\ q - 1 \in Int
  BY <1>0, <1>1
<1>4. d2 % M = 0
  <2>1. ASSUME NEW k \in Int, d2 = M * k + 0 PROVE d2 % M = 0
    <3> DEFINE z == 0
    <3>1. z \in 0..(M - 1) /\ d2 = M * k + z
      BY <1>3, <2>1
    <3> HIDE DEF z
    <3>2. d2 % M = z
      BY <1>0, <2>1, <3>1, ModUnique
    <3>3. QED
      BY <3>2 DEF z
  <2>2. QED
    BY <1>1, <1>2, <1>3, <2>1
<1>5. QED
  BY <1>4 DEF d2, M, Same

LEMMA IncSteps ==
    ASSUME NEW n \in 0..(CounterMod - 1)
    PROVE  /\ Inc(n) \in {n + 1, n + 1 - CounterMod} /\ Inc(n) \in Int
           /\ Dec(n) \in {n - 1, n - 1 + CounterMod} /\ Dec(n) \in Int
BY PoolFinite DEF Inc, Dec

\* What the totals are held against, as functions of the counters and of the
\* callback's place: its frame is typed and settled last.
TypedSide(s, at) ==
    s["rx_management"] + s["rx_control"] + s["rx_data"] + s["rx_misc"]
      + IF at = "typing" THEN 1 ELSE 0
SettledSide(s, at) ==
    s["rx_state_errors"] + s["rx_misc"] + s["rx_dropped_pool"] + s["rx_dropped_queue"]
      + s["rx_queued"] + IF at = "idle" THEN 0 ELSE 1
QueuedSide(s) == s["rx_processed"] + s["queue_current"]

Books(s, at) == /\ Same(s["rx_total"], TypedSide(s, at))
                /\ Same(s["rx_total"], SettledSide(s, at))
                /\ Same(s["rx_queued"], QueuedSide(s))

LEMMA AccountedBooks ==
    (FramesAccounted <=> Books(stats, cb.at)) /\ (FramesAccounted' <=> Books(stats', cb'.at))
BY DEF FramesAccounted, Typed, Settled, Books, TypedSide, SettledSide, QueuedSide, Same

Counters == [CounterName -> 0..(CounterMod - 1)]

LEMMA SidesTyped ==
    ASSUME NEW s \in Counters, NEW at
    PROVE  /\ \A c \in CounterName : s[c] \in 0..(CounterMod - 1) /\ s[c] \in Int
           /\ TypedSide(s, at) \in Int /\ SettledSide(s, at) \in Int
           /\ QueuedSide(s) \in Int
<1>1. \A c \in CounterName : s[c] \in 0..(CounterMod - 1) /\ s[c] \in Int
  BY PoolFinite DEF Counters
<1>2. QED
  BY <1>1 DEF CounterName, TypedSide, SettledSide, QueuedSide

\* The difference of either side to its total moves by whole counters only.
Whole3 == {0, CounterMod, -CounterMod}

ByWholeCounters(s, at, s2, at2) ==
    /\ (s2["rx_total"] - TypedSide(s2, at2)) - (s["rx_total"] - TypedSide(s, at)) \in Whole3
    /\ (s2["rx_total"] - SettledSide(s2, at2)) - (s["rx_total"] - SettledSide(s, at))
          \in Whole3
    /\ (s2["rx_queued"] - QueuedSide(s2)) - (s["rx_queued"] - QueuedSide(s)) \in Whole3

LEMMA BooksKept ==
    ASSUME NEW s \in Counters, NEW at, NEW s2 \in Counters, NEW at2, Books(s, at),
           ByWholeCounters(s, at, s2, at2)
    PROVE  Books(s2, at2)
<1>1. ASSUME NEW m \in Int, NEW n \in Int, NEW m2 \in Int, NEW n2 \in Int, Same(m, n),
             (m2 - n2) - (m - n) \in Whole3
      PROVE  Same(m2, n2)
  BY <1>1, SameSteps, PoolFinite DEF Whole3
<1>2. /\ s["rx_total"] \in Int /\ s["rx_queued"] \in Int
      /\ s2["rx_total"] \in Int /\ s2["rx_queued"] \in Int
      /\ TypedSide(s, at) \in Int /\ SettledSide(s, at) \in Int /\ QueuedSide(s) \in Int
      /\ TypedSide(s2, at2) \in Int /\ SettledSide(s2, at2) \in Int
      /\ QueuedSide(s2) \in Int
  BY SidesTyped DEF CounterName
<1>3. QED
  BY <1>1, <1>2 DEF Books, ByWholeCounters

LEMMA NextBooks == SInv /\ SInv' /\ Books(stats, cb.at) /\ [Next]_vars => Books(stats', cb'.at)
<1> SUFFICES ASSUME SInv, SInv', Books(stats, cb.at), [Next]_vars
             PROVE  Books(stats', cb'.at)
  OBVIOUS
<1> DEFINE s == stats
           s2 == stats'
<1>0. /\ s \in Counters /\ s2 \in Counters /\ CounterMod \in Int
      /\ cb \in CbType
  BY PoolFinite DEF SInv, TypeOK, Counters, CbType
<1>1. /\ \A c \in CounterName : /\ s[c] \in Int /\ s2[c] \in Int
                                /\ Inc(s[c]) \in {s[c] + 1, s[c] + 1 - CounterMod}
                                /\ Dec(s[c]) \in {s[c] - 1, s[c] - 1 + CounterMod}
  BY <1>0, SidesTyped, IncSteps
<1>i. Idle.at = "idle"
  BY DEF Idle
<1>2. ASSUME NEW f \in Frame, frame_arrives(f) PROVE Books(s2, cb'.at)
  <2>1. /\ cb.at = "idle" /\ cb'.at = "typing"
        /\ \A c \in CounterName : s2[c] = IF c = "rx_total" THEN Inc(s[c]) ELSE s[c]
    BY <1>2 DEF frame_arrives, Bump
  <2> HIDE DEF s, s2
  <2>2. ByWholeCounters(s, cb.at, s2, cb'.at)
    BY <1>0, <1>1, <2>1 DEF ByWholeCounters, TypedSide, SettledSide, QueuedSide, Whole3,
                        CounterName
  <2>3. QED
    BY <1>0, <2>2, BooksKept DEF s, s2
<1>3. ASSUME count_type, cb.frame.type = "mgmt" PROVE Books(s2, cb'.at)
  <2>1. /\ cb.at = "typing" /\ cb'.at = "gate"
        /\ \A c \in CounterName : s2[c] = IF c = "rx_management" THEN Inc(s[c]) ELSE s[c]
    BY <1>0, <1>3 DEF count_type, Bump, TypeCounter, CbType
  <2> HIDE DEF s, s2
  <2>2. ByWholeCounters(s, cb.at, s2, cb'.at)
    BY <1>0, <1>1, <2>1 DEF ByWholeCounters, TypedSide, SettledSide, QueuedSide, Whole3,
                        CounterName
  <2>3. QED
    BY <1>0, <2>2, BooksKept DEF s, s2
<1>4. ASSUME count_type, cb.frame.type = "ctrl" PROVE Books(s2, cb'.at)
  <2>1. /\ cb.at = "typing" /\ cb'.at = "gate"
        /\ \A c \in CounterName : s2[c] = IF c = "rx_control" THEN Inc(s[c]) ELSE s[c]
    BY <1>0, <1>4 DEF count_type, Bump, TypeCounter, CbType
  <2> HIDE DEF s, s2
  <2>2. ByWholeCounters(s, cb.at, s2, cb'.at)
    BY <1>0, <1>1, <2>1 DEF ByWholeCounters, TypedSide, SettledSide, QueuedSide, Whole3,
                        CounterName
  <2>3. QED
    BY <1>0, <2>2, BooksKept DEF s, s2
<1>5. ASSUME count_type, cb.frame.type = "data" PROVE Books(s2, cb'.at)
  <2>1. /\ cb.at = "typing" /\ cb'.at = "gate"
        /\ \A c \in CounterName : s2[c] = IF c = "rx_data" THEN Inc(s[c]) ELSE s[c]
    BY <1>0, <1>5 DEF count_type, Bump, TypeCounter, CbType
  <2> HIDE DEF s, s2
  <2>2. ByWholeCounters(s, cb.at, s2, cb'.at)
    BY <1>0, <1>1, <2>1 DEF ByWholeCounters, TypedSide, SettledSide, QueuedSide, Whole3,
                        CounterName
  <2>3. QED
    BY <1>0, <2>2, BooksKept DEF s, s2
<1>6. ASSUME count_type, cb.frame.type = "misc" PROVE Books(s2, cb'.at)
  <2>1. /\ cb.at = "typing" /\ cb'.at = "idle"
        /\ \A c \in CounterName : s2[c] = IF c = "rx_misc" THEN Inc(s[c]) ELSE s[c]
    BY <1>0, <1>i, <1>6 DEF count_type, Bump, TypeCounter, CbType
  <2> HIDE DEF s, s2
  <2>2. ByWholeCounters(s, cb.at, s2, cb'.at)
    BY <1>0, <1>1, <2>1 DEF ByWholeCounters, TypedSide, SettledSide, QueuedSide, Whole3,
                        CounterName
  <2>3. QED
    BY <1>0, <2>2, BooksKept DEF s, s2
<1>7. ASSUME reject_state PROVE Books(s2, cb'.at)
  <2>1. /\ cb.at = "gate" /\ cb'.at = "idle"
        /\ \A c \in CounterName : s2[c] = IF c = "rx_state_errors" THEN Inc(s[c]) ELSE s[c]
    BY <1>i, <1>7 DEF reject_state, Bump
  <2> HIDE DEF s, s2
  <2>2. ByWholeCounters(s, cb.at, s2, cb'.at)
    BY <1>0, <1>1, <2>1 DEF ByWholeCounters, TypedSide, SettledSide, QueuedSide, Whole3,
                        CounterName
  <2>3. QED
    BY <1>0, <2>2, BooksKept DEF s, s2
<1>8. ASSUME pool_empty PROVE Books(s2, cb'.at)
  <2>1. /\ cb.at = "gate" /\ cb'.at = "idle"
        /\ \A c \in CounterName : s2[c] = IF c = "rx_dropped_pool" THEN Inc(s[c]) ELSE s[c]
    BY <1>i, <1>8 DEF pool_empty, Bump
  <2> HIDE DEF s, s2
  <2>2. ByWholeCounters(s, cb.at, s2, cb'.at)
    BY <1>0, <1>1, <2>1 DEF ByWholeCounters, TypedSide, SettledSide, QueuedSide, Whole3,
                        CounterName
  <2>3. QED
    BY <1>0, <2>2, BooksKept DEF s, s2
<1>9. ASSUME count_dropped PROVE Books(s2, cb'.at)
  <2>1. /\ cb.at = "dropping" /\ cb'.at = "idle"
        /\ \A c \in CounterName : s2[c] = IF c = "rx_dropped_queue" THEN Inc(s[c]) ELSE s[c]
    BY <1>i, <1>9 DEF count_dropped, Bump
  <2> HIDE DEF s, s2
  <2>2. ByWholeCounters(s, cb.at, s2, cb'.at)
    BY <1>0, <1>1, <2>1 DEF ByWholeCounters, TypedSide, SettledSide, QueuedSide, Whole3,
                        CounterName
  <2>3. QED
    BY <1>0, <2>2, BooksKept DEF s, s2
<1>10. ASSUME count_queued PROVE Books(s2, cb'.at)
  <2>1. /\ cb.at = "counting" /\ cb'.at = "idle"
        /\ \A c \in CounterName \ {"queue_peak", "rx_truncated", "rx_no_payload"} :
              s2[c] = IF c \in {"rx_queued", "queue_current"} THEN Inc(s[c]) ELSE s[c]
    BY <1>i, <1>10 DEF count_queued, Bump
  <2> HIDE DEF s, s2
  <2>2. ByWholeCounters(s, cb.at, s2, cb'.at)
    BY <1>0, <1>1, <2>1 DEF ByWholeCounters, TypedSide, SettledSide, QueuedSide, Whole3,
                        CounterName
  <2>3. QED
    BY <1>0, <2>2, BooksKept DEF s, s2
<1>11. ASSUME release_counted PROVE Books(s2, cb'.at)
  <2>1. /\ cb'.at = cb.at
        /\ \A c \in CounterName :
              s2[c] = IF c = "rx_processed" THEN Inc(s[c])
                      ELSE IF c = "queue_current" THEN Dec(s[c]) ELSE s[c]
    BY <1>11 DEF release_counted, Bump, CounterName
  <2> HIDE DEF s, s2
  <2>2. ByWholeCounters(s, cb.at, s2, cb'.at)
    BY <1>0, <1>1, <2>1 DEF ByWholeCounters, TypedSide, SettledSide, QueuedSide, Whole3,
                        CounterName
  <2>3. QED
    BY <1>0, <2>2, BooksKept DEF s, s2
<1>12. ASSUME s2 = s, cb'.at = "typing" <=> cb.at = "typing", cb'.at = "idle" <=> cb.at = "idle"
       PROVE Books(s2, cb'.at)
  BY <1>12 DEF Books, TypedSide, SettledSide, QueuedSide
<1>13. CASE slot_alloc \/ rx_push \/ push_fails
  <2>1. CASE slot_alloc
    BY <1>12, <2>1 DEF slot_alloc
  <2>2. CASE rx_push
    BY <1>12, <2>2 DEF rx_push
  <2>3. CASE push_fails
    BY <1>12, <2>3 DEF push_fails
  <2>4. QED
    BY <1>13, <2>1, <2>2, <2>3
<1>14. CASE rx_take \/ slot_return \/ UNCHANGED vars
  BY <1>12, <1>14 DEF rx_take, slot_return, vars
<1>15. CASE count_type
  <2>1. cb.frame.type \in FrameType
    BY <1>0, FrameAssumption DEF CbType, Idle, FrameType
  <2>2. QED
    BY <1>3, <1>4, <1>5, <1>6, <1>15, <2>1 DEF FrameType
<1>16. QED
  BY <1>2, <1>7, <1>8, <1>9, <1>10, <1>11, <1>13, <1>14, <1>15
  DEF Next, Callback, Consumer, Done

\* Every frame the driver delivered is counted under one type and has exactly
\* one outcome, the one in the callback's hands excepted, and what was queued
\* is processed or waiting, although every counter wraps at its width and
\* driver and consumer interleave at will.
THEOREM FramesAlwaysAccounted == Spec => []FramesAccounted
<1>1. Init => Books(stats, cb.at)
  <2>1. ASSUME Init PROVE Books(stats, cb.at)
    <3>1. /\ \A c \in CounterName : stats[c] = 0
          /\ cb.at = "idle"
      BY <2>1 DEF Init, Idle
    <3>2. /\ stats["rx_total"] = 0 /\ stats["rx_queued"] = 0
          /\ TypedSide(stats, cb.at) = 0 /\ SettledSide(stats, cb.at) = 0
          /\ QueuedSide(stats) = 0
      BY <3>1 DEF TypedSide, SettledSide, QueuedSide, CounterName
    <3>3. 0 % CounterMod = 0 /\ 0 - 0 = 0
      BY PoolFinite
    <3>4. QED
      BY <3>2, <3>3 DEF Books, Same
  <2>2. QED
    BY <2>1
<1>2. SInv /\ SInv' /\ FramesAccounted /\ [Next]_vars => FramesAccounted'
  BY NextBooks, AccountedBooks
<1>3. Init => FramesAccounted
  BY <1>1, AccountedBooks
<1>4. QED
  BY InitSInv, NextSInv, <1>2, <1>3, PTL DEF Spec

-----------------------------------------------------------------------------
(***************************************************************************)
(* RxTask.                                                                 *)
(***************************************************************************)

\* Places at which a frame is between the first counter and its release.
Counting == rx.at \notin {"receive", "count"}
One(P)   == IF P THEN 1 ELSE 0
Waits(k) == One(rx.at = "feed" /\ Feed(rx.frame) = k)

\* The counters of one class add up to its total, at any time.
ClassesAddUp(s) ==
    /\ s["parser_errors"] = s["invalid_frames"]
    /\ s["mgmt_total"] = MgmtSum(s)
    /\ s["ctrl_total"] = CtrlSum(s)
    /\ s["data_total"] = DataSum(s)
    /\ s["ap_obs_skipped"] <= s["ie_incomplete"]

\* How far the counters are at the place of the task.
Progress ==
    /\ s_stats["parser_total"] =
          s_stats["parser_errors"] + TypeSum(s_stats) + One(rx.at = "counting")
    /\ s_stats["parser_total"] = s_stats["rx_processed"] + One(Counting)
    /\ s_stats["beacon_count"] + s_stats["probe_resp_count"] =
          ApParsed(s_stats) + s_stats["beacon_parse_errors"]
             + One(rx.at = "handle" /\ IsApObs(rx.frame))
    /\ s_stats["probe_req_count"] =
          s_stats["probe_req_parsed"] + s_stats["probe_req_errors"]
             + One(rx.at = "handle" /\ IsProbe(rx.frame))

Requests(s) == s["auth_count"] + s["assoc_req_count"] + s["reassoc_req_count"]

\* What the world was given, as far as the counters are.
Fed ==
    /\ world["ap"] + missed["ap"] + Waits("ap") = ApParsed(s_stats)
    /\ world["probe"] + missed["probe"] + Waits("probe") = s_stats["probe_req_parsed"]
    /\ world["request"] + missed["request"] + Waits("request") <= Requests(s_stats)
    /\ world["data"] + missed["data"] + Waits("data") <= s_stats["data_total"]

\* The frame in hand is of a kind its place is for.
KindOfPlace ==
    /\ rx.at = "handle" => IsApObs(rx.frame) \/ IsProbe(rx.frame)
    /\ rx.at = "feed" => \/ IsApObs(rx.frame) \/ IsProbe(rx.frame)
                         \/ IsRequest(rx.frame) \/ IsData(rx.frame)

NotAhead(s, t) == \A c \in Counter : s[c] <= t[c]

\* A copy of the counters that was taken as a whole and not before the
\* report it is compared with.
Taken(s) == AddsUp(s) /\ BehindByOne(s) /\ NotAhead(s, s_stats)

Copied ==
    \A r \in Reader :
        /\ Taken(report[r].stats)
        /\ report[r].timed_out \/ WorldNotBehind(report[r].stats, report[r].world)
        /\ report[r].timed_out \/ report[r].shown = report[r].world
        /\ \A f \in Tally : report[r].shown[f] <= world[f]
        /\ reader[r].at = "world" =>
             Taken(reader[r].stats) /\ NotAhead(report[r].stats, reader[r].stats)

RInv == RxTypeOK /\ ClassesAddUp(s_stats) /\ Progress /\ Fed /\ KindOfPlace /\ Copied

-----------------------------------------------------------------------------
(* Counting *)

USE DEF MGMT, CTRL, DATA, EXT

LEMMA MgmtNames ==
    /\ mgmt_counter[1] = "assoc_req_count" /\ mgmt_counter[2] = "assoc_resp_count"
    /\ mgmt_counter[3] = "reassoc_req_count" /\ mgmt_counter[4] = "reassoc_resp_count"
    /\ mgmt_counter[5] = "probe_req_count" /\ mgmt_counter[6] = "probe_resp_count"
    /\ mgmt_counter[7] = "mgmt_other_count" /\ mgmt_counter[8] = "mgmt_other_count"
    /\ mgmt_counter[9] = "beacon_count" /\ mgmt_counter[10] = "atim_count"
    /\ mgmt_counter[11] = "disassoc_count" /\ mgmt_counter[12] = "auth_count"
    /\ mgmt_counter[13] = "deauth_count" /\ mgmt_counter[14] = "action_count"
    /\ mgmt_counter[15] = "mgmt_other_count" /\ mgmt_counter[16] = "mgmt_other_count"
  BY DEF mgmt_counter

MgmtName == {"assoc_req_count", "assoc_resp_count", "reassoc_req_count",
    "reassoc_resp_count", "probe_req_count", "probe_resp_count", "beacon_count",
    "atim_count", "disassoc_count", "auth_count", "deauth_count", "action_count",
    "mgmt_other_count"}
CtrlName == {"bar_count", "ba_count", "rts_count", "cts_count", "ack_count",
    "ctrl_other_count"}
DataName == {"fc_data_count", "null_count", "qos_data_count", "qos_null_count",
    "data_other_count"}
OtherName == {"parser_total", "invalid_frames", "fc_type_mismatch", "rx_processed",
    "beacon_parsed", "probe_resp_parsed", "beacon_parse_errors",
    "probe_req_parsed", "probe_req_errors", "ie_incomplete", "ap_obs_skipped"}

LEMMA NamesCount == MgmtName \cup CtrlName \cup DataName \cup Totals \cup OtherName \subseteq Counter
<1>1. MgmtName \subseteq MgmtCounters
  <2>1. /\ mgmt_counter[1] \in MgmtCounters /\ mgmt_counter[2] \in MgmtCounters
        /\ mgmt_counter[3] \in MgmtCounters /\ mgmt_counter[4] \in MgmtCounters
        /\ mgmt_counter[5] \in MgmtCounters /\ mgmt_counter[6] \in MgmtCounters
        /\ mgmt_counter[7] \in MgmtCounters /\ mgmt_counter[9] \in MgmtCounters
        /\ mgmt_counter[10] \in MgmtCounters /\ mgmt_counter[11] \in MgmtCounters
        /\ mgmt_counter[12] \in MgmtCounters /\ mgmt_counter[13] \in MgmtCounters
        /\ mgmt_counter[14] \in MgmtCounters
    BY DEF MgmtCounters
  <2> QED BY <2>1, MgmtNames DEF MgmtName
<1>2. CtrlName \subseteq CtrlCounters
  <2>1. /\ ctrl_counter(8) \in CtrlCounters /\ ctrl_counter(9) \in CtrlCounters
        /\ ctrl_counter(11) \in CtrlCounters /\ ctrl_counter(12) \in CtrlCounters
        /\ ctrl_counter(13) \in CtrlCounters /\ ctrl_counter(0) \in CtrlCounters
    BY DEF CtrlCounters
  <2>2. /\ ctrl_counter(8) = "bar_count" /\ ctrl_counter(9) = "ba_count"
        /\ ctrl_counter(11) = "rts_count" /\ ctrl_counter(12) = "cts_count"
        /\ ctrl_counter(13) = "ack_count" /\ ctrl_counter(0) = "ctrl_other_count"
    BY DEF ctrl_counter
  <2> QED BY <2>1, <2>2 DEF CtrlName
<1>3. DataName \subseteq DataCounters
  <2>1. /\ data_counter(0) \in DataCounters /\ data_counter(4) \in DataCounters
        /\ data_counter(8) \in DataCounters /\ data_counter(12) \in DataCounters
        /\ data_counter(15) \in DataCounters
    BY DEF DataCounters
  <2>2. /\ data_counter(0) = "fc_data_count" /\ data_counter(4) = "null_count"
        /\ data_counter(8) = "qos_data_count" /\ data_counter(12) = "qos_null_count"
        /\ data_counter(15) = "data_other_count"
    BY DEF data_counter
  <2> QED BY <2>1, <2>2 DEF DataName
<1> QED BY <1>1, <1>2, <1>3 DEF Counter, OtherName

USE DEF MgmtName, CtrlName, DataName, Totals, OtherName

LEMMA CountAdds ==
    ASSUME s_stats \in [Counter -> Nat], NEW S, Count(S)
    PROVE  /\ s_stats' \in [Counter -> Nat]
           /\ \A c \in Counter : s_stats'[c] = s_stats[c] + One(c \in S)
  BY DEF Count, One

\* What a set of counters adds to the sums.
Adds(S) == [c \in Counter |-> One(c \in S)]

LEMMA SumsAdd ==
    ASSUME s_stats \in [Counter -> Nat], NEW S, Count(S)
    PROVE  /\ MgmtSum(s_stats') = MgmtSum(s_stats) + MgmtSum(Adds(S))
           /\ CtrlSum(s_stats') = CtrlSum(s_stats) + CtrlSum(Adds(S))
           /\ DataSum(s_stats') = DataSum(s_stats) + DataSum(Adds(S))
           /\ TypeSum(s_stats') = TypeSum(s_stats) + TypeSum(Adds(S))
           /\ ApParsed(s_stats') = ApParsed(s_stats) + ApParsed(Adds(S))
           /\ Requests(s_stats') = Requests(s_stats) + Requests(Adds(S))
<1> DEFINE g == Adds(S)
<1>1. \A c \in Counter : /\ s_stats[c] \in Nat /\ g[c] \in {0, 1}
                         /\ s_stats'[c] = s_stats[c] + g[c]
  BY CountAdds DEF Adds, One
<1> HIDE DEF g
<1>2. MgmtSum(s_stats') = MgmtSum(s_stats) + MgmtSum(g)
  BY SMTT(30), <1>1, NamesCount DEF MgmtSum
<1>3. CtrlSum(s_stats') = CtrlSum(s_stats) + CtrlSum(g)
  BY <1>1, NamesCount DEF CtrlSum
<1>4. DataSum(s_stats') = DataSum(s_stats) + DataSum(g)
  BY <1>1, NamesCount DEF DataSum
<1>5. TypeSum(s_stats') = TypeSum(s_stats) + TypeSum(g)
  BY <1>1, NamesCount DEF TypeSum
<1>6. ApParsed(s_stats') = ApParsed(s_stats) + ApParsed(g)
  BY <1>1, NamesCount DEF ApParsed
<1>7. Requests(s_stats') = Requests(s_stats) + Requests(g)
  BY <1>1, NamesCount DEF Requests
<1> QED BY <1>2, <1>3, <1>4, <1>5, <1>6, <1>7 DEF g

\* The subtype of a management, control or data frame has one counter.
LEMMA OneOfClass ==
    ASSUME NEW n \in 0..15
    PROVE  /\ MgmtSum(Adds({mgmt_counter[n + 1]})) = 1
           /\ mgmt_counter[n + 1] \in MgmtName
           /\ mgmt_counter[n + 1] \in {"beacon_count", "probe_resp_count"} <=> n \in {5, 8}
           /\ mgmt_counter[n + 1] = "probe_req_count" <=> n = 4
           /\ mgmt_counter[n + 1] \in {"auth_count", "assoc_req_count", "reassoc_req_count"}
                <=> n \in {0, 2, 11}
           /\ ctrl_counter(n) \in CtrlName /\ data_counter(n) \in DataName
<1>1. /\ mgmt_counter[n + 1] \in MgmtName
      /\ mgmt_counter[n + 1] \in {"beacon_count", "probe_resp_count"} <=> n \in {5, 8}
      /\ mgmt_counter[n + 1] = "probe_req_count" <=> n = 4
      /\ mgmt_counter[n + 1] \in {"auth_count", "assoc_req_count", "reassoc_req_count"}
                <=> n \in {0, 2, 11}
  BY MgmtNames
<1>2. ctrl_counter(n) \in CtrlName
  BY DEF ctrl_counter
<1>3. data_counter(n) \in DataName
  BY DEF data_counter
<1>4. ASSUME NEW c \in MgmtName PROVE MgmtSum(Adds({c})) = 1
  <2>1. \A x \in MgmtName : Adds({c})[x] = IF x = c THEN 1 ELSE 0
    BY NamesCount DEF Adds, One
  <2> QED BY <2>1 DEF MgmtSum
<1> QED BY <1>1, <1>2, <1>3, <1>4

\* What counting a frame adds: one to the frames of its type and, within the
\* type, to those of its subtype.
Classifies(f, g) ==
    /\ g["parser_errors"] = g["invalid_frames"]
    /\ g["parser_errors"] + TypeSum(g) = 1
    /\ g["mgmt_total"] = MgmtSum(g)
    /\ g["ctrl_total"] = CtrlSum(g)
    /\ g["data_total"] = DataSum(g)
    /\ g["data_total"] \in Nat /\ Requests(g) \in Nat
    /\ g["beacon_count"] + g["probe_resp_count"] = One(IsApObs(f))
    /\ g["probe_req_count"] = One(IsProbe(f))
    /\ IsRequest(f) => Requests(g) = 1
    /\ IsData(f) => g["data_total"] = 1
    /\ ApParsed(g) = 0
    /\ \A c \in OtherName \ {"invalid_frames", "fc_type_mismatch"} : g[c] = 0

LEMMA FrameClassified ==
    ASSUME NEW f \in AnyFrame PROVE Classifies(f, Adds(CountersOf(f)))
<1> DEFINE S == CountersOf(f)
           g == Adds(S)
           n == f.subtype
<1>0. f.valid \in BOOLEAN /\ f.type \in {0, 1, 2, 3} /\ n \in 0..15
  BY DEF AnyFrame
<1>1. \A c \in MgmtName \cup CtrlName \cup DataName \cup Totals \cup OtherName :
         g[c] = IF c \in S THEN 1 ELSE 0
  BY NamesCount DEF Adds, One
<1>2. ASSUME NEW M, f.valid, S \subseteq {"fc_type_mismatch"} \cup M, M \subseteq S
      PROVE  \A c \in MgmtName \cup CtrlName \cup DataName \cup Totals \cup OtherName :
               c # "fc_type_mismatch" => g[c] = IF c \in M THEN 1 ELSE 0
  BY <1>1, <1>2
<1> HIDE DEF g
<1>3. CASE ~f.valid
  <2>1. S = {"parser_errors", "invalid_frames"}
    BY <1>3 DEF CountersOf
  <2> HIDE DEF S
  <2>2. \A c \in MgmtName \cup CtrlName \cup DataName \cup Totals \cup OtherName :
         g[c] = IF c \in {"parser_errors", "invalid_frames"} THEN 1 ELSE 0
    BY <1>1, <2>1
  <2>3. Classifies(f, g)
    BY SMTT(30), <1>3, <2>2 DEF Classifies, TypeSum, MgmtSum, CtrlSum, DataSum, Requests, ApParsed,
       One, IsApObs, IsProbe, IsRequest, IsData, Mgmt
  <2> QED BY <2>3 DEF g, S
<1>4. CASE f.valid /\ f.type = MGMT
  <2> DEFINE m == mgmt_counter[n + 1]
  <2>1. S \subseteq {"fc_type_mismatch"} \cup {"mgmt_total", m} /\ {"mgmt_total", m} \subseteq S
    BY <1>4 DEF CountersOf
  <2>2. \A c \in MgmtName \cup CtrlName \cup DataName \cup Totals \cup OtherName :
         c # "fc_type_mismatch" => g[c] = IF c \in {"mgmt_total", m} THEN 1 ELSE 0
    BY <1>2, <1>4, <2>1
  <2>3. /\ m \in MgmtName
        /\ m \in {"beacon_count", "probe_resp_count"} <=> n \in {5, 8}
        /\ m = "probe_req_count" <=> n = 4
        /\ m \in {"auth_count", "assoc_req_count", "reassoc_req_count"} <=> n \in {0, 2, 11}
    BY <1>0, OneOfClass
  <2> HIDE DEF S, m
  <2>4. /\ g["mgmt_total"] = 1 /\ g["parser_errors"] = 0 /\ g["ctrl_total"] = 0
        /\ g["data_total"] = 0 /\ g["ext_total"] = 0 /\ g["invalid_frames"] = 0
        /\ \A c \in CtrlName \cup DataName : g[c] = 0
        /\ \A c \in OtherName \ {"fc_type_mismatch"} : g[c] = 0
        /\ \A c \in MgmtName : g[c] = IF c = m THEN 1 ELSE 0
    BY <2>2, <2>3
  <2>5. MgmtSum(g) = 1 /\ CtrlSum(g) = 0 /\ DataSum(g) = 0 /\ TypeSum(g) = 1 /\ ApParsed(g) = 0
    BY <2>3, <2>4 DEF MgmtSum, CtrlSum, DataSum, TypeSum, ApParsed
  <2>6. Requests(g) = IF n \in {0, 2, 11} THEN 1 ELSE 0
    BY <2>3, <2>4 DEF Requests
  <2>7. /\ g["beacon_count"] + g["probe_resp_count"] = IF n \in {5, 8} THEN 1 ELSE 0
        /\ g["probe_req_count"] = IF n = 4 THEN 1 ELSE 0
    BY <2>3, <2>4
  <2>8. /\ IsApObs(f) <=> n \in {5, 8}
        /\ IsProbe(f) <=> n = 4
        /\ IsRequest(f) <=> n \in {0, 2, 11}
        /\ ~IsData(f)
    BY <1>4 DEF IsApObs, IsProbe, IsRequest, IsData, Mgmt
  <2>9. Classifies(f, g)
    BY <2>4, <2>5, <2>6, <2>7, <2>8 DEF Classifies, One
  <2> QED BY <2>9 DEF g, S
<1>5. CASE f.valid /\ f.type = CTRL
  <2> DEFINE m == ctrl_counter(n)
  <2>1. S \subseteq {"fc_type_mismatch"} \cup {"ctrl_total", m} /\ {"ctrl_total", m} \subseteq S
    BY <1>5 DEF CountersOf
  <2>2. \A c \in MgmtName \cup CtrlName \cup DataName \cup Totals \cup OtherName :
         c # "fc_type_mismatch" => g[c] = IF c \in {"ctrl_total", m} THEN 1 ELSE 0
    BY <1>2, <1>5, <2>1
  <2>3. m \in CtrlName
    BY <1>0, OneOfClass
  <2> HIDE DEF S, m
  <2>4. /\ g["mgmt_total"] = 0 /\ g["parser_errors"] = 0 /\ g["ctrl_total"] = 1
        /\ g["data_total"] = 0 /\ g["ext_total"] = 0 /\ g["invalid_frames"] = 0
        /\ \A c \in MgmtName \cup DataName : g[c] = 0
        /\ \A c \in OtherName \ {"fc_type_mismatch"} : g[c] = 0
        /\ \A c \in CtrlName : g[c] = IF c = m THEN 1 ELSE 0
    BY <2>2, <2>3
  <2>5. /\ MgmtSum(g) = 0 /\ CtrlSum(g) = 1 /\ DataSum(g) = 0 /\ TypeSum(g) = 1
        /\ ApParsed(g) = 0 /\ Requests(g) = 0
    BY <2>3, <2>4 DEF MgmtSum, CtrlSum, DataSum, TypeSum, ApParsed, Requests
  <2>6. ~IsApObs(f) /\ ~IsProbe(f) /\ ~IsRequest(f) /\ ~IsData(f)
    BY <1>5 DEF IsApObs, IsProbe, IsRequest, IsData, Mgmt
  <2>7. Classifies(f, g)
    BY <2>4, <2>5, <2>6 DEF Classifies, One
  <2> QED BY <2>7 DEF g, S
<1>6. CASE f.valid /\ f.type = DATA
  <2> DEFINE m == data_counter(n)
  <2>1. S \subseteq {"fc_type_mismatch"} \cup {"data_total", m} /\ {"data_total", m} \subseteq S
    BY <1>6 DEF CountersOf
  <2>2. \A c \in MgmtName \cup CtrlName \cup DataName \cup Totals \cup OtherName :
         c # "fc_type_mismatch" => g[c] = IF c \in {"data_total", m} THEN 1 ELSE 0
    BY <1>2, <1>6, <2>1
  <2>3. m \in DataName
    BY <1>0, OneOfClass
  <2> HIDE DEF S, m
  <2>4. /\ g["mgmt_total"] = 0 /\ g["parser_errors"] = 0 /\ g["ctrl_total"] = 0
        /\ g["data_total"] = 1 /\ g["ext_total"] = 0 /\ g["invalid_frames"] = 0
        /\ \A c \in MgmtName \cup CtrlName : g[c] = 0
        /\ \A c \in OtherName \ {"fc_type_mismatch"} : g[c] = 0
        /\ \A c \in DataName : g[c] = IF c = m THEN 1 ELSE 0
    BY <2>2, <2>3
  <2>5. /\ MgmtSum(g) = 0 /\ CtrlSum(g) = 0 /\ DataSum(g) = 1 /\ TypeSum(g) = 1
        /\ ApParsed(g) = 0 /\ Requests(g) = 0
    BY <2>3, <2>4 DEF MgmtSum, CtrlSum, DataSum, TypeSum, ApParsed, Requests
  <2>6. ~IsApObs(f) /\ ~IsProbe(f) /\ ~IsRequest(f)
    BY <1>6 DEF IsApObs, IsProbe, IsRequest, Mgmt
  <2>7. Classifies(f, g)
    BY <2>4, <2>5, <2>6 DEF Classifies, One
  <2> QED BY <2>7 DEF g, S
<1>7. CASE f.valid /\ f.type = EXT
  <2>1. S \subseteq {"fc_type_mismatch"} \cup {"ext_total"} /\ {"ext_total"} \subseteq S
    BY <1>7 DEF CountersOf
  <2>2. \A c \in MgmtName \cup CtrlName \cup DataName \cup Totals \cup OtherName :
         c # "fc_type_mismatch" => g[c] = IF c \in {"ext_total"} THEN 1 ELSE 0
    BY <1>2, <1>7, <2>1
  <2> HIDE DEF S
  <2>3. ~IsApObs(f) /\ ~IsProbe(f) /\ ~IsRequest(f) /\ ~IsData(f)
    BY <1>7 DEF IsApObs, IsProbe, IsRequest, IsData, Mgmt
  <2>4. Classifies(f, g)
    BY <2>2, <2>3 DEF Classifies, TypeSum, MgmtSum, CtrlSum, DataSum, Requests, ApParsed, One
  <2> QED BY <2>4 DEF g, S
<1> QED BY <1>0, <1>3, <1>4, <1>5, <1>6, <1>7

\* Counters that say nothing of a frame's class leave the classes alone.
LEMMA ClassesLeft ==
    ASSUME s_stats \in [Counter -> Nat], NEW S, Count(S),
           S \cap (MgmtName \cup CtrlName \cup DataName \cup Totals \cup {"invalid_frames"}) = {}
    PROVE  /\ MgmtSum(s_stats') = MgmtSum(s_stats) /\ CtrlSum(s_stats') = CtrlSum(s_stats)
           /\ DataSum(s_stats') = DataSum(s_stats) /\ TypeSum(s_stats') = TypeSum(s_stats)
           /\ Requests(s_stats') = Requests(s_stats)
           /\ \A c \in MgmtName \cup CtrlName \cup DataName \cup Totals \cup {"invalid_frames"} :
                s_stats'[c] = s_stats[c]
<1>1. \A c \in MgmtName \cup CtrlName \cup DataName \cup Totals \cup {"invalid_frames"} :
        /\ s_stats[c] \in Nat
        /\ s_stats'[c] = s_stats[c]
  BY NamesCount, CountAdds DEF One
<1>2. MgmtSum(s_stats') = MgmtSum(s_stats) /\ CtrlSum(s_stats') = CtrlSum(s_stats)
  BY <1>1 DEF MgmtSum, CtrlSum
<1>3. DataSum(s_stats') = DataSum(s_stats) /\ TypeSum(s_stats') = TypeSum(s_stats)
      /\ Requests(s_stats') = Requests(s_stats)
  BY <1>1 DEF DataSum, TypeSum, Requests
<1> QED BY <1>1, <1>2, <1>3

-----------------------------------------------------------------------------
(* The task keeps the invariant *)

Place == {"receive", "count", "counting", "handle", "feed", "release"}

LEMMA RxTyped ==
    ASSUME RxTypeOK
    PROVE  /\ rx.at \in Place /\ rx.frame \in AnyFrame /\ rx.frame \in Frames \cup {NoFrame}
           /\ rx = [at |-> rx.at, frame |-> rx.frame]
           /\ s_stats \in [Counter -> Nat]
           /\ world \in [Tally -> Nat] /\ missed \in [Feeds -> Nat]
           /\ \A k \in Tally : world[k] \in Nat
           /\ \A k \in Feeds : world[k] \in Nat /\ missed[k] \in Nat
           /\ \A c \in Counter : s_stats[c] \in Nat
           /\ Requests(s_stats) \in Nat /\ ApParsed(s_stats) \in Nat
<1>1. NoFrame \in AnyFrame
  BY DEF NoFrame, AnyFrame, Parse
<1>2. \A c \in Counter : s_stats[c] \in Nat
  BY DEF RxTypeOK
<1>3. Requests(s_stats) \in Nat /\ ApParsed(s_stats) \in Nat
  BY <1>2, NamesCount DEF Requests, ApParsed
<1>4. \A k \in Tally : world[k] \in Nat
  BY DEF RxTypeOK
<1>5. \A k \in Feeds : world[k] \in Nat /\ missed[k] \in Nat
  BY <1>4 DEF RxTypeOK, Tally
<1> QED BY <1>1, <1>2, <1>3, <1>4, <1>5, FramesAssumption DEF RxTypeOK, Place

\* Copies stay good while counters only grow.
LEMMA CopiesStay ==
    ASSUME RInv, s_stats' \in [Counter -> Nat], NotAhead(s_stats, s_stats'),
           world' \in [Tally -> Nat], missed' \in [Feeds -> Nat],
           \A k \in Tally : world[k] <= world'[k],
           \A k \in Feeds : missed[k] <= missed'[k],
           UNCHANGED <<reader, report>>
    PROVE  Copied'
<1>1. RxTypeOK /\ Copied
  BY DEF RInv
<1>2. ASSUME NEW s \in [Counter -> Nat], NotAhead(s, s_stats) PROVE NotAhead(s, s_stats')
  <2>1. ASSUME NEW c \in Counter PROVE s[c] <= s_stats'[c]
    <3>1. s[c] \in Nat /\ s_stats[c] \in Nat /\ s_stats'[c] \in Nat
      BY <1>1, RxTyped
    <3>2. s[c] <= s_stats[c] /\ s_stats[c] <= s_stats'[c]
      BY <1>2 DEF NotAhead
    <3> QED BY <3>1, <3>2
  <2> QED BY <2>1 DEF NotAhead
<1>3. ASSUME NEW s \in [Counter -> Nat], Taken(s)
      PROVE  AddsUp(s) /\ BehindByOne(s) /\ NotAhead(s, s_stats')
  BY <1>2, <1>3 DEF Taken
<1>4. ASSUME NEW r \in Reader
      PROVE  /\ report[r].stats \in [Counter -> Nat] /\ reader[r].stats \in [Counter -> Nat]
             /\ report[r].world \in [Tally -> Nat] /\ report[r].shown \in [Tally -> Nat]
  BY <1>1 DEF RxTypeOK
<1>5. ASSUME NEW s \in [Counter -> Nat], NEW w \in [Tally -> Nat], WorldNotBehind(s, w)
      PROVE  /\ ApParsed(s) <= w["ap"] + missed'["ap"] + 1
             /\ s["probe_req_parsed"] <= w["probe"] + missed'["probe"] + 1
  <2>1. /\ ApParsed(s) \in Nat /\ s["probe_req_parsed"] \in Nat
        /\ w["ap"] \in Nat /\ w["probe"] \in Nat
        /\ missed["ap"] \in Nat /\ missed["probe"] \in Nat
        /\ missed'["ap"] \in Nat /\ missed'["probe"] \in Nat
        /\ missed["ap"] <= missed'["ap"] /\ missed["probe"] <= missed'["probe"]
    BY <1>1, RxTyped, NamesCount DEF ApParsed, Feeds, Tally
  <2> QED BY <1>5, <2>1 DEF WorldNotBehind
<1>6. ASSUME NEW r \in Reader, NEW k \in Tally PROVE report[r].shown[k] <= world'[k]
  <2>1. /\ report[r].shown[k] \in Nat /\ world[k] \in Nat /\ world'[k] \in Nat
        /\ report[r].shown[k] <= world[k] /\ world[k] <= world'[k]
    BY <1>1, <1>4, RxTyped DEF Copied
  <2> QED BY <2>1
<1>7. ASSUME NEW r \in Reader
      PROVE  /\ Taken(report[r].stats)'
             /\ report'[r].timed_out \/ report'[r].shown = report'[r].world
             /\ report'[r].timed_out \/ WorldNotBehind(report[r].stats, report[r].world)'
             /\ reader'[r].at = "world" =>
                  Taken(reader[r].stats)' /\ NotAhead(report[r].stats, reader[r].stats)'
  <2>1. /\ Taken(report[r].stats)
        /\ report[r].timed_out \/ report[r].shown = report[r].world
        /\ report[r].timed_out \/ WorldNotBehind(report[r].stats, report[r].world)
        /\ reader[r].at = "world" =>
             Taken(reader[r].stats) /\ NotAhead(report[r].stats, reader[r].stats)
    BY <1>1 DEF Copied
  <2>2. report' = report /\ reader' = reader
    OBVIOUS
  <2>3. Taken(report[r].stats)'
    BY <1>3, <1>4, <2>1, <2>2 DEF Taken
  <2>4. report'[r].timed_out \/ WorldNotBehind(report[r].stats, report[r].world)'
    BY <1>4, <1>5, <2>1, <2>2 DEF WorldNotBehind
  <2>5. reader'[r].at = "world" =>
          Taken(reader[r].stats)' /\ NotAhead(report[r].stats, reader[r].stats)'
    BY <1>3, <1>4, <2>1, <2>2 DEF Taken, NotAhead
  <2> QED BY <2>1, <2>2, <2>3, <2>4, <2>5
<1> QED BY <1>6, <1>7 DEF Copied

LEMMA CountGrows ==
    ASSUME RInv, NEW S, Count(S), UNCHANGED <<world, missed, reader, report>>
    PROVE  Copied'
<1>1. RxTypeOK
  BY DEF RInv
<1>2. s_stats' \in [Counter -> Nat] /\ NotAhead(s_stats, s_stats')
  BY <1>1, RxTyped, CountAdds DEF NotAhead, One
<1> QED BY <1>1, <1>2, CopiesStay, RxTyped

\* Nothing but the place, the lock and the counters change.
OnlyCounts(at) ==
    /\ rx' = [rx EXCEPT !.at = at] /\ spin' = IF at = "counting" THEN "rx" ELSE "free"
    /\ UNCHANGED <<world, missed, reader, report>>

LEMMA OnlyCountsTyped ==
    ASSUME RInv, NEW S, Count(S), NEW at \in Place, OnlyCounts(at)
    PROVE  /\ RxTypeOK' /\ Copied' /\ rx'.at = at /\ rx'.frame = rx.frame
           /\ \A c \in Counter : s_stats'[c] = s_stats[c] + One(c \in S) /\ s_stats[c] \in Nat
<1>1. RxTypeOK
  BY DEF RInv
<1>2. s_stats' \in [Counter -> Nat]
      /\ \A c \in Counter : s_stats'[c] = s_stats[c] + One(c \in S) /\ s_stats[c] \in Nat
  BY <1>1, RxTyped, CountAdds
<1>3. rx' = [at |-> at, frame |-> rx.frame]
  BY <1>1, RxTyped DEF OnlyCounts
<1>4. Copied'
  BY CountGrows DEF OnlyCounts
<1>5. RxTypeOK'
  BY <1>1, <1>2, <1>3 DEF RxTypeOK, OnlyCounts, Place
<1> QED BY <1>2, <1>3, <1>4, <1>5

LEMMA ReceiveKeeps == ASSUME RInv, NEW f \in Frames, receive(f) PROVE RInv'
<1>1. /\ RxTypeOK /\ ClassesAddUp(s_stats) /\ Progress /\ Fed /\ KindOfPlace
      /\ rx.at = "receive" /\ rx' = [at |-> "count", frame |-> f]
      /\ UNCHANGED <<spin, s_stats, world, missed, reader, report>>
  BY DEF RInv, receive
<1>2. RxTypeOK'
  BY <1>1 DEF RxTypeOK
<1>3. Progress' /\ Fed' /\ KindOfPlace'
  BY <1>1 DEF Progress, Fed, KindOfPlace, Counting, Waits, One, IsApObs
<1>4. Copied'
  <2>1. Copied /\ UNCHANGED <<s_stats, world, missed, reader, report>>
    BY <1>1 DEF RInv
  <2> QED BY <2>1 DEF Copied, Taken, NotAhead, WorldNotBehind
<1> QED BY <1>1, <1>2, <1>3, <1>4 DEF RInv

LEMMA CountBeginsKeeps == ASSUME RInv, count_begins PROVE RInv'
<1> DEFINE S == {"parser_total"}
<1>1. /\ RxTypeOK /\ ClassesAddUp(s_stats) /\ Progress /\ Fed /\ KindOfPlace
      /\ rx.at = "count" /\ Count(S) /\ OnlyCounts("counting")
  BY DEF RInv, count_begins, OnlyCounts, At
<1>2. /\ RxTypeOK' /\ Copied' /\ rx'.at = "counting" /\ rx'.frame = rx.frame
      /\ \A c \in Counter : s_stats'[c] = s_stats[c] + One(c \in S) /\ s_stats[c] \in Nat
  BY <1>1, OnlyCountsTyped DEF Place
<1>3. /\ MgmtSum(s_stats') = MgmtSum(s_stats) /\ CtrlSum(s_stats') = CtrlSum(s_stats)
      /\ DataSum(s_stats') = DataSum(s_stats) /\ TypeSum(s_stats') = TypeSum(s_stats)
      /\ Requests(s_stats') = Requests(s_stats)
  BY <1>1, RxTyped, ClassesLeft
<1>4. \A c \in MgmtName \cup CtrlName \cup DataName \cup Totals \cup OtherName :
         /\ s_stats'[c] = s_stats[c] + IF c = "parser_total" THEN 1 ELSE 0
         /\ s_stats[c] \in Nat
  BY <1>2, NamesCount DEF One
<1>5. ClassesAddUp(s_stats')
  BY <1>1, <1>3, <1>4 DEF ClassesAddUp
<1>6. Progress'
  <2>1. TypeSum(s_stats) \in Nat /\ ApParsed(s_stats) \in Nat
        /\ ApParsed(s_stats') = ApParsed(s_stats)
    BY <1>4 DEF TypeSum, ApParsed
  <2> QED BY <1>1, <1>2, <1>3, <1>4, <2>1 DEF Progress, Counting, One
<1>7. Fed' /\ KindOfPlace'
  <2>1. ApParsed(s_stats') = ApParsed(s_stats) /\ UNCHANGED <<world, missed>>
    BY <1>1, <1>4 DEF ApParsed, OnlyCounts
  <2> QED BY <1>1, <1>2, <1>3, <1>4, <2>1 DEF Fed, KindOfPlace, Waits, One
<1> QED BY <1>2, <1>5, <1>6, <1>7 DEF RInv

\* The kinds of frame exclude each other.
LEMMA KindsApart ==
    ASSUME NEW f \in AnyFrame
    PROVE  /\ IsApObs(f) => ~IsProbe(f) /\ ~IsRequest(f) /\ ~IsData(f)
           /\ IsProbe(f) => ~IsRequest(f) /\ ~IsData(f)
           /\ IsRequest(f) => ~IsData(f)
           /\ Feed(f) = "ap" <=> IsApObs(f)
           /\ Feed(f) = "probe" <=> IsProbe(f)
           /\ Feed(f) = "request" <=> IsRequest(f)
           /\ Feed(f) \in Feeds
<1>1. /\ IsApObs(f) => ~IsProbe(f) /\ ~IsRequest(f) /\ ~IsData(f)
      /\ IsProbe(f) => ~IsRequest(f) /\ ~IsData(f)
      /\ IsRequest(f) => ~IsData(f)
  BY DEF IsApObs, IsProbe, IsRequest, IsData, Mgmt
<1> QED BY <1>1 DEF Feed, Feeds

LEMMA CountedKeeps == ASSUME RInv, counted PROVE RInv'
<1> DEFINE f == rx.frame
           S == CountersOf(f)
           g == Adds(S)
           at == Dispatch(f)
<1>1. /\ RxTypeOK /\ ClassesAddUp(s_stats) /\ Progress /\ Fed /\ KindOfPlace
      /\ rx.at = "counting" /\ Count(S) /\ f \in AnyFrame
  BY RxTyped DEF RInv, counted
<1>2. /\ at \in {"handle", "feed", "release"}
      /\ at = "handle" <=> IsApObs(f) \/ IsProbe(f)
      /\ at = "feed" => IsRequest(f) \/ IsData(f)
  BY <1>1, KindsApart DEF Dispatch
<1>3. OnlyCounts(at)
  BY <1>2 DEF counted, OnlyCounts, At
<1> HIDE DEF at
<1>4. /\ RxTypeOK' /\ Copied' /\ rx'.at = at /\ rx'.frame = f
      /\ \A c \in Counter : s_stats'[c] = s_stats[c] + One(c \in S) /\ s_stats[c] \in Nat
  BY <1>1, <1>2, <1>3, OnlyCountsTyped DEF Place
<1>5. \A c \in Counter : s_stats'[c] = s_stats[c] + g[c] /\ s_stats[c] \in Nat /\ g[c] \in {0, 1}
  BY <1>4 DEF Adds, One
<1>6. /\ MgmtSum(s_stats') = MgmtSum(s_stats) + MgmtSum(g)
      /\ CtrlSum(s_stats') = CtrlSum(s_stats) + CtrlSum(g)
      /\ DataSum(s_stats') = DataSum(s_stats) + DataSum(g)
      /\ TypeSum(s_stats') = TypeSum(s_stats) + TypeSum(g)
      /\ ApParsed(s_stats') = ApParsed(s_stats) + ApParsed(g)
      /\ Requests(s_stats') = Requests(s_stats) + Requests(g)
  BY <1>1, RxTyped, SumsAdd
<1>7. Classifies(f, g)
  BY <1>1, FrameClassified
<1> HIDE DEF g, S
<1>8. \A c \in MgmtName \cup CtrlName \cup DataName \cup Totals \cup OtherName :
         s_stats'[c] = s_stats[c] + g[c] /\ s_stats[c] \in Nat /\ g[c] \in {0, 1}
  BY <1>5, NamesCount
<1>9. \A c \in {"parser_total", "rx_processed", "beacon_parsed", "probe_resp_parsed",
                "beacon_parse_errors", "probe_req_parsed", "probe_req_errors",
                "ie_incomplete", "ap_obs_skipped"} : s_stats'[c] = s_stats[c]
  BY <1>7, <1>8 DEF Classifies
<1>10. /\ MgmtSum(s_stats) \in Nat /\ CtrlSum(s_stats) \in Nat /\ DataSum(s_stats) \in Nat
       /\ TypeSum(s_stats) \in Nat /\ ApParsed(s_stats) \in Nat /\ Requests(s_stats) \in Nat
  <2>1. \A c \in MgmtName \cup CtrlName \cup DataName \cup Totals \cup OtherName :
          s_stats[c] \in Nat
    BY <1>8
  <2>2. MgmtSum(s_stats) \in Nat
    <3>1. \A c \in MgmtName : s_stats[c] \in Nat
      BY <2>1
    <3> DEFINE low  == s_stats["assoc_req_count"] + s_stats["assoc_resp_count"]
                         + s_stats["reassoc_req_count"] + s_stats["reassoc_resp_count"]
                         + s_stats["probe_req_count"] + s_stats["probe_resp_count"]
    <3>2. /\ low \in Nat
          /\ s_stats["beacon_count"] \in Nat /\ s_stats["atim_count"] \in Nat
          /\ s_stats["disassoc_count"] \in Nat /\ s_stats["auth_count"] \in Nat
          /\ s_stats["deauth_count"] \in Nat /\ s_stats["action_count"] \in Nat
          /\ s_stats["mgmt_other_count"] \in Nat
      BY <3>1
    <3>3. MgmtSum(s_stats) = low + s_stats["beacon_count"] + s_stats["atim_count"]
            + s_stats["disassoc_count"] + s_stats["auth_count"]
            + s_stats["deauth_count"] + s_stats["action_count"]
            + s_stats["mgmt_other_count"]
      BY DEF MgmtSum
    <3> HIDE DEF low
    <3> QED BY <3>2, <3>3
  <2>3. CtrlSum(s_stats) \in Nat
    BY <2>1, SMTT(60) DEF CtrlSum
  <2>4. DataSum(s_stats) \in Nat
    BY <2>1, SMTT(60) DEF DataSum
  <2>5. TypeSum(s_stats) \in Nat /\ ApParsed(s_stats) \in Nat /\ Requests(s_stats) \in Nat
    BY <2>1 DEF TypeSum, ApParsed, Requests
  <2> QED BY <2>2, <2>3, <2>4, <2>5
<1>11. ClassesAddUp(s_stats')
  BY <1>1, <1>6, <1>7, <1>8, <1>9 DEF ClassesAddUp, Classifies
<1>12. Progress'
  <2>1. s_stats'["parser_total"] = s_stats'["parser_errors"] + TypeSum(s_stats')
    <3>1. /\ s_stats["parser_total"] = s_stats["parser_errors"] + TypeSum(s_stats) + 1
          /\ g["parser_errors"] + TypeSum(g) = 1
      BY <1>1, <1>7 DEF Progress, Classifies, One
    <3>2. TypeSum(g) \in Int
      BY <1>8 DEF TypeSum
    <3> QED BY <1>6, <1>8, <1>9, <1>10, <3>1, <3>2
  <2>2. s_stats'["parser_total"] = s_stats'["rx_processed"] + 1
    BY <1>1, <1>9 DEF Progress, Counting, One
  <2>3. s_stats'["beacon_count"] + s_stats'["probe_resp_count"] =
          ApParsed(s_stats') + s_stats'["beacon_parse_errors"] + One(IsApObs(f))
    <3>1. /\ s_stats["beacon_count"] + s_stats["probe_resp_count"] =
               ApParsed(s_stats) + s_stats["beacon_parse_errors"]
          /\ g["beacon_count"] + g["probe_resp_count"] = One(IsApObs(f))
          /\ ApParsed(g) = 0
      BY <1>1, <1>7, <1>8, <1>10 DEF Progress, Classifies, One
    <3> QED BY <1>6, <1>8, <1>9, <1>10, <3>1
  <2>4. s_stats'["probe_req_count"] =
          s_stats'["probe_req_parsed"] + s_stats'["probe_req_errors"] + One(IsProbe(f))
    <3>1. /\ s_stats["probe_req_count"] = s_stats["probe_req_parsed"] + s_stats["probe_req_errors"]
          /\ g["probe_req_count"] = One(IsProbe(f))
      BY <1>1, <1>7, <1>8 DEF Progress, Classifies, One
    <3> QED BY <1>8, <1>9, <3>1
  <2> QED BY <1>2, <1>4, <2>1, <2>2, <2>3, <2>4, <1>8, <1>9, <1>10, <1>6 DEF Progress, Counting, One
<1>13. Fed'
  <2>0. /\ UNCHANGED <<world, missed>>
        /\ \A k \in Feeds : world[k] \in Nat /\ missed[k] \in Nat
    BY <1>1, <1>3, RxTyped DEF OnlyCounts
  <2>1. /\ world["ap"] + missed["ap"] = ApParsed(s_stats)
        /\ world["probe"] + missed["probe"] = s_stats["probe_req_parsed"]
        /\ world["request"] + missed["request"] <= Requests(s_stats)
        /\ world["data"] + missed["data"] <= s_stats["data_total"]
    BY <1>1, <2>0 DEF Fed, Waits, One, Feeds
  <2>2. /\ Waits("ap")' = 0 /\ Waits("probe")' = 0
        /\ Waits("request")' = One(at = "feed" /\ IsRequest(f))
        /\ Waits("data")' = One(at = "feed" /\ IsData(f))
    <3>1. /\ Waits("ap")' = One(at = "feed" /\ Feed(f) = "ap")
          /\ Waits("probe")' = One(at = "feed" /\ Feed(f) = "probe")
          /\ Waits("request")' = One(at = "feed" /\ Feed(f) = "request")
          /\ Waits("data")' = One(at = "feed" /\ Feed(f) = "data")
      BY <1>4 DEF Waits
    <3>2. at = "feed" => /\ Feed(f) # "ap" /\ Feed(f) # "probe"
                         /\ Feed(f) = "request" <=> IsRequest(f)
                         /\ Feed(f) = "data" <=> IsData(f)
      BY <1>1, <1>2, KindsApart DEF Feed
    <3> QED BY <3>1, <3>2 DEF One
  <2>3. Requests(g) \in Nat /\ (IsRequest(f) => Requests(g) = 1) /\ (IsData(f) => g["data_total"] = 1)
    BY <1>7 DEF Classifies
  <2>4. world'["request"] + missed'["request"] + Waits("request")' <= Requests(s_stats')
    BY <1>6, <1>10, <2>0, <2>1, <2>2, <2>3 DEF One, Feeds
  <2>5. world'["data"] + missed'["data"] + Waits("data")' <= s_stats'["data_total"]
    BY <1>8, <2>0, <2>1, <2>2, <2>3 DEF One, Feeds
  <2>6. ApParsed(s_stats') = ApParsed(s_stats)
    BY <1>6, <1>7, <1>10 DEF Classifies
  <2>7. /\ world'["ap"] + missed'["ap"] + Waits("ap")' = ApParsed(s_stats')
        /\ world'["probe"] + missed'["probe"] + Waits("probe")' = s_stats'["probe_req_parsed"]
    BY <1>9, <2>0, <2>1, <2>2, <2>6 DEF Feeds
  <2> QED BY <2>4, <2>5, <2>7 DEF Fed
<1>14. KindOfPlace'
  BY <1>2, <1>4 DEF KindOfPlace
<1> QED BY <1>4, <1>11, <1>12, <1>13, <1>14 DEF RInv

-----------------------------------------------------------------------------
\* A handler counts the outcome and passes the frame on.
LEMMA HandledKeeps ==
    ASSUME RInv, NEW S, Count(S), NEW at \in {"feed", "release"}, OnlyCounts(at),
           rx.at = "handle",
           S \cap (MgmtName \cup CtrlName \cup DataName \cup Totals
                   \cup {"invalid_frames", "parser_total", "rx_processed"}) = {},
           "ap_obs_skipped" \in S => "ie_incomplete" \in S,
           One("beacon_parsed" \in S) + One("probe_resp_parsed" \in S)
             = One(IsApObs(rx.frame) /\ at = "feed"),
           One("beacon_parse_errors" \in S) = One(IsApObs(rx.frame) /\ at = "release"),
           One("probe_req_parsed" \in S) = One(IsProbe(rx.frame) /\ at = "feed"),
           One("probe_req_errors" \in S) = One(IsProbe(rx.frame) /\ at = "release")
    PROVE  RInv'
<1> DEFINE f == rx.frame
<1>1. /\ RxTypeOK /\ ClassesAddUp(s_stats) /\ Progress /\ Fed /\ KindOfPlace
      /\ f \in AnyFrame
  BY RxTyped DEF RInv
<1>2. /\ RxTypeOK' /\ Copied' /\ rx'.at = at /\ rx'.frame = f
      /\ \A c \in Counter : s_stats'[c] = s_stats[c] + One(c \in S) /\ s_stats[c] \in Nat
  BY OnlyCountsTyped DEF Place
<1>3. /\ MgmtSum(s_stats') = MgmtSum(s_stats) /\ CtrlSum(s_stats') = CtrlSum(s_stats)
      /\ DataSum(s_stats') = DataSum(s_stats) /\ TypeSum(s_stats') = TypeSum(s_stats)
      /\ Requests(s_stats') = Requests(s_stats)
      /\ \A c \in MgmtName \cup CtrlName \cup DataName \cup Totals \cup {"invalid_frames"} :
           s_stats'[c] = s_stats[c]
  BY <1>1, RxTyped, ClassesLeft
<1>4. \A c \in OtherName : s_stats'[c] = s_stats[c] + One(c \in S) /\ s_stats[c] \in Nat
  BY <1>2, NamesCount
<1>5. s_stats'["parser_total"] = s_stats["parser_total"]
      /\ s_stats'["rx_processed"] = s_stats["rx_processed"]
  BY <1>4 DEF One
<1>6. ApParsed(s_stats') = ApParsed(s_stats) + One(IsApObs(f) /\ at = "feed")
      /\ ApParsed(s_stats) \in Nat
  BY <1>4 DEF ApParsed, One
<1>7. /\ s_stats'["beacon_parse_errors"] =
           s_stats["beacon_parse_errors"] + One(IsApObs(f) /\ at = "release")
      /\ s_stats'["probe_req_parsed"] =
           s_stats["probe_req_parsed"] + One(IsProbe(f) /\ at = "feed")
      /\ s_stats'["probe_req_errors"] =
           s_stats["probe_req_errors"] + One(IsProbe(f) /\ at = "release")
      /\ s_stats["beacon_parse_errors"] \in Nat /\ s_stats["probe_req_parsed"] \in Nat
      /\ s_stats["probe_req_errors"] \in Nat
  BY <1>4
<1>8. ClassesAddUp(s_stats')
  <2>1. s_stats'["ap_obs_skipped"] <= s_stats'["ie_incomplete"]
    BY <1>1, <1>4 DEF ClassesAddUp, One
  <2> QED BY <1>1, <1>3, <2>1 DEF ClassesAddUp
<1>9. Progress'
  <2>1. s_stats'["parser_total"] = s_stats'["parser_errors"] + TypeSum(s_stats')
    BY <1>1, <1>3, <1>5, <1>2, NamesCount DEF Progress, One, TypeSum
  <2>2. s_stats'["parser_total"] = s_stats'["rx_processed"] + 1
    BY <1>1, <1>5 DEF Progress, Counting, One
  <2>3. s_stats'["beacon_count"] + s_stats'["probe_resp_count"] =
          ApParsed(s_stats') + s_stats'["beacon_parse_errors"]
    <3>1. s_stats["beacon_count"] + s_stats["probe_resp_count"] =
            ApParsed(s_stats) + s_stats["beacon_parse_errors"] + One(IsApObs(f))
      BY <1>1 DEF Progress, One
    <3> QED BY <1>3, <1>6, <1>7, <3>1 DEF One
  <2>4. s_stats'["probe_req_count"] = s_stats'["probe_req_parsed"] + s_stats'["probe_req_errors"]
    <3>1. s_stats["probe_req_count"] =
            s_stats["probe_req_parsed"] + s_stats["probe_req_errors"] + One(IsProbe(f))
      BY <1>1 DEF Progress, One
    <3> QED BY <1>3, <1>7, <3>1 DEF One
  <2>5. /\ TypeSum(s_stats') \in Nat /\ s_stats'["parser_errors"] \in Nat
        /\ s_stats'["rx_processed"] \in Nat /\ ApParsed(s_stats') \in Nat
        /\ s_stats'["beacon_parse_errors"] \in Nat /\ s_stats'["probe_req_parsed"] \in Nat
        /\ s_stats'["probe_req_errors"] \in Nat
    <3>1. \A c \in Counter : s_stats'[c] \in Nat
      BY <1>2 DEF RxTypeOK
    <3> QED BY <3>1, NamesCount DEF TypeSum, ApParsed
  <2> QED BY <1>2, <2>1, <2>2, <2>3, <2>4, <2>5 DEF Progress, Counting, One
<1>10. KindOfPlace'
  BY <1>1, <1>2 DEF KindOfPlace
<1>11. Fed'
  <2>0. /\ UNCHANGED <<world, missed>>
        /\ \A k \in Feeds : world[k] \in Nat /\ missed[k] \in Nat
    BY <1>1, RxTyped DEF OnlyCounts
  <2>1. /\ world["ap"] + missed["ap"] = ApParsed(s_stats)
        /\ world["probe"] + missed["probe"] = s_stats["probe_req_parsed"]
        /\ world["request"] + missed["request"] <= Requests(s_stats)
        /\ world["data"] + missed["data"] <= s_stats["data_total"]
    BY <1>1, <2>0 DEF Fed, Waits, One, Feeds
  <2>2. /\ Waits("ap")' = One(IsApObs(f) /\ at = "feed")
        /\ Waits("probe")' = One(IsProbe(f) /\ at = "feed")
        /\ Waits("request")' = 0 /\ Waits("data")' = 0
    <3>1. IsApObs(f) \/ IsProbe(f)
      BY <1>1 DEF KindOfPlace
    <3>2. Feed(f) = (IF IsApObs(f) THEN "ap" ELSE "probe") /\ ~(IsApObs(f) /\ IsProbe(f))
      BY <1>1, <3>1, KindsApart DEF Feed
    <3> QED BY <1>2, <3>1, <3>2 DEF Waits, One
  <2>3. world'["ap"] + missed'["ap"] + Waits("ap")' = ApParsed(s_stats')
    BY <1>6, <2>0, <2>1, <2>2
  <2>4. world'["probe"] + missed'["probe"] + Waits("probe")' = s_stats'["probe_req_parsed"]
    BY <1>7, <2>0, <2>1, <2>2
  <2>5. world'["request"] + missed'["request"] + Waits("request")' <= Requests(s_stats')
    BY <1>3, <2>0, <2>1, <2>2 DEF Feeds
  <2>6. world'["data"] + missed'["data"] + Waits("data")' <= s_stats'["data_total"]
    BY <1>3, <2>0, <2>1, <2>2 DEF Feeds
  <2> QED BY <2>3, <2>4, <2>5, <2>6 DEF Fed
<1> QED BY <1>2, <1>8, <1>9, <1>10, <1>11 DEF RInv

LEMMA RefuseKeeps == ASSUME RInv, refuse PROVE RInv'
<1> DEFINE S == {IF IsProbe(rx.frame) THEN "probe_req_errors" ELSE "beacon_parse_errors"}
           at == "release"
<1>1. Count(S) /\ OnlyCounts(at) /\ rx.at = "handle"
  BY DEF refuse, OnlyCounts, At
<1>2. rx.frame \in AnyFrame /\ (IsApObs(rx.frame) \/ IsProbe(rx.frame))
  BY <1>1, RxTyped DEF RInv, KindOfPlace
<1>3. IsApObs(rx.frame) <=> ~IsProbe(rx.frame)
  BY <1>2, KindsApart
<1>4. /\ S \cap (MgmtName \cup CtrlName \cup DataName \cup Totals
                   \cup {"invalid_frames", "parser_total", "rx_processed"}) = {}
      /\ "ap_obs_skipped" \in S => "ie_incomplete" \in S
      /\ One("beacon_parsed" \in S) + One("probe_resp_parsed" \in S)
             = One(IsApObs(rx.frame) /\ at = "feed")
      /\ One("beacon_parse_errors" \in S) = One(IsApObs(rx.frame) /\ at = "release")
      /\ One("probe_req_parsed" \in S) = One(IsProbe(rx.frame) /\ at = "feed")
      /\ One("probe_req_errors" \in S) = One(IsProbe(rx.frame) /\ at = "release")
  BY <1>3 DEF One
<1>5. at \in {"feed", "release"}
  OBVIOUS
<1> HIDE DEF S, at
<1> QED BY <1>1, <1>4, <1>5, HandledKeeps

LEMMA ObserveApKeeps == ASSUME RInv, observe_ap PROVE RInv'
<1> DEFINE f == rx.frame
           S == {IF f.subtype = 8 THEN "beacon_parsed" ELSE "probe_resp_parsed"}
                   \cup Incomplete(f) \cup f.found
                   \cup (IF f.parse = "incomplete" THEN {"ap_obs_skipped"} ELSE {})
           at == "feed"
<1>1. Count(S) /\ OnlyCounts(at) /\ rx.at = "handle" /\ IsApObs(f)
  BY DEF observe_ap, OnlyCounts, At
<1>2. f \in AnyFrame
  BY RxTyped DEF RInv
<1>3. ~IsProbe(f) /\ f.found \subseteq Found
  BY <1>1, <1>2, KindsApart DEF AnyFrame
<1>4. /\ S \cap (MgmtName \cup CtrlName \cup DataName \cup Totals
                   \cup {"invalid_frames", "parser_total", "rx_processed"}) = {}
      /\ "ap_obs_skipped" \in S => "ie_incomplete" \in S
      /\ One("beacon_parsed" \in S) + One("probe_resp_parsed" \in S)
             = One(IsApObs(f) /\ at = "feed")
      /\ One("beacon_parse_errors" \in S) = One(IsApObs(f) /\ at = "release")
      /\ One("probe_req_parsed" \in S) = One(IsProbe(f) /\ at = "feed")
      /\ One("probe_req_errors" \in S) = One(IsProbe(f) /\ at = "release")
  <2>1. \A c \in S : \/ c = "beacon_parsed" /\ f.subtype = 8
                     \/ c = "probe_resp_parsed" /\ f.subtype # 8
                     \/ c \in Found \cup {"ie_incomplete", "ap_obs_skipped"}
    BY <1>3 DEF Incomplete
  <2>2. /\ f.subtype = 8 => "beacon_parsed" \in S
        /\ f.subtype # 8 => "probe_resp_parsed" \in S
    OBVIOUS
  <2>3. "ap_obs_skipped" \in S => "ie_incomplete" \in S
    BY <1>3 DEF Incomplete, Found
  <2> HIDE DEF S
  <2>4. S \cap (MgmtName \cup CtrlName \cup DataName \cup Totals
                   \cup {"invalid_frames", "parser_total", "rx_processed"}) = {}
    BY <2>1 DEF Found
  <2>5. /\ "beacon_parsed" \in S <=> f.subtype = 8
        /\ "probe_resp_parsed" \in S <=> f.subtype # 8
        /\ "beacon_parse_errors" \notin S /\ "probe_req_parsed" \notin S
        /\ "probe_req_errors" \notin S
    BY <2>1, <2>2 DEF Found
  <2> QED BY <1>1, <1>3, <2>3, <2>4, <2>5 DEF One
<1>5. at \in {"feed", "release"}
  OBVIOUS
<1> HIDE DEF S, at
<1> QED BY <1>1, <1>4, <1>5, HandledKeeps

LEMMA ObserveProbeKeeps == ASSUME RInv, observe_probe PROVE RInv'
<1> DEFINE f == rx.frame
           S == {"probe_req_parsed"} \cup Incomplete(f)
           at == "feed"
<1>1. Count(S) /\ OnlyCounts(at) /\ rx.at = "handle" /\ IsProbe(f)
  BY DEF observe_probe, OnlyCounts, At
<1>2. f \in AnyFrame
  BY RxTyped DEF RInv
<1>3. ~IsApObs(f)
  BY <1>1, <1>2, KindsApart
<1>4. /\ S \cap (MgmtName \cup CtrlName \cup DataName \cup Totals
                   \cup {"invalid_frames", "parser_total", "rx_processed"}) = {}
      /\ "ap_obs_skipped" \in S => "ie_incomplete" \in S
      /\ One("beacon_parsed" \in S) + One("probe_resp_parsed" \in S)
             = One(IsApObs(f) /\ at = "feed")
      /\ One("beacon_parse_errors" \in S) = One(IsApObs(f) /\ at = "release")
      /\ One("probe_req_parsed" \in S) = One(IsProbe(f) /\ at = "feed")
      /\ One("probe_req_errors" \in S) = One(IsProbe(f) /\ at = "release")
  BY <1>1, <1>3 DEF One, Incomplete
<1>5. at \in {"feed", "release"}
  OBVIOUS
<1> HIDE DEF S, at
<1> QED BY <1>1, <1>4, <1>5, HandledKeeps

\* Records are created and go, and no count falls.
LEMMA TurnoverGrows ==
    ASSUME world \in [Tally -> Nat], NEW new \in Nat, NEW old \in 0..Held(world)
    PROVE  /\ Turnover(new, old) \in [Tally -> Nat]
           /\ \A x \in Feeds : Turnover(new, old)[x] = world[x]
           /\ \A x \in Tally : world[x] <= Turnover(new, old)[x]
<1> DEFINE w == Turnover(new, old)
<1>1. world["created"] \in Nat /\ world["gone"] \in Nat /\ new \in Nat /\ old \in Nat
  BY DEF Tally, Held
<1>2. /\ DOMAIN w = Tally
      /\ w["created"] = world["created"] + new /\ w["gone"] = world["gone"] + old
      /\ \A x \in Tally \ {"created", "gone"} : w[x] = world[x]
  BY DEF Turnover, Tally
<1>3. \A x \in Feeds : x \in Tally \ {"created", "gone"}
  BY DEF Feeds, Tally
<1>4. w = [x \in Tally |-> w[x]]
  BY <1>2 DEF Turnover
<1>5. \A x \in Tally : w[x] \in Nat /\ world[x] <= w[x]
  BY <1>1, <1>2
<1> HIDE DEF w
<1>6. w \in [Tally -> Nat]
  BY <1>4, <1>5
<1> QED BY <1>2, <1>3, <1>5, <1>6 DEF w

LEMMA TickKeeps == ASSUME RInv, world_tick PROVE RInv'
<1>1. /\ RxTypeOK /\ ClassesAddUp(s_stats) /\ Progress /\ Fed /\ KindOfPlace
      /\ rx.at = "receive" /\ UNCHANGED <<rx, spin, s_stats, missed, reader, report>>
  BY DEF RInv, world_tick
<1>2. PICK old \in 1..Held(world) : world' = Turnover(0, old)
  BY DEF world_tick
<1>3. world \in [Tally -> Nat] /\ Held(world) \in Int
  BY <1>1, RxTyped DEF Held, Tally
<1> DEFINE none == 0
<1>4. old \in 0..Held(world) /\ none \in Nat
  BY <1>2, <1>3
<1> HIDE DEF none
<1>5. /\ world' \in [Tally -> Nat] /\ \A x \in Tally : world[x] <= world'[x]
      /\ \A x \in Feeds : world'[x] = world[x]
  <2>1. world' = Turnover(none, old)
    BY <1>2 DEF none
  <2> QED BY <1>3, <1>4, <2>1, TurnoverGrows
<1>6. RxTypeOK'
  BY <1>1, <1>5 DEF RxTypeOK
<1>7. Progress' /\ KindOfPlace' /\ ClassesAddUp(s_stats)'
  BY <1>1 DEF Progress, KindOfPlace, Counting, ClassesAddUp
<1>8. Fed'
  BY <1>1, <1>5 DEF Fed, Waits, Feeds
<1>9. Copied'
  <2>1. s_stats' \in [Counter -> Nat] /\ NotAhead(s_stats, s_stats') /\ missed' \in [Feeds -> Nat]
        /\ \A k \in Feeds : missed[k] <= missed'[k]
    BY <1>1, RxTyped DEF NotAhead
  <2> QED BY <1>1, <1>5, <2>1, CopiesStay
<1> QED BY <1>1, <1>6, <1>7, <1>8, <1>9 DEF RInv

LEMMA FeedKeeps == ASSUME RInv, feed PROVE RInv'
<1> DEFINE f == rx.frame
           k == Feed(f)
<1>1. /\ RxTypeOK /\ ClassesAddUp(s_stats) /\ Progress /\ Fed /\ KindOfPlace
      /\ rx.at = "feed" /\ f \in AnyFrame /\ k \in Feeds
      /\ rx' = [at |-> "release", frame |-> f]
      /\ UNCHANGED <<spin, s_stats, reader, report>>
  <2>1. RxTypeOK /\ rx = [at |-> rx.at, frame |-> rx.frame] /\ f \in AnyFrame
    BY RxTyped DEF RInv
  <2>2. k \in Feeds
    BY <2>1, KindsApart
  <2> QED BY <2>1, <2>2 DEF RInv, feed, At
<1>2. /\ \A x \in Feeds : world[x] \in Nat /\ missed[x] \in Nat
      /\ world \in [Tally -> Nat] /\ missed \in [Feeds -> Nat]
      /\ s_stats \in [Counter -> Nat]
  BY <1>1, RxTyped
<1>3. \/ /\ \E new \in 0..2, old \in 0..Held(world) :
               world' = [Turnover(new, old) EXCEPT ![k] = @ + 1]
         /\ missed' = missed
      \/ missed' = [missed EXCEPT ![k] = @ + 1] /\ world' = world
  BY DEF feed
<1> HIDE DEF k
<1>4. /\ world' \in [Tally -> Nat] /\ \A x \in Tally : world[x] <= world'[x]
      /\ missed' \in [Feeds -> Nat] /\ \A x \in Feeds : missed[x] <= missed'[x]
      /\ \A x \in Feeds : world'[x] + missed'[x] = world[x] + missed[x] + One(x = k)
  <2>1. CASE missed' = [missed EXCEPT ![k] = @ + 1] /\ world' = world
    BY <1>1, <1>2, <2>1 DEF One
  <2>2. ASSUME NEW new \in 0..2, NEW old \in 0..Held(world),
               world' = [Turnover(new, old) EXCEPT ![k] = @ + 1], missed' = missed
        PROVE  <1>4
    <3>1. /\ Turnover(new, old) \in [Tally -> Nat]
          /\ \A x \in Feeds : Turnover(new, old)[x] = world[x]
          /\ \A x \in Tally : world[x] <= Turnover(new, old)[x]
      BY <1>2, <2>2, TurnoverGrows
    <3> DEFINE w == Turnover(new, old)
    <3> HIDE DEF w
    <3>2. /\ w \in [Tally -> Nat] /\ (\A x \in Feeds : w[x] = world[x])
          /\ (\A x \in Tally : world[x] <= w[x] /\ w[x] \in Nat)
          /\ world' = [w EXCEPT ![k] = @ + 1] /\ k \in Tally
      BY <1>1, <2>2, <3>1 DEF w, Tally
    <3>3. /\ world' \in [Tally -> Nat]
          /\ \A x \in Tally : world'[x] = w[x] + One(x = k)
      BY <3>2 DEF One
    <3>4. \A x \in Feeds : x \in Tally
      BY DEF Tally
    <3> QED BY <1>2, <2>2, <3>2, <3>3, <3>4 DEF One
  <2> QED BY <1>3, <2>1, <2>2
<1>5. world' \in [Tally -> Nat] /\ missed' \in [Feeds -> Nat]
  BY <1>4
<1>6. RxTypeOK'
  BY <1>1, <1>5 DEF RxTypeOK
<1>7. Progress' /\ KindOfPlace'
  BY <1>1 DEF Progress, KindOfPlace, Counting, One
<1>8. Fed'
  <2>1. \A x \in Feeds : Waits(x) = One(x = k) /\ Waits(x)' = 0
    BY <1>1 DEF Waits, One, k
  <2>2. ApParsed(s_stats') = ApParsed(s_stats) /\ Requests(s_stats') = Requests(s_stats)
    BY <1>1
  <2>3. \A x \in Feeds : world'[x] + missed'[x] + Waits(x)' = world[x] + missed[x] + Waits(x)
    BY <1>2, <1>4, <2>1 DEF One
  <2> QED BY <1>1, <2>2, <2>3 DEF Fed, Feeds
<1>9. Copied'
  <2>1. NotAhead(s_stats, s_stats') /\ s_stats' \in [Counter -> Nat]
    BY <1>1, <1>2, RxTyped DEF NotAhead
  <2> QED BY <1>1, <1>4, <1>5, <2>1, CopiesStay
<1> QED BY <1>1, <1>6, <1>7, <1>8, <1>9 DEF RInv

LEMMA ReleaseKeeps == ASSUME RInv, release PROVE RInv'
<1> DEFINE S == {"rx_processed"}
<1>1. /\ RxTypeOK /\ ClassesAddUp(s_stats) /\ Progress /\ Fed /\ KindOfPlace
      /\ rx.at = "release" /\ Count(S)
      /\ rx' = [at |-> "receive", frame |-> NoFrame]
      /\ UNCHANGED <<spin, world, missed, reader, report>>
  BY DEF RInv, release
<1>2. s_stats \in [Counter -> Nat]
  BY <1>1, RxTyped
<1>3. s_stats' \in [Counter -> Nat]
      /\ \A c \in Counter : s_stats'[c] = s_stats[c] + One(c \in S) /\ s_stats[c] \in Nat
  BY <1>1, <1>2, CountAdds
<1>4. /\ MgmtSum(s_stats') = MgmtSum(s_stats) /\ CtrlSum(s_stats') = CtrlSum(s_stats)
      /\ DataSum(s_stats') = DataSum(s_stats) /\ TypeSum(s_stats') = TypeSum(s_stats)
      /\ Requests(s_stats') = Requests(s_stats)
  BY <1>1, <1>2, ClassesLeft
<1>5. \A c \in MgmtName \cup CtrlName \cup DataName \cup Totals \cup OtherName :
         /\ s_stats'[c] = s_stats[c] + IF c = "rx_processed" THEN 1 ELSE 0
         /\ s_stats[c] \in Nat
  BY <1>3, NamesCount DEF One
<1>6. RxTypeOK'
  BY <1>1, <1>3 DEF RxTypeOK
<1>7. ApParsed(s_stats') = ApParsed(s_stats) /\ ApParsed(s_stats) \in Nat
      /\ TypeSum(s_stats) \in Nat
  BY <1>5 DEF ApParsed, TypeSum
<1>8. ClassesAddUp(s_stats')
  BY <1>1, <1>4, <1>5 DEF ClassesAddUp
<1>9. Progress'
  BY <1>1, <1>4, <1>5, <1>7 DEF Progress, Counting, One
<1>10. Fed' /\ KindOfPlace'
  BY <1>1, <1>4, <1>5, <1>7 DEF Fed, KindOfPlace, Waits, One
<1>11. Copied'
  BY <1>1, CountGrows
<1> QED BY <1>6, <1>8, <1>9, <1>10, <1>11 DEF RInv

-----------------------------------------------------------------------------
(* The readers *)

\* Between two sections under the spinlock the counters hang together.
LEMMA WholeWhenFree ==
    ASSUME RInv, spin = "free" PROVE Taken(s_stats)
<1>1. /\ RxTypeOK /\ ClassesAddUp(s_stats) /\ Progress /\ rx.at # "counting"
      /\ rx.frame \in AnyFrame
  BY RxTyped DEF RInv, RxTypeOK
<1>2. ~(IsApObs(rx.frame) /\ IsProbe(rx.frame))
  BY <1>1, KindsApart
<1>3. \A c \in MgmtName \cup CtrlName \cup DataName \cup Totals \cup OtherName :
         s_stats[c] \in Nat
  BY <1>1, RxTyped, NamesCount
<1>4. ApParsed(s_stats) \in Nat /\ TypeSum(s_stats) \in Nat
  BY <1>3 DEF ApParsed, TypeSum
<1>5. AddsUp(s_stats)
  BY <1>1, <1>3, <1>4 DEF AddsUp, ClassesAddUp, Progress, One
<1>6. BehindByOne(s_stats)
  <2>0. /\ s_stats["parser_total"] \in Nat /\ s_stats["rx_processed"] \in Nat
        /\ s_stats["beacon_count"] \in Nat /\ s_stats["probe_resp_count"] \in Nat
        /\ s_stats["beacon_parse_errors"] \in Nat /\ s_stats["probe_req_count"] \in Nat
        /\ s_stats["probe_req_parsed"] \in Nat /\ s_stats["probe_req_errors"] \in Nat
    BY <1>3
  <2>9. /\ One(Counting) \in Nat /\ One(rx.at = "handle" /\ IsApObs(rx.frame)) \in Nat
        /\ One(rx.at = "handle" /\ IsProbe(rx.frame)) \in Nat
    BY DEF One
  <2>1. /\ s_stats["parser_total"] - s_stats["rx_processed"] = One(Counting)
        /\ s_stats["beacon_count"] + s_stats["probe_resp_count"]
             - (ApParsed(s_stats) + s_stats["beacon_parse_errors"])
               = One(rx.at = "handle" /\ IsApObs(rx.frame))
        /\ s_stats["probe_req_count"]
             - (s_stats["probe_req_parsed"] + s_stats["probe_req_errors"])
               = One(rx.at = "handle" /\ IsProbe(rx.frame))
    BY <1>1, <1>4, <2>0, <2>9 DEF Progress
  <2> QED BY <1>1, <1>2, <2>1 DEF BehindByOne, InHand, ClassesAddUp, Counting, One
<1>7. NotAhead(s_stats, s_stats)
  BY <1>1, RxTyped DEF NotAhead
<1> QED BY <1>5, <1>6, <1>7 DEF Taken

LEMMA CopiedOf ==
    ASSUME RInv, NEW r \in Reader
    PROVE  /\ Taken(report[r].stats)
           /\ report[r].timed_out \/ WorldNotBehind(report[r].stats, report[r].world)
           /\ report[r].timed_out \/ report[r].shown = report[r].world
           /\ \A f \in Tally : report[r].shown[f] <= world[f]
           /\ reader[r].at = "world" =>
                Taken(reader[r].stats) /\ NotAhead(report[r].stats, reader[r].stats)
           /\ report[r].stats \in [Counter -> Nat] /\ reader[r].stats \in [Counter -> Nat]
           /\ report[r].world \in [Tally -> Nat] /\ report[r].shown \in [Tally -> Nat]
           /\ reader[r].at \in {"idle", "world"}
  BY DEF RInv, Copied, RxTypeOK

\* The task and the world are untouched by a reader.
LEMMA TaskUntouched ==
    ASSUME RInv, UNCHANGED taskVars, Copied',
           reader' \in [Reader -> [at : {"idle", "world"}, stats : [Counter -> Nat]]],
           report' \in [Reader -> [stats : [Counter -> Nat], world : [Tally -> Nat],
                                   timed_out : BOOLEAN, shown : [Tally -> Nat]]]
    PROVE  RInv'
<1>1. UNCHANGED <<rx, spin, s_stats, world, missed>>
  BY DEF taskVars
<1>2. RxTypeOK'
  BY <1>1 DEF RInv, RxTypeOK
<1>3. Progress' /\ Fed' /\ KindOfPlace' /\ ClassesAddUp(s_stats')
  BY <1>1 DEF RInv, Progress, Fed, KindOfPlace, ClassesAddUp, Counting, Waits
<1> QED BY <1>2, <1>3 DEF RInv

LEMMA CopiesStatsKeeps == ASSUME RInv, NEW r \in Reader, copies_stats(r) PROVE RInv'
<1>1. /\ RxTypeOK /\ reader[r].at = "idle" /\ spin = "free"
      /\ reader' = [reader EXCEPT ![r] = [at |-> "world", stats |-> s_stats]]
      /\ UNCHANGED <<taskVars, report>> /\ s_stats \in [Counter -> Nat]
  BY RxTyped DEF RInv, copies_stats
<1>2. reader' \in [Reader -> [at : {"idle", "world"}, stats : [Counter -> Nat]]]
      /\ reader'[r] = [at |-> "world", stats |-> s_stats]
      /\ \A q \in Reader : q # r => reader'[q] = reader[q]
  BY <1>1 DEF RxTypeOK
<1>3. UNCHANGED <<rx, spin, s_stats, world, missed, report>>
  BY <1>1 DEF taskVars
<1>4. ASSUME NEW q \in Reader
      PROVE  reader'[q].at = "world" =>
               Taken(reader[q].stats)' /\ NotAhead(report[q].stats, reader[q].stats)'
  <2>1. CASE q = r
    <3>1. Taken(s_stats) /\ NotAhead(report[r].stats, s_stats)
      BY <1>1, WholeWhenFree, CopiedOf DEF Taken
    <3> QED BY <1>2, <1>3, <2>1, <3>1 DEF Taken, NotAhead
  <2>2. CASE q # r
    BY <1>2, <1>3, <2>2, CopiedOf DEF Taken, NotAhead
  <2> QED BY <2>1, <2>2
<1>5. Copied'
  <2>1. ASSUME NEW q \in Reader
        PROVE  /\ Taken(report[q].stats)'
               /\ report'[q].timed_out \/ WorldNotBehind(report[q].stats, report[q].world)'
               /\ report'[q].timed_out \/ report'[q].shown = report'[q].world
               /\ \A f \in Tally : report'[q].shown[f] <= world'[f]
    BY <1>3, CopiedOf DEF Taken, NotAhead, WorldNotBehind
  <2> QED BY <1>4, <2>1 DEF Copied
<1> QED BY <1>1, <1>2, <1>3, <1>5, TaskUntouched DEF RxTypeOK

\* Both ways of ending a report.
Publishes(r, w, late, shown) ==
    /\ reader[r].at = "world"
    /\ report' = [report EXCEPT ![r] =
                    [stats |-> reader[r].stats, world |-> w, timed_out |-> late,
                     shown |-> shown]]
    /\ reader' = [reader EXCEPT ![r] = [at |-> "idle", stats |-> Zero]]
    /\ UNCHANGED taskVars

LEMMA PublishesKeeps ==
    ASSUME RInv, NEW r \in Reader, NEW w \in [Tally -> Nat], NEW late \in BOOLEAN,
           NEW shown \in [Tally -> Nat],
           Publishes(r, w, late, shown), \A f \in Tally : shown[f] <= world[f],
           late \/ (w = world /\ shown = world)
    PROVE  RInv'
<1>1. RxTypeOK /\ reader[r].at = "world"
  BY DEF RInv, Publishes
<1>2. /\ report' = [report EXCEPT ![r] =
                    [stats |-> reader[r].stats, world |-> w, timed_out |-> late,
                     shown |-> shown]]
      /\ reader' = [reader EXCEPT ![r] = [at |-> "idle", stats |-> Zero]]
      /\ UNCHANGED taskVars
  BY DEF Publishes
<1>3. UNCHANGED <<rx, spin, s_stats, world, missed>>
  BY <1>2 DEF taskVars
<1>4. Taken(reader[r].stats) /\ reader[r].stats \in [Counter -> Nat]
  BY <1>1, CopiedOf
<1>5. Zero \in [Counter -> Nat]
  BY DEF Zero
<1>6. /\ report' \in [Reader -> [stats : [Counter -> Nat], world : [Tally -> Nat],
                                 timed_out : BOOLEAN, shown : [Tally -> Nat]]]
      /\ reader' \in [Reader -> [at : {"idle", "world"}, stats : [Counter -> Nat]]]
  BY <1>1, <1>2, <1>4, <1>5 DEF RxTypeOK
<1>7. /\ report'[r] = [stats |-> reader[r].stats, world |-> w, timed_out |-> late,
                        shown |-> shown]
      /\ reader'[r].at = "idle"
      /\ \A q \in Reader : q # r => report'[q] = report[q] /\ reader'[q] = reader[q]
  BY <1>1, <1>2 DEF RxTypeOK
<1>8. late \/ WorldNotBehind(reader[r].stats, world)
  \* The copied counters are not ahead of those now, the world is one behind.
  <2>1. /\ reader[r].stats["beacon_parsed"] <= s_stats["beacon_parsed"]
        /\ reader[r].stats["probe_resp_parsed"] <= s_stats["probe_resp_parsed"]
        /\ reader[r].stats["probe_req_parsed"] <= s_stats["probe_req_parsed"]
    BY <1>4, NamesCount DEF Taken, NotAhead
  <2>2. \A c \in OtherName : reader[r].stats[c] \in Nat /\ s_stats[c] \in Nat
    BY <1>1, <1>4, RxTyped, NamesCount
  <2>3. ApParsed(reader[r].stats) <= ApParsed(s_stats)
        /\ ApParsed(reader[r].stats) \in Nat /\ ApParsed(s_stats) \in Nat
    BY <2>1, <2>2 DEF ApParsed
  <2>4. /\ world["ap"] + missed["ap"] + Waits("ap") = ApParsed(s_stats)
        /\ world["probe"] + missed["probe"] + Waits("probe") = s_stats["probe_req_parsed"]
        /\ Waits("ap") \in {0, 1} /\ Waits("probe") \in {0, 1}
    BY DEF RInv, Fed, Waits, One
  <2>5. /\ world["ap"] \in Nat /\ missed["ap"] \in Nat
        /\ world["probe"] \in Nat /\ missed["probe"] \in Nat
    BY <1>1, RxTyped DEF Feeds
  <2>6. ApParsed(reader[r].stats) <= world["ap"] + missed["ap"] + 1
    BY <2>3, <2>4, <2>5
  <2>7. reader[r].stats["probe_req_parsed"] <= world["probe"] + missed["probe"] + 1
    BY <2>1, <2>2, <2>4, <2>5
  <2> QED BY <2>6, <2>7 DEF WorldNotBehind
<1>9. Copied'
  <2>1. ASSUME NEW q \in Reader
        PROVE  /\ Taken(report[q].stats)'
               /\ report'[q].timed_out \/ WorldNotBehind(report[q].stats, report[q].world)'
               /\ report'[q].timed_out \/ report'[q].shown = report'[q].world
               /\ \A f \in Tally : report'[q].shown[f] <= world'[f]
               /\ reader'[q].at = "world" =>
                    Taken(reader[q].stats)' /\ NotAhead(report[q].stats, reader[q].stats)'
    <3>1. CASE q = r
      <4>1. Taken(report[q].stats)'
        BY <1>3, <1>4, <1>7, <3>1 DEF Taken, NotAhead
      <4>2. report'[q].timed_out \/ WorldNotBehind(report[q].stats, report[q].world)'
        BY <1>3, <1>7, <1>8, <3>1 DEF WorldNotBehind
      <4>3. \A f \in Tally : report'[q].shown[f] <= world'[f]
        BY <1>3, <1>7, <3>1
      <4> QED BY <1>7, <3>1, <4>1, <4>2, <4>3
    <3>2. CASE q # r
      BY <1>3, <1>7, <3>2, CopiedOf DEF Taken, NotAhead, WorldNotBehind
    <3> QED BY <3>1, <3>2
  <2> QED BY <2>1 DEF Copied
<1> QED BY <1>2, <1>6, <1>9, TaskUntouched

LEMMA CopiesWorldKeeps == ASSUME RInv, NEW r \in Reader, copies_world(r) PROVE RInv'
<1> DEFINE late == FALSE
<1>1. late \in BOOLEAN /\ Publishes(r, world, late, world)
  BY DEF copies_world, Publishes
<1>2. world \in [Tally -> Nat] /\ \A f \in Tally : world[f] <= world[f]
  BY RxTyped DEF RInv
<1> HIDE DEF late
<1> QED BY <1>1, <1>2, PublishesKeeps

LEMMA GoesWithoutKeeps == ASSUME RInv, NEW r \in Reader, goes_without(r) PROVE RInv'
<1> DEFINE late == TRUE
           shown == report[r].shown
           w == NoWorld
<1>1. late \in BOOLEAN /\ Publishes(r, w, late, shown) /\ late
  BY DEF goes_without, Publishes
<1>2. /\ w \in [Tally -> Nat] /\ shown \in [Tally -> Nat]
      /\ \A f \in Tally : shown[f] <= world[f]
  BY CopiedOf DEF NoWorld
<1>3. late \/ (w = world /\ shown = world)
  BY <1>1
<1> HIDE DEF late, shown, w
<1> QED BY <1>1, <1>2, <1>3, PublishesKeeps

-----------------------------------------------------------------------------
LEMMA RInit == RxInit => RInv
<1> SUFFICES ASSUME RxInit PROVE RInv
  OBVIOUS
<1>1. /\ rx = [at |-> "receive", frame |-> NoFrame] /\ spin = "free"
      /\ s_stats = Zero /\ world = NoWorld /\ missed = NoCounts
      /\ reader = [r \in Reader |-> [at |-> "idle", stats |-> Zero]]
      /\ report = [r \in Reader |-> [stats |-> Zero, world |-> NoWorld, timed_out |-> FALSE,
                                     shown |-> NoWorld]]
  BY DEF RxInit
<1>2. /\ Zero \in [Counter -> Nat] /\ NoCounts \in [Feeds -> Nat]
      /\ NoWorld \in [Tally -> Nat] /\ \A k \in Tally : NoWorld[k] = 0
      /\ \A k \in Feeds : NoWorld[k] = 0
      /\ \A c \in MgmtName \cup CtrlName \cup DataName \cup Totals \cup OtherName : Zero[c] = 0
      /\ \A c \in Counter : Zero[c] = 0
      /\ \A k \in Feeds : NoCounts[k] = 0
  BY NamesCount DEF Zero, NoCounts, NoWorld, Tally
<1>3. /\ MgmtSum(Zero) = 0 /\ CtrlSum(Zero) = 0 /\ DataSum(Zero) = 0 /\ TypeSum(Zero) = 0
      /\ ApParsed(Zero) = 0 /\ Requests(Zero) = 0
  BY <1>2 DEF MgmtSum, CtrlSum, DataSum, TypeSum, ApParsed, Requests
<1>4. RxTypeOK
  BY <1>1, <1>2 DEF RxTypeOK
<1> HIDE DEF Zero
<1>5. ClassesAddUp(s_stats) /\ Progress
  BY <1>1, <1>2, <1>3 DEF ClassesAddUp, Progress, Counting, One
<1>6. Fed /\ KindOfPlace
  BY <1>1, <1>2, <1>3 DEF Fed, KindOfPlace, Waits, One, Feeds
<1>7. Taken(Zero)
  <2>1. AddsUp(Zero)
    BY <1>2, <1>3 DEF AddsUp
  <2>2. InHand(Zero) = [ap |-> 0, probe |-> 0, any |-> 0]
    <3>1. /\ Zero["beacon_count"] = 0 /\ Zero["probe_resp_count"] = 0
          /\ Zero["beacon_parse_errors"] = 0 /\ Zero["probe_req_count"] = 0
          /\ Zero["probe_req_parsed"] = 0 /\ Zero["probe_req_errors"] = 0
          /\ Zero["parser_total"] = 0 /\ Zero["rx_processed"] = 0
      BY <1>2
    <3> QED BY <3>1, <1>3 DEF InHand
  <2>3. BehindByOne(Zero)
    BY <1>2, <2>2 DEF BehindByOne
  <2>4. NotAhead(Zero, s_stats)
    BY <1>1, <1>2 DEF NotAhead
  <2> QED BY <2>1, <2>3, <2>4 DEF Taken
<1>8. WorldNotBehind(Zero, NoWorld)
  BY <1>1, <1>2, <1>3 DEF WorldNotBehind, Feeds
<1>9. Copied
  <2> SUFFICES ASSUME NEW r \in Reader
               PROVE  /\ Taken(report[r].stats)
                      /\ WorldNotBehind(report[r].stats, report[r].world)
                      /\ report[r].shown = report[r].world
                      /\ \A f \in Tally : report[r].shown[f] <= world[f]
                      /\ reader[r].at # "world"
    BY DEF Copied
  <2> QED BY <1>1, <1>2, <1>7, <1>8
<1> QED BY <1>4, <1>5, <1>6, <1>9 DEF RInv

LEMMA RNext == RInv /\ [RxNext]_rxVars => RInv'
<1> SUFFICES ASSUME RInv, [RxNext]_rxVars PROVE RInv'
  OBVIOUS
<1>1. CASE radio_rx_task
  BY <1>1, ReceiveKeeps, CountBeginsKeeps, CountedKeeps, RefuseKeeps, ObserveApKeeps,
     ObserveProbeKeeps, FeedKeeps, TickKeeps, ReleaseKeeps DEF radio_rx_task
<1>2. CASE \E r \in Reader : wifi_sniffer_get_stats(r)
  BY <1>2, CopiesStatsKeeps, CopiesWorldKeeps, GoesWithoutKeeps DEF wifi_sniffer_get_stats
<1>3. CASE UNCHANGED rxVars
  <2>1. UNCHANGED taskVars /\ reader' = reader /\ report' = report
    BY <1>3 DEF rxVars
  <2>2. UNCHANGED <<rx, spin, s_stats, world, missed>>
    BY <2>1 DEF taskVars
  <2>3. Copied'
    BY <2>1, <2>2 DEF RInv, Copied, Taken, NotAhead, WorldNotBehind
  <2> QED BY <2>1, <2>3, TaskUntouched DEF RInv, RxTypeOK
<1> QED BY <1>1, <1>2, <1>3 DEF RxNext

LEMMA RInvariant == RxSpec => []RInv
  BY RInit, RNext, PTL DEF RxSpec

\* With any number of readers and whatever frames come in, every report hangs
\* together: its counters are of one moment and add up, and the world it shows
\* is not older than they are, unless the mutex was not to be had
\* (wifi_sniffer_get_stats).
THEOREM ReportsAlwaysAddUp == RxSpec => []ReportsAddUp
<1>1. RInv => ReportsAddUp
  BY DEF RInv, Copied, Taken, ReportsAddUp
<1> QED BY <1>1, RInvariant, PTL

\* Every observation counted as parsed is given to the world model once or
\* dropped for want of its mutex (handle_ap_observation, handle_probe_request,
\* the feeds).
THEOREM FeedsAlwaysAccounted == RxSpec => []FeedsAccounted
<1>1. RInv => FeedsAccounted
  <2> SUFFICES ASSUME RInv PROVE FeedsAccounted
    OBVIOUS
  <2>1. RxTypeOK /\ Fed
    BY DEF RInv
  <2>2. /\ \A k \in Feeds : world[k] \in Nat /\ missed[k] \in Nat
        /\ \A k \in Feeds : Waits(k) \in {0, 1}
        /\ Requests(s_stats) \in Nat
        /\ s_stats["data_total"] \in Nat
    BY <2>1, RxTyped, NamesCount DEF Waits, One
  <2>3. /\ world["request"] + missed["request"] <= Requests(s_stats)
        /\ world["data"] + missed["data"] <= s_stats["data_total"]
    BY <2>1, <2>2 DEF Fed, Feeds
  <2> QED BY <2>1, <2>3 DEF FeedsAccounted, Fed, Waits, One, Requests
<1> QED BY <1>1, RInvariant, PTL

\* No counter of a reader's reports ever falls from one report to the next,
\* and no cumulative count of the world from a report that shows the world to
\* the next that does, whatever time-outs lie between (wifi_sniffer_get_stats:
\* it copies, it never resets).
THEOREM ReportsOnlyGrow == RxSpec => ReportsNeverGoBack
<1> DEFINE Grows ==
      \A r \in Reader :
         /\ \A c \in Counter : report'[r].stats[c] >= report[r].stats[c]
         /\ report'[r].timed_out \/
                \A f \in Tally : report'[r].world[f] >= report[r].shown[f]
<1>1. RInv /\ [RxNext]_rxVars => [Grows]_rxVars
  <2> SUFFICES ASSUME RInv, RxNext, NEW r \in Reader
               PROVE  /\ \A c \in Counter : report'[r].stats[c] >= report[r].stats[c]
                      /\ report'[r].timed_out \/
                             \A f \in Tally : report'[r].world[f] >= report[r].shown[f]
    OBVIOUS
  <2>1. /\ \A c \in Counter : report[r].stats[c] \in Nat /\ reader[r].stats[c] \in Nat
        /\ \A f \in Tally : report[r].shown[f] \in Nat /\ world[f] \in Nat
        /\ \A f \in Tally : report[r].shown[f] <= world[f]
        /\ report[r].timed_out \/ report[r].shown = report[r].world
        /\ reader[r].at = "world" => NotAhead(report[r].stats, reader[r].stats)
    BY CopiedOf, RxTyped DEF RInv
  <2>2. CASE report'[r] = report[r]
    BY <2>1, <2>2
  <2>3. CASE copies_world(r)
    <3>1. /\ reader[r].at = "world"
          /\ report'[r].stats = reader[r].stats /\ report'[r].world = world
      BY <2>3 DEF copies_world, RInv, RxTypeOK
    <3> QED BY <2>1, <3>1 DEF NotAhead
  <2>4. CASE goes_without(r)
    <3>1. /\ reader[r].at = "world"
          /\ report'[r].stats = reader[r].stats /\ report'[r].timed_out
      BY <2>4 DEF goes_without, RInv, RxTypeOK
    <3> QED BY <2>1, <3>1 DEF NotAhead
  <2>5. ASSUME ~copies_world(r), ~goes_without(r) PROVE report'[r] = report[r]
    <3>1. CASE radio_rx_task
      BY <3>1 DEF radio_rx_task, receive, count_begins, counted, refuse, observe_ap,
                  observe_probe, feed, world_tick, release
    <3>2. CASE \E q \in Reader : wifi_sniffer_get_stats(q)
      <4>1. PICK q \in Reader : wifi_sniffer_get_stats(q)
        BY <3>2
      <4>2. CASE copies_stats(q)
        BY <4>2 DEF copies_stats
      <4>3. CASE copies_world(q) \/ goes_without(q)
        <5>1. q # r
          BY <2>5, <4>3
        <5> QED BY <4>3, <5>1 DEF copies_world, goes_without, RInv, RxTypeOK
      <4> QED BY <4>1, <4>2, <4>3 DEF wifi_sniffer_get_stats
    <3> QED BY <3>1, <3>2 DEF RxNext
  <2> QED BY <2>2, <2>3, <2>4, <2>5
<1>2. ReportsNeverGoBack <=> [][Grows]_rxVars
  BY DEF ReportsNeverGoBack
<1> QED BY <1>1, <1>2, RInvariant, PTL DEF RxSpec

=============================================================================
