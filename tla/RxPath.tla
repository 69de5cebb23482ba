------------------------------- MODULE RxPath -------------------------------
(***************************************************************************)
(* The receive path of components/radio: the promiscuous callback, which   *)
(* runs in the Wi-Fi driver's task, takes a slot from a fixed pool, copies *)
(* the frame and queues it; radio_rx_task consumes and releases it.        *)
(*                                                                         *)
(* The two sides share the pool, the queue and a block of counters.  Each  *)
(* queue operation and each critical section is atomic, and nothing else:  *)
(* every action below is one of them, so a task may be preempted between   *)
(* any two.  The copy into a slot touches memory nobody else may look at   *)
(* (SlotsConserved) and is done with the push.                             *)
(***************************************************************************)
EXTENDS Integers, Sequences, FiniteSets

CONSTANTS
    Slot,           \* the packet pool          (RADIO_PACKET_POOL_SIZE = 24)
    QUEUE_SIZE,     \* capacity of the consumer queue                    (24)
    MAX_LEN,        \* RADIO_PACKET_MAX_LEN                             (512)
    Frame,          \* the frames the driver delivers
    CounterMod,     \* the width of a counter                          (2^32)
    MaxFrames,      \* bound on the number of frames delivered
    NoSlot          \* the NULL pointer

FCS == 4            \* bytes of frame check sequence counted in sig_len

FrameType == {"mgmt", "ctrl", "data", "misc"}

ASSUME PoolAssumption == /\ IsFiniteSet(Slot) /\ Slot # {} /\ NoSlot \notin Slot
                         /\ QUEUE_SIZE \in Nat \ {0}
ASSUME FrameAssumption ==
    /\ MAX_LEN \in Nat
    /\ Frame \subseteq [type : FrameType, clean : BOOLEAN, sig_len : Nat]
ASSUME BoundAssumption == MaxFrames \in Nat
\* A counter can hold more than the pool: 2^32 against 24.
ASSUME WidthAssumption == CounterMod \in Nat /\ CounterMod > Cardinality(Slot) + 1

\* What the callback leaves in a slot; `seq` tells the frames apart.
Packet == [seq : Nat, orig_length : Nat, length : Nat]

Blank == [seq |-> 0, orig_length |-> 0, length |-> 0]

CounterName == {"rx_total", "rx_queued", "rx_processed", "rx_dropped_pool",
                "rx_dropped_queue", "rx_truncated", "rx_state_errors", "rx_misc",
                "rx_no_payload", "rx_management", "rx_data", "rx_control",
                "queue_current", "queue_peak"}

VARIABLES
    free,       \* s_free_queue; which free slot comes first is immaterial
    rxq,        \* s_rx_queue, oldest first
    packet,     \* s_packet_pool
    cb,         \* the callback: its place, its frame and its slot
    task,       \* radio_rx_task: its place and its slot
    stats,      \* s_rx_stats
    arrivals    \* frames delivered so far
vars == <<free, rxq, packet, cb, task, stats, arrivals>>

-----------------------------------------------------------------------------
Inc(n) == IF n = CounterMod - 1 THEN 0 ELSE n + 1
Dec(n) == IF n = 0 THEN CounterMod - 1 ELSE n - 1

\* Adds one to every counter of S.
Bump(S) == [c \in CounterName |-> IF c \in S THEN Inc(stats[c]) ELSE stats[c]]

TypeCounter == [mgmt |-> "rx_management", ctrl |-> "rx_control",
                data |-> "rx_data", misc |-> "rx_misc"]

Least(m, n) == IF m <= n THEN m ELSE n

\* The adapter vouches for sig_len payload bytes of a whitelisted frame.
CopyLength(f) == Least(f.sig_len, MAX_LEN)

rx_path_parse_length(p) ==
    IF p.orig_length >= FCS THEN Least(p.length, p.orig_length - FCS) ELSE p.length

rx_path_body_truncated(p) ==
    p.orig_length >= FCS /\ p.length < p.orig_length - FCS

Queued == {rxq[i] : i \in 1..Len(rxq)}

-----------------------------------------------------------------------------
(* The callback: rx_path_on_frame behind promiscuous_rx_cb *)

Idle == [at |-> "idle", slot |-> NoSlot,
         frame |-> [type |-> "misc", clean |-> TRUE, sig_len |-> 0]]

frame_arrives(f) ==
    /\ cb.at = "idle" /\ arrivals < MaxFrames
    /\ arrivals' = arrivals + 1
    /\ stats' = Bump({"rx_total"})
    /\ cb' = [at |-> "typing", slot |-> NoSlot, frame |-> f]
    /\ UNCHANGED <<free, rxq, packet, task>>

\* The whitelist: MISC is counted and never looked at again.
count_type ==
    /\ cb.at = "typing"
    /\ stats' = Bump({TypeCounter[cb.frame.type]})
    /\ cb' = IF cb.frame.type = "misc" THEN Idle ELSE [cb EXCEPT !.at = "gate"]
    /\ UNCHANGED <<free, rxq, packet, task, arrivals>>

reject_state ==
    /\ cb.at = "gate" /\ ~cb.frame.clean
    /\ stats' = Bump({"rx_state_errors"})
    /\ cb' = Idle
    /\ UNCHANGED <<free, rxq, packet, task, arrivals>>

slot_alloc ==
    /\ cb.at = "gate" /\ cb.frame.clean
    /\ \E s \in free :
          /\ free' = free \ {s}
          /\ cb' = [cb EXCEPT !.at = "filling", !.slot = s]
    /\ UNCHANGED <<rxq, packet, task, stats, arrivals>>

\* The failed pop, and the counter that follows it.
pool_empty ==
    /\ cb.at = "gate" /\ cb.frame.clean /\ free = {}
    /\ stats' = Bump({"rx_dropped_pool"})
    /\ cb' = Idle
    /\ UNCHANGED <<free, rxq, packet, task, arrivals>>

Filled == [packet EXCEPT ![cb.slot] =
              [seq |-> arrivals, orig_length |-> cb.frame.sig_len,
               length |-> CopyLength(cb.frame)]]

\* From here on the slot belongs to the consumer, counted or not.
rx_push ==
    /\ cb.at = "filling" /\ Len(rxq) < QUEUE_SIZE
    /\ packet' = Filled
    /\ rxq' = Append(rxq, cb.slot)
    /\ cb' = [cb EXCEPT !.at = "counting", !.slot = NoSlot]
    /\ UNCHANGED <<free, task, stats, arrivals>>

\* Faulty variant of push_fails: the slot is forgotten.
push_fails_leaking ==
    /\ cb.at = "filling" /\ Len(rxq) >= QUEUE_SIZE
    /\ packet' = Filled
    /\ cb' = [cb EXCEPT !.at = "dropping", !.slot = NoSlot]
    /\ UNCHANGED <<free, rxq, task, stats, arrivals>>

push_fails ==
    /\ cb.at = "filling" /\ Len(rxq) >= QUEUE_SIZE
    /\ packet' = Filled
    /\ free' = free \cup {cb.slot}
    /\ cb' = [cb EXCEPT !.at = "dropping", !.slot = NoSlot]
    /\ UNCHANGED <<rxq, task, stats, arrivals>>

count_dropped ==
    /\ cb.at = "dropping"
    /\ stats' = Bump({"rx_dropped_queue"})
    /\ cb' = Idle
    /\ UNCHANGED <<free, rxq, packet, task, arrivals>>

\* Faulty variant of count_queued: only frames that fit count as queued.
count_queued_untruncated ==
    /\ cb.at = "counting"
    /\ LET long == cb.frame.sig_len > MAX_LEN
       IN stats' = Bump({IF long THEN "rx_truncated" ELSE "rx_queued", "queue_current"})
    /\ cb' = Idle
    /\ UNCHANGED <<free, rxq, packet, task, arrivals>>

\* One critical section, after the push: the consumer may already have
\* released the slot, so queue_current may come back from below zero here.
count_queued ==
    /\ cb.at = "counting"
    /\ LET f == cb.frame
           current == Inc(stats["queue_current"])
           base == Bump({"rx_queued", "queue_current"}
                         \cup (IF f.sig_len > MAX_LEN THEN {"rx_truncated"} ELSE {})
                         \cup (IF CopyLength(f) = 0 THEN {"rx_no_payload"} ELSE {}))
       IN stats' = [base EXCEPT !["queue_peak"] =
                        IF current > stats["queue_peak"] THEN current ELSE @]
    /\ cb' = Idle
    /\ UNCHANGED <<free, rxq, packet, task, arrivals>>

-----------------------------------------------------------------------------
(* The consumer: radio_rx_task *)

Waiting == [at |-> "waiting", slot |-> NoSlot]

rx_take ==
    /\ task.at = "waiting" /\ rxq # <<>>
    /\ task' = [at |-> "parsing", slot |-> Head(rxq)]
    /\ rxq' = Tail(rxq)
    /\ UNCHANGED <<free, packet, cb, stats, arrivals>>

\* Faulty variant of release_counted: the slot goes back before the counter.
release_uncounted ==
    /\ task.at = "parsing"
    /\ free' = free \cup {task.slot}
    /\ task' = [at |-> "releasing", slot |-> NoSlot]
    /\ UNCHANGED <<rxq, packet, cb, stats, arrivals>>

\* Faulty variant of release_counted: some frames are never released.
release_forgotten ==
    /\ task.at = "parsing"
    /\ IF packet[task.slot].length = 0
       THEN task' = Waiting /\ stats' = stats
       ELSE task' = [task EXCEPT !.at = "releasing"] /\ stats' = Bump({"rx_processed"})
    /\ UNCHANGED <<free, rxq, packet, cb, arrivals>>

\* rx_path_slot_release after the last read: first the counters, ...
release_counted ==
    /\ task.at = "parsing"
    /\ stats' = [Bump({"rx_processed"}) EXCEPT !["queue_current"] = Dec(@)]
    /\ task' = [task EXCEPT !.at = "releasing"]
    /\ UNCHANGED <<free, rxq, packet, cb, arrivals>>

\* ... then the slot.
slot_return ==
    /\ task.at = "releasing"
    /\ free' = free \cup {task.slot}
    /\ task' = Waiting
    /\ UNCHANGED <<rxq, packet, cb, stats, arrivals>>

-----------------------------------------------------------------------------
Init ==
    /\ free = Slot /\ rxq = <<>>
    /\ packet = [s \in Slot |-> Blank]
    /\ cb = Idle /\ task = Waiting
    /\ stats = [c \in CounterName |-> 0]
    /\ arrivals = 0

Callback == \/ count_type \/ reject_state \/ slot_alloc \/ pool_empty
            \/ rx_push \/ push_fails \/ count_dropped \/ count_queued

Consumer == rx_take \/ release_counted \/ slot_return

Done == arrivals = MaxFrames /\ cb = Idle /\ task = Waiting /\ rxq = <<>>
        /\ UNCHANGED vars

Next == (\E f \in Frame : frame_arrives(f)) \/ Callback \/ Consumer \/ Done

\* The driver finishes a callback it has begun, and the consumer, the
\* highest-priority task of the firmware, runs whenever it has work; nothing
\* makes frames arrive.
Spec == Init /\ [][Next]_vars /\ WF_vars(Callback) /\ WF_vars(Consumer)

-----------------------------------------------------------------------------
(* Invariants *)

\* Every slot index, queue entry, packet and counter of the capture path keeps
\* the type the C declarations give it, and only a callback that is filling a
\* packet holds a slot.
TypeOK ==
    /\ free \subseteq Slot /\ rxq \in Seq(Slot)
    /\ packet \in [Slot -> Packet]
    /\ cb \in [at : {"idle", "typing", "gate", "filling", "counting", "dropping"},
               slot : Slot \cup {NoSlot}, frame : Frame \cup {Idle.frame}]
    /\ cb.at = "filling" <=> cb.slot # NoSlot
    /\ task \in [at : {"waiting", "parsing", "releasing"}, slot : Slot \cup {NoSlot}]
    /\ task.at = "waiting" <=> task.slot = NoSlot
    /\ stats \in [CounterName -> 0..(CounterMod - 1)]
    /\ arrivals \in 0..MaxFrames

\* Every slot is, at every instant of both tasks, in exactly one place: free,
\* being filled by the callback, queued once, or held by the consumer.  No
\* path through rx_path_on_frame or the consumer leaks or doubles one.
SlotsConserved ==
    /\ \A s \in Slot :
          \/ s \in free     /\ s \notin Queued /\ cb.slot # s /\ task.slot # s
          \/ s \notin free  /\ s \in Queued    /\ cb.slot # s /\ task.slot # s
          \/ s \notin free  /\ s \notin Queued /\ cb.slot = s /\ task.slot # s
          \/ s \notin free  /\ s \notin Queued /\ cb.slot # s /\ task.slot = s
    /\ \A i, k \in 1..Len(rxq) : rxq[i] = rxq[k] => i = k

\* Frames queued or being parsed, less the one queued and not yet counted.
Occupancy == Len(rxq) + (IF task.at = "parsing" THEN 1 ELSE 0)
                      - (IF cb.at = "counting" THEN 1 ELSE 0)

\* queue_current is the number of frames queued or being parsed, although it
\* wraps below zero when the consumer overtakes the callback, and that
\* excursion never reaches queue_peak, which stays within the pool.
OccupancyExact ==
    /\ stats["queue_current"] =
          IF Occupancy < 0 THEN Occupancy + CounterMod ELSE Occupancy
    /\ stats["queue_peak"] <= Cardinality(Slot)

Typed   == stats["rx_management"] + stats["rx_control"] + stats["rx_data"]
              + stats["rx_misc"]
Settled == stats["rx_state_errors"] + stats["rx_misc"] + stats["rx_dropped_pool"]
              + stats["rx_dropped_queue"] + stats["rx_queued"]
Same(m, n) == (m - n) % CounterMod = 0

\* The accounting identity of rx_path.h, with the frame in the callback's
\* hands: every frame ever delivered has exactly one outcome, is counted
\* under one type, and every queued frame is processed or still in the queue.
FramesAccounted ==
    /\ Same(stats["rx_total"], Typed + IF cb.at = "typing" THEN 1 ELSE 0)
    /\ Same(stats["rx_total"], Settled + IF cb.at = "idle" THEN 0 ELSE 1)
    /\ Same(stats["rx_queued"], stats["rx_processed"] + stats["queue_current"])

\* Frames reach the parser in the order in which they were received: what
\* the consumer holds is older than what is queued, and the queue is sorted.
FramesInOrder ==
    LET held == IF task.slot = NoSlot THEN <<>> ELSE <<task.slot>>
        line == held \o rxq
    IN \A i, k \in 1..Len(line) : i < k => packet[line[i]].seq < packet[line[k]].seq

\* The parser is handed the MAC body and only that: all captured bytes but
\* the FCS, and the frame is reported cut exactly when body bytes are missing.
BodyOnly ==
    task.at = "parsing" =>
        LET p == packet[task.slot]
            body == p.orig_length - FCS
        IN /\ rx_path_parse_length(p) <= p.length
           /\ p.orig_length >= FCS =>
                /\ rx_path_parse_length(p) <= body
                /\ rx_path_body_truncated(p) <=> rx_path_parse_length(p) < body

\* Between the push and the return of its slot a frame is never overwritten,
\* so the consumer parses what the callback copied.
NeverOverwritten ==
    [][\A s \in Slot : s \in Queued \/ task.slot = s => packet'[s] = packet[s]]_vars

\* A frame that was queued is parsed and its slot comes back to the pool.
SlotsReturn == \A s \in Slot : s \in Queued ~> s \in free

=============================================================================
