------------------------------ MODULE ObsCache ------------------------------
(***************************************************************************)
(* The dedup cache of access points (obs_cache.c), what its caller,        *)
(* handle_ap_observation in wifi_sniffer.c, publishes of it in s_stats --  *)
(* the counters of the cache and the "last AP" context of the screen --,   *)
(* the dedup cache of probe requests behind handle_probe_request, and the  *)
(* rate limit on the lines both handlers log.                              *)
(*                                                                         *)
(* One task touches all of it; what is hard is the policy over long        *)
(* sequences of observations: merging what silent frames do not tell,      *)
(* evicting in the order of insertion while the cursors and the counters   *)
(* wrap, skipping what did not parse completely, and keeping the console   *)
(* readable when more is about than the caches hold.                       *)
(***************************************************************************)
EXTENDS Integers, Sequences, FiniteSets

CONSTANTS
    Mac,            \* BSSIDs
    NoMac,          \* no address
    Ssid, Channel,
    Sec,            \* coarse security classes
    CACHE_SIZE,     \* OBS_AP_CACHE_SIZE                                  (32)
    Source,         \* the addresses that probe
    NoSource,       \* no address
    ProbedSsid,     \* the names they probe for, the empty one among them
    PROBE_CACHE_SIZE, \* RADIO_PROBE_CACHE_SIZE                           (16)
    CursorMod,      \* the width of both insert cursors                  (2^8)
    CounterMod,     \* the width of a counter                           (2^32)
    INTERVAL,       \* RADIO_OBS_LOG_MIN_INTERVAL_MS                  (200 ms)
    TickMod         \* the width of the tick counter                    (2^32)

NoSsid == "hidden"

Index == 0..(CACHE_SIZE - 1)
ProbeIndex == 0..(PROBE_CACHE_SIZE - 1)

ASSUME SizeAssumption ==
    /\ CACHE_SIZE \in Nat \ {0} /\ CounterMod \in Nat \ {0}
    /\ PROBE_CACHE_SIZE \in Nat \ {0} /\ CursorMod \in Nat \ {0}
    /\ CursorMod % CACHE_SIZE = 0 /\ CursorMod % PROBE_CACHE_SIZE = 0
ASSUME TickAssumption == INTERVAL \in Nat /\ TickMod \in Nat /\ INTERVAL < TickMod
ASSUME ValueAssumption ==
    /\ NoMac \notin Mac /\ NoSsid \notin Ssid /\ Channel \subseteq Nat \ {0}
    /\ NoSource \notin Source /\ ProbedSsid # {}

(* A parsed beacon or probe response. *)
Observation == [bssid : Mac, complete : BOOLEAN, ssid : Ssid \cup {NoSsid},
                channel : Channel \cup {0}, sec : Sec]

Entry == [bssid : Mac \cup {NoMac}, ssid : Ssid \cup {NoSsid},
          channel : Channel \cup {0}, sec : Sec \cup {"none"}]

Empty == [bssid |-> NoMac, ssid |-> NoSsid, channel |-> 0, sec |-> "none"]

(* A parsed probe request; an entry of the probe cache is one, or NoProbe. *)
Probe == [src : Source, ssid : ProbedSsid]
NoProbe == [src |-> NoSource, ssid |-> CHOOSE n \in ProbedSsid : TRUE]

VARIABLES
    entries,      \* obs_ap_cache_t.entries; an unused one is Empty
    next,         \* its insert cursor
    probes,       \* s_probe_cache
    probe_next,   \* s_probe_cache_next
    counts,       \* its inserts, updates and evictions
    stats,        \* s_stats: the same counters as last published, occupied
    last,         \* s_stats.last_ssid and last_ap_rssi: the AP that named
                  \* itself last, and the AP whose signal is shown
    tick,         \* xTaskGetTickCount()
    last_tick,    \* s_last_obs_log_tick
    order,        \* history: the cached BSSIDs, oldest insertion first
    asked,        \* history: the cached sources, oldest insertion first, and
                  \* the name each asked for last
    lines         \* history: the parity of the lines logged so far, and the
                  \* ticks since the last one, INTERVAL standing for more
cacheVars == <<entries, next, counts, stats, last, order>>
probeVars == <<probes, probe_next, asked>>
vars == <<cacheVars, probeVars, tick, last_tick, lines>>

-----------------------------------------------------------------------------
(* The rate limit on log lines.  Tick arithmetic is unsigned. *)

\* Faulty variant of obs_log_rate_ok: the sum wraps instead of the difference.
rate_ok_by_deadline == tick >= (last_tick + INTERVAL) % TickMod

obs_log_rate_ok == (tick - last_tick) % TickMod >= INTERVAL

\* A wish to log a line; it is forgotten when the limit is hit.
LogLine(wanted) ==
    IF wanted /\ obs_log_rate_ok
    THEN last_tick' = tick /\ lines' = [parity |-> 1 - lines.parity, age |-> 0]
    ELSE UNCHANGED <<last_tick, lines>>

-----------------------------------------------------------------------------
(* The cache *)

Used(e) == e.bssid # NoMac
Occupied == {i \in Index : Used(entries[i])}
Cached(b) == {i \in Index : entries[i].bssid = b}

\* Faulty variant of Merged: a hidden name is taken for a name.
MergedSilent(e, o) ==
    [e EXCEPT !.ssid = o.ssid,
              !.channel = IF o.channel # 0 THEN o.channel ELSE @,
              !.sec = o.sec]

\* The cached entry with what the observation adds: silence keeps the name
\* and the channel, the security class is always taken over.
Merged(e, o) ==
    [e EXCEPT !.ssid = IF o.ssid # NoSsid THEN o.ssid ELSE @,
              !.channel = IF o.channel # 0 THEN o.channel ELSE @,
              !.sec = o.sec]

Bump(S) == [c \in DOMAIN counts |->
              IF c \in S THEN (counts[c] + 1) % CounterMod ELSE counts[c]]

\* Every observation that is not skipped publishes the counters as they are
\* after it, and the number of used entries; it always refreshes the signal
\* shown, and the name shown only when it has one.
Publish(o) ==
    /\ stats' = [counts |-> counts',
                 occupied |-> Cardinality({i \in Index : Used(entries'[i])})]
    /\ last' = [named |-> IF o.ssid # NoSsid THEN o.bssid ELSE last.named,
                signal |-> o.bssid]

\* An incomplete observation leaves cache and context alone.
skip_incomplete(o) ==
    /\ ~o.complete
    /\ UNCHANGED vars

update_known(o) ==
    /\ o.complete
    /\ \E i \in Cached(o.bssid) :
          /\ entries' = [entries EXCEPT ![i] = Merged(@, o)]
          /\ LET changed == Merged(entries[i], o) # entries[i]
             IN /\ counts' = IF changed THEN Bump({"updates"}) ELSE counts
                /\ LogLine(changed)
    /\ Publish(o)
    /\ UNCHANGED <<next, order, probeVars, tick>>

\* Faulty variant of Slot: slot 0 is never reused.
SlotAfterFirst(cursor, size) == IF cursor < size THEN cursor
                                ELSE 1 + (cursor % (size - 1))

\* Where a cursor points to in a cache of some size.
Slot(cursor, size) == cursor % size

\* Faulty variant of insert_new: any observation of a full cache evicts.
insert_duplicate(o) ==
    /\ o.complete
    /\ LET slot == Slot(next, CACHE_SIZE)
           evicted == Used(entries[slot])
       IN /\ entries' = [entries EXCEPT ![slot] =
                           [bssid |-> o.bssid, ssid |-> o.ssid,
                            channel |-> o.channel, sec |-> o.sec]]
          /\ counts' = Bump({"inserts"} \cup IF evicted THEN {"evictions"} ELSE {})
          /\ order' = Append(IF evicted THEN Tail(order) ELSE order, o.bssid)
    /\ next' = (next + 1) % CursorMod
    /\ Publish(o)
    /\ LogLine(TRUE)
    /\ UNCHANGED <<probeVars, tick>>

insert_new(o) ==
    /\ o.complete /\ Cached(o.bssid) = {}
    /\ LET slot == Slot(next, CACHE_SIZE)
           evicted == Used(entries[slot])
       IN /\ entries' = [entries EXCEPT ![slot] =
                           [bssid |-> o.bssid, ssid |-> o.ssid,
                            channel |-> o.channel, sec |-> o.sec]]
          /\ counts' = Bump({"inserts"} \cup IF evicted THEN {"evictions"} ELSE {})
          /\ order' = Append(IF evicted THEN Tail(order) ELSE order, o.bssid)
    /\ next' = (next + 1) % CursorMod
    /\ Publish(o)
    /\ LogLine(TRUE)
    /\ UNCHANGED <<probeVars, tick>>

handle_ap_observation(o) == skip_incomplete(o) \/ update_known(o) \/ insert_new(o)

-----------------------------------------------------------------------------
(* Probe requests.  The line of a probe may be dropped by the limit although *)
(* the cache remembers the probe.                                          *)

Of(src) == {i \in ProbeIndex : probes[i].src = src}
Asks(p) == [asked.name EXCEPT ![p.src] = p.ssid]

\* probe_cache_update returns false: the source repeats itself.
probe_again(p) ==
    /\ \E i \in Of(p.src) : probes[i] = p
    /\ asked' = [asked EXCEPT !.name = Asks(p)]
    /\ UNCHANGED <<cacheVars, probes, probe_next, tick, last_tick, lines>>

probe_other_name(p) ==
    /\ \E i \in Of(p.src) : probes[i] # p /\ probes' = [probes EXCEPT ![i] = p]
    /\ asked' = [asked EXCEPT !.name = Asks(p)]
    /\ LogLine(TRUE)
    /\ UNCHANGED <<cacheVars, probe_next, tick>>

probe_new_source(p) ==
    /\ Of(p.src) = {}
    /\ LET slot == Slot(probe_next, PROBE_CACHE_SIZE)
           kept == IF probes[slot] = NoProbe THEN asked.order ELSE Tail(asked.order)
       IN /\ probes' = [probes EXCEPT ![slot] = p]
          /\ asked' = [name |-> Asks(p), order |-> Append(kept, p.src)]
    /\ probe_next' = (probe_next + 1) % CursorMod
    /\ LogLine(TRUE)
    /\ UNCHANGED <<cacheVars, tick>>

handle_probe_request(p) == probe_again(p) \/ probe_other_name(p) \/ probe_new_source(p)

Clock ==
    /\ tick' = (tick + 1) % TickMod
    /\ lines' = [lines EXCEPT !.age = IF @ < INTERVAL THEN @ + 1 ELSE @]
    /\ UNCHANGED <<cacheVars, probeVars, last_tick>>

-----------------------------------------------------------------------------
NoCounts == [inserts |-> 0, updates |-> 0, evictions |-> 0]

Init ==
    /\ entries = [i \in Index |-> Empty] /\ next = 0
    /\ counts = NoCounts
    /\ stats = [counts |-> NoCounts, occupied |-> 0]
    /\ last = [named |-> NoMac, signal |-> NoMac]
    /\ tick = 0 /\ last_tick = 0
    /\ order = <<>>
    /\ probes = [i \in ProbeIndex |-> NoProbe] /\ probe_next = 0
    /\ asked = [name |-> [m \in Source |-> NoProbe.ssid], order |-> <<>>]
    /\ lines = [parity |-> 0, age |-> INTERVAL]

Next == \/ \E o \in Observation : handle_ap_observation(o)
        \/ \E p \in Probe : handle_probe_request(p)
        \/ Clock

Spec == Init /\ [][Next]_vars

-----------------------------------------------------------------------------
Counts == [{"inserts", "updates", "evictions"} -> 0..(CounterMod - 1)]

\* Every variable has its type.
TypeOK ==
    /\ entries \in [Index -> Entry] /\ next \in 0..(CursorMod - 1)
    /\ counts \in Counts
    /\ stats \in [counts : Counts, occupied : 0..CACHE_SIZE]
    /\ last \in [named : Mac \cup {NoMac}, signal : Mac \cup {NoMac}]
    /\ probes \in [ProbeIndex -> Probe \cup {NoProbe}]
    /\ probe_next \in 0..(CursorMod - 1)
    /\ asked.name \in [Source -> ProbedSsid]
    /\ tick \in 0..(TickMod - 1) /\ last_tick \in 0..(TickMod - 1)

UsedProbes == {i \in ProbeIndex : probes[i] # NoProbe}

\* No BSSID has two entries, and the published occupancy is what was inserted
\* less what was evicted, even after the counters wrap (obs_cache.h).  No
\* source has two entries either, and its entry holds the name it asked for
\* last: only an immediate repetition is kept from the log (probe_cache_update).
CacheAccounted ==
    /\ TypeOK
    /\ \A i, k \in Occupied : entries[i].bssid = entries[k].bssid => i = k
    /\ stats.occupied = Cardinality(Occupied)
    /\ (stats.counts.inserts - stats.counts.evictions - stats.occupied) % CounterMod = 0
    /\ \A i \in UsedProbes : /\ Of(probes[i].src) = {i}
                             /\ probes[i].ssid = asked.name[probes[i].src]

\* In a cache of some size with n used entries, the slot of the k-th oldest.
Place(cursor, size, n, k) == (cursor + size - n + k - 1) % size

\* A full cache evicts the oldest insertion, and a cache that is not full
\* evicts nothing, also across a wrap of the cursor: the slots hold, up to
\* the cursor, the live addresses in the order of their insertion.
OldestGoesFirst ==
    LET n == Len(order) m == Len(asked.order)
    IN /\ n = Cardinality(Occupied)
       /\ \A k \in 1..n : entries[Place(next, CACHE_SIZE, n, k)].bssid = order[k]
       /\ m = Cardinality(UsedProbes)
       /\ \A k \in 1..m :
            probes[Place(probe_next, PROBE_CACHE_SIZE, m, k)].src = asked.order[k]

\* What the cache knows of an AP is never lost while the AP stays cached: a
\* hidden name does not erase a name nor silence a channel; and `updates`
\* moves exactly when some entry of a known AP changed (obs_cache.c).
KnowledgeKept ==
    [][/\ \A i \in Occupied :
             LET e == entries[i] n == entries'[i]
             IN n.bssid = e.bssid =>
                  /\ e.ssid # NoSsid => n.ssid # NoSsid
                  /\ e.channel # 0 => n.channel # 0
       /\ counts'.updates # counts.updates <=>
             \E i \in Occupied : /\ entries'[i].bssid = entries[i].bssid
                                 /\ entries'[i] # entries[i]]_vars

\* The console gets at most one line per interval, whichever handler asks
\* and wherever the tick counter wraps (obs_log_rate_ok).
LinesSpaced == [][lines'.parity # lines.parity => lines.age >= INTERVAL]_vars

=============================================================================
