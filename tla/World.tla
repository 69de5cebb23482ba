------------------------------- MODULE World -------------------------------
(***************************************************************************)
(* The world model of components/world/world.c: a fixed table of access    *)
(* points, a fixed table of stations and one observed AP per station.      *)
(*                                                                         *)
(* The C functions all work on a `world_t *w`; here the variable `world`   *)
(* is that structure and every helper is an operator from a world value to *)
(* a world value, so that a handler is the composition of the helpers it   *)
(* calls, in the order it calls them.  Slots are numbered from 1, as       *)
(* `rel_ap` numbers them (0 = none).                                       *)
(***************************************************************************)
EXTENDS Integers, FiniteSets, FiniteSetsExt

CONSTANTS
    Mac,             \* unicast, non-zero addresses (of APs and of stations)
    NonUnicast,      \* any group or zero address; also "no address yet"
    AP_MAX, STA_MAX, \* table sizes                       (64, 128)
    AP_TTL, STA_TTL, REL_TTL, \* expiry, in ticks         (120, 120, 60 s)
    Ssid,            \* the non-empty network names
    Suite,           \* the contents of a valid RSN or WPA element
    Channel,         \* the legal advertised channels
    Obs,             \* the AP observations the parser delivers
    Tracked,         \* the statistics this instance keeps
    CounterMod,      \* the width of a statistic           (2^32)
    SatMax,          \* where per-record counters saturate (UINT16_MAX)
    MaxTime,         \* bound on the clock
    ClockMayRegress  \* may a caller pass an older now_ms?

NONE     == 0        \* evidence strengths, weakest first
DOWNLINK == 1
UPLINK   == 2

NoSsid  == "hidden"
NoSuite == "none"    \* no valid suite stored
Absent  == "absent"  \* element not seen in the frame
Broken  == "broken"  \* element seen, contents not valid

ApSlot  == 1..AP_MAX
StaSlot == 1..STA_MAX
Times   == 0..MaxTime
Address == Mac \cup {NonUnicast}

StatName == {"ap_created", "ap_expired", "ap_evicted", "ap_rejected",
             "sta_created", "sta_expired", "sta_evicted", "sta_rejected",
             "rel_formed", "rel_expired", "rel_switched", "rel_conflicts",
             "data_ambiguous", "data_wds", "data_short",
             "obs_stale", "obs_invalid", "maint_runs"}

(* A parsed beacon or probe response.  Contract of the parser: a complete  *)
(* observation never carries an element whose contents were not valid.     *)
Observation ==
    [beacon : BOOLEAN, complete : BOOLEAN, ssid : Ssid \cup {NoSsid},
     rsn : Suite \cup {Absent, Broken}, wpa : Suite \cup {Absent, Broken},
     privacy : BOOLEAN, channel : Channel \cup {0}]

ASSUME TableAssumption == AP_MAX \in Nat \ {0} /\ STA_MAX \in Nat \ {0}
ASSUME TimeAssumption  == /\ AP_TTL \in Nat /\ STA_TTL \in Nat /\ REL_TTL \in Nat
                          /\ MaxTime \in Nat /\ ClockMayRegress \in BOOLEAN
ASSUME CounterAssumption == /\ Tracked \subseteq StatName
                            /\ CounterMod \in Nat \ {0} /\ SatMax \in Nat
ASSUME AddressAssumption == NonUnicast \notin Mac
ASSUME SuiteAssumption == Suite \cap {NoSuite, Absent, Broken} = {}
ASSUME ChannelAssumption == Channel \subseteq Nat \ {0}
ASSUME ObsAssumption ==
    /\ Obs \subseteq Observation
    /\ \A o \in Obs : o.complete => o.rsn # Broken /\ o.wpa # Broken

VARIABLES world, now
vars == <<world, now>>

-----------------------------------------------------------------------------
(* Records.  `rssi` stands for the signal level by naming the transmitter  *)
(* it was measured from; NonUnicast means rssi_valid is false.             *)

Security == [rsn : Suite \cup {NoSuite}, wpa : Suite \cup {NoSuite},
             privacy : BOOLEAN,
             state : {"unknown", "known", "legacy_privacy", "open"}]

ApRecord ==
    [used : BOOLEAN, bssid : Address, last_seen : Times, station_count : Nat,
     provisional : BOOLEAN, rssi : Address, ssid : Ssid \cup {NoSsid},
     channel : Channel \cup {0}, sec : Security,
     beacon_count : 0..SatMax, probe_resp_count : 0..SatMax,
     data_up_count : 0..SatMax, data_down_count : 0..SatMax]

StaRecord ==
    [used : BOOLEAN, mac : Address, last_observed : Times, rssi : Address,
     rel_ap : 0..AP_MAX, rel_evidence : {NONE, DOWNLINK, UPLINK},
     rel_last : Times, tx_count : 0..SatMax, probe_count : 0..SatMax,
     dl_count : 0..SatMax]

WorldType ==
    [ap : [ApSlot -> ApRecord], sta : [StaSlot -> StaRecord],
     ap_used : Nat, sta_used : Nat, rel_used : Nat,
     stats : [Tracked -> 0..(CounterMod - 1)]]

ZeroSecurity == [rsn |-> NoSuite, wpa |-> NoSuite, privacy |-> FALSE,
                 state |-> "unknown"]

ZeroAp ==
    [used |-> FALSE, bssid |-> NonUnicast, last_seen |-> 0,
     station_count |-> 0, provisional |-> FALSE, rssi |-> NonUnicast,
     ssid |-> NoSsid, channel |-> 0, sec |-> ZeroSecurity,
     beacon_count |-> 0, probe_resp_count |-> 0,
     data_up_count |-> 0, data_down_count |-> 0]

ZeroSta ==
    [used |-> FALSE, mac |-> NonUnicast, last_observed |-> 0,
     rssi |-> NonUnicast, rel_ap |-> 0, rel_evidence |-> NONE, rel_last |-> 0,
     tx_count |-> 0, probe_count |-> 0, dl_count |-> 0]

world_init ==
    [ap |-> [i \in ApSlot |-> ZeroAp], sta |-> [j \in StaSlot |-> ZeroSta],
     ap_used |-> 0, sta_used |-> 0, rel_used |-> 0,
     stats |-> [c \in Tracked |-> 0]]

-----------------------------------------------------------------------------
(* Helpers *)

SatInc(n) == IF n < SatMax THEN n + 1 ELSE n

\* Adds n to the statistic c, which wraps at its width.
CountN(w, c, n) ==
    [w EXCEPT !.stats = [k \in Tracked |->
        IF k = c THEN (w.stats[k] + n) % CounterMod ELSE w.stats[k]]]

Count(w, c) == CountN(w, c, 1)

LowerClamped(n, k) == IF n > k THEN n - k ELSE 0

UsedAps(w)  == {i \in ApSlot : w.ap[i].used}
UsedStas(w) == {j \in StaSlot : w.sta[j].used}
FreeAps(w)  == {i \in ApSlot : ~w.ap[i].used}
FreeStas(w) == {j \in StaSlot : ~w.sta[j].used}
ApsNamed(w, b)  == {i \in ApSlot : w.ap[i].used /\ w.ap[i].bssid = b}
StasNamed(w, m) == {j \in StaSlot : w.sta[j].used /\ w.sta[j].mac = m}

find_ap(w, b)  == IF ApsNamed(w, b) = {} THEN 0 ELSE Min(ApsNamed(w, b))
find_sta(w, m) == IF StasNamed(w, m) = {} THEN 0 ELSE Min(StasNamed(w, m))

ap_expired_at(r, t)  == t > r.last_seen /\ t - r.last_seen > AP_TTL
sta_expired_at(r, t) == t > r.last_observed /\ t - r.last_observed > STA_TTL
rel_expired_at(r, t) == r.rel_ap # 0 /\ t > r.rel_last /\ t - r.rel_last > REL_TTL

ExpiredAps(w, t)  == {i \in ApSlot : w.ap[i].used /\ ap_expired_at(w.ap[i], t)}
ExpiredStas(w, t) == {j \in StaSlot : w.sta[j].used /\ sta_expired_at(w.sta[j], t)}
ExpiredRels(w, t) == {j \in StaSlot : w.sta[j].used /\ rel_expired_at(w.sta[j], t)}

\* The stations of S that are bound to AP slot i.
BoundTo(w, S, i) == {j \in S : w.sta[j].rel_ap = i}
Bound(w, S)      == {j \in S : w.sta[j].rel_ap # 0}

-----------------------------------------------------------------------------
(* Relations and removal *)

\* sta_unbind for every station of S, in any order (each touches its own
\* record and its own AP's counter).  `rel_last` is left as it was.
UnbindAll(w, S) ==
    [w EXCEPT
        !.ap = [i \in ApSlot |-> [w.ap[i] EXCEPT !.station_count =
                    IF w.ap[i].used
                    THEN LowerClamped(@, Cardinality(BoundTo(w, S, i))) ELSE @]],
        !.sta = [j \in StaSlot |->
                    IF j \in S THEN [w.sta[j] EXCEPT !.rel_ap = 0,
                                                     !.rel_evidence = NONE]
                    ELSE w.sta[j]],
        !.rel_used = @ - Cardinality(Bound(w, S))]

sta_unbind(w, j) == UnbindAll(w, {j})

sta_bind(w, j, i, ev, t) ==
    LET bound == [w.sta[j] EXCEPT !.rel_ap = i, !.rel_evidence = ev, !.rel_last = t]
        owner == [w.ap[i] EXCEPT !.station_count = @ + 1]
    IN Count([w EXCEPT !.sta = [w.sta EXCEPT ![j] = bound],
                       !.ap = [w.ap EXCEPT ![i] = owner], !.rel_used = w.rel_used + 1],
             "rel_formed")

\* Faulty variant of RemoveAps: the relations are left in place.
RemoveApsOnly(w, R) ==
    [w EXCEPT !.ap = [i \in ApSlot |->
                        IF i \in R THEN [w.ap[i] EXCEPT !.used = FALSE,
                                                        !.station_count = 0]
                        ELSE w.ap[i]],
              !.ap_used = @ - Cardinality(R)]

\* ap_remove for every AP of R: their stations survive unbound, the slots
\* keep their bytes but are free.
RemoveAps(w, R) ==
    LET Orphan == {j \in StaSlot : w.sta[j].used /\ w.sta[j].rel_ap \in R}
    IN [w EXCEPT
        !.sta = [j \in StaSlot |->
                    IF j \in Orphan THEN [w.sta[j] EXCEPT !.rel_ap = 0,
                                                          !.rel_evidence = NONE]
                    ELSE w.sta[j]],
        !.rel_used = @ - Cardinality(Orphan),
        !.ap = [i \in ApSlot |->
                    IF i \in R THEN [w.ap[i] EXCEPT !.used = FALSE,
                                                    !.station_count = 0]
                    ELSE w.ap[i]],
        !.ap_used = @ - Cardinality(R)]

ap_remove(w, i) == RemoveAps(w, {i})

\* sta_remove for every station of R: unbound first, then freed.
RemoveStas(w, R) ==
    LET u == UnbindAll(w, R)
    IN [u EXCEPT
        !.sta = [j \in StaSlot |->
                    IF j \in R THEN [u.sta[j] EXCEPT !.used = FALSE] ELSE u.sta[j]],
        !.sta_used = @ - Cardinality(R)]

sta_remove(w, j) == RemoveStas(w, {j})

sweep_expired_aps(w, t) ==
    LET E == ExpiredAps(w, t)
    IN CountN(RemoveAps(w, E), "ap_expired", Cardinality(E))

sweep_expired_stas(w, t) ==
    LET E == ExpiredStas(w, t)
    IN CountN(RemoveStas(w, E), "sta_expired", Cardinality(E))

\* The relation TTL pass of world_maintenance.
sweep_expired_rels(w, t) ==
    LET E == ExpiredRels(w, t)
    IN CountN(UnbindAll(w, E), "rel_expired", Cardinality(E))

-----------------------------------------------------------------------------
(* Allocation.  A slot of 0 is the C code's NULL. *)

OldestAp(w) ==
    Min({i \in ApSlot : \A k \in ApSlot : w.ap[i].last_seen <= w.ap[k].last_seen})

OldestSta(w) ==
    Min({j \in StaSlot :
            \A k \in StaSlot : w.sta[j].last_observed <= w.sta[k].last_observed})

\* Faulty variant of alloc_ap: every creator may evict, and nobody counts it.
alloc_ap_greedy(w, t, strong) ==
    LET swept  == IF FreeAps(w) # {} THEN w ELSE sweep_expired_aps(w, t)
        victim == OldestAp(swept)
    IN IF FreeAps(swept) # {} THEN [w |-> swept, slot |-> Min(FreeAps(swept))]
       ELSE [w |-> ap_remove(swept, victim), slot |-> victim]

alloc_ap(w, t, strong) ==
    LET swept  == IF FreeAps(w) # {} THEN w ELSE sweep_expired_aps(w, t)
        full   == FreeAps(swept) = {}
        victim == OldestAp(swept)
    IN CASE ~full           -> [w |-> swept, slot |-> Min(FreeAps(swept))]
         [] full /\ ~strong -> [w |-> Count(swept, "ap_rejected"), slot |-> 0]
         [] full /\ strong  -> [w |-> Count(ap_remove(swept, victim), "ap_evicted"),
                                slot |-> victim]

alloc_sta(w, t, strong) ==
    LET swept  == IF FreeStas(w) # {} THEN w ELSE sweep_expired_stas(w, t)
        full   == FreeStas(swept) = {}
        victim == OldestSta(swept)
    IN CASE ~full           -> [w |-> swept, slot |-> Min(FreeStas(swept))]
         [] full /\ ~strong -> [w |-> Count(swept, "sta_rejected"), slot |-> 0]
         [] full /\ strong  -> [w |-> Count(sta_remove(swept, victim), "sta_evicted"),
                                slot |-> victim]

\* Fills the free slot i with a new AP.
PlaceAp(w, i, b, t, strong) ==
    LET fresh == [ZeroAp EXCEPT !.used = TRUE, !.bssid = b, !.last_seen = t,
                                !.provisional = ~strong]
    IN Count([w EXCEPT !.ap = [w.ap EXCEPT ![i] = fresh], !.ap_used = w.ap_used + 1],
             "ap_created")

PlaceSta(w, j, m, t) ==
    LET fresh == [ZeroSta EXCEPT !.used = TRUE, !.mac = m, !.last_observed = t]
    IN Count([w EXCEPT !.sta = [w.sta EXCEPT ![j] = fresh], !.sta_used = w.sta_used + 1],
             "sta_created")

ap_create(w, b, t, strong) ==
    LET a == alloc_ap(w, t, strong)
    IN IF a.slot = 0 THEN a
       ELSE [a EXCEPT !.w = PlaceAp(@, a.slot, b, t, strong)]

sta_create(w, m, t, strong) ==
    LET a == alloc_sta(w, t, strong)
    IN IF a.slot = 0 THEN a
       ELSE [a EXCEPT !.w = PlaceSta(@, a.slot, m, t)]

ApFor(w, b, t, strong) ==
    IF find_ap(w, b) # 0 THEN [w |-> w, slot |-> find_ap(w, b)]
    ELSE ap_create(w, b, t, strong)

StaFor(w, m, t, strong) ==
    IF find_sta(w, m) # 0 THEN [w |-> w, slot |-> find_sta(w, m)]
    ELSE sta_create(w, m, t, strong)

ApIsNewer(w, b, t)  == \E i \in ApsNamed(w, b) : t < w.ap[i].last_seen

\* Faulty variant of StaIsNewer: no clock check.
StaNeverNewer(w, m, t) == FALSE

StaIsNewer(w, m, t) == \E j \in StasNamed(w, m) : t < w.sta[j].last_observed

-----------------------------------------------------------------------------
(* Evidence and the effect of one accepted observation *)

\* Faulty variant of EvidenceWins: freshness alone decides.
FresherWins(r, ev, t) == ev > r.rel_evidence \/ t >= r.rel_last

EvidenceWins(r, ev, t) ==
    ev > r.rel_evidence \/ (ev = r.rel_evidence /\ t >= r.rel_last)

\* More evidence for the relation a station already has.
Strengthened(r, ev, t) ==
    [r EXCEPT !.rel_evidence = IF ev > @ THEN ev ELSE @,
              !.rel_last = IF t >= @ THEN t ELSE @]

relation_evidence(w, j, i, ev, t) ==
    LET r == w.sta[j]
        c == Count(w, "rel_conflicts")
    IN CASE r.rel_ap = i -> [w EXCEPT !.sta[j] = Strengthened(@, ev, t)]
         [] r.rel_ap = 0 -> sta_bind(w, j, i, ev, t)
         [] r.rel_ap \notin {0, i} /\ rel_expired_at(r, t) ->
              sta_bind(sta_unbind(Count(c, "rel_expired"), j), j, i, ev, t)
         [] r.rel_ap \notin {0, i} /\ ~rel_expired_at(r, t) /\ EvidenceWins(r, ev, t) ->
              sta_bind(sta_unbind(Count(c, "rel_switched"), j), j, i, ev, t)
         [] OTHER -> c

\* Faulty variant of MergeSuite: absence in a cut frame counts as absence.
MergeSuiteAlways(old, seen, complete) ==
    CASE seen \in Suite -> seen [] seen = Absent -> NoSuite [] OTHER -> old

\* One protocol of the security merge: only a valid element replaces what
\* is stored, and only a complete frame proves an element absent.
MergeSuite(old, seen, complete) ==
    CASE seen \in Suite                -> seen
      [] complete /\ seen = Absent     -> NoSuite
      [] OTHER                         -> old

Teaches(seen, complete) == seen \in Suite \/ (complete /\ seen = Absent)

\* Faulty variant of MergeSecurity: a verdict, once reached, is not revised.
MergeSecuritySticky(sec, o) ==
    LET rsn == MergeSuite(sec.rsn, o.rsn, o.complete)
        wpa == MergeSuite(sec.wpa, o.wpa, o.complete)
    IN [rsn |-> rsn, wpa |-> wpa, privacy |-> o.privacy,
        state |-> IF rsn # NoSuite \/ wpa # NoSuite THEN "known" ELSE sec.state]

MergeSecurity(sec, o) ==
    LET rsn == MergeSuite(sec.rsn, o.rsn, o.complete)
        wpa == MergeSuite(sec.wpa, o.wpa, o.complete)
        state == CASE rsn # NoSuite \/ wpa # NoSuite -> "known"
                   [] OTHER ->
                        IF o.complete /\ o.rsn = Absent /\ o.wpa = Absent
                        THEN (IF o.privacy THEN "legacy_privacy" ELSE "open")
                        ELSE sec.state
    IN IF Teaches(o.rsn, o.complete) \/ Teaches(o.wpa, o.complete)
       THEN [rsn |-> rsn, wpa |-> wpa, privacy |-> o.privacy, state |-> state]
       ELSE sec

\* Faulty variant of ApSpoke: only a complete frame clears `provisional`.
ApSpokeIfComplete(r, t, rssi, o) ==
    [r EXCEPT
        !.last_seen = t, !.rssi = rssi, !.provisional = @ /\ ~o.complete,
        !.beacon_count = IF o.beacon THEN SatInc(@) ELSE @,
        !.probe_resp_count = IF o.beacon THEN @ ELSE SatInc(@),
        !.channel = IF o.channel # 0 THEN o.channel ELSE @,
        !.ssid = IF o.complete /\ o.ssid # NoSsid THEN o.ssid ELSE @,
        !.sec = MergeSecurity(@, o)]

ApSpoke(r, t, rssi, o) ==
    [r EXCEPT
        !.last_seen = t, !.rssi = rssi, !.provisional = FALSE,
        !.beacon_count = IF o.beacon THEN SatInc(@) ELSE @,
        !.probe_resp_count = IF o.beacon THEN @ ELSE SatInc(@),
        !.channel = IF o.channel # 0 THEN o.channel ELSE @,
        !.ssid = IF o.complete /\ o.ssid # NoSsid THEN o.ssid ELSE @,
        !.sec = MergeSecurity(@, o)]

StaSpoke(r, t, rssi) ==
    [r EXCEPT !.last_observed = t, !.rssi = rssi, !.tx_count = SatInc(@)]

\* The AP was the addressee of a data frame, or transmitted one; the
\* station was the destination of one.
ApReached(r) == [r EXCEPT !.data_up_count = SatInc(@)]

ApRelayed(r, t, rssi) ==
    [r EXCEPT !.last_seen = t, !.rssi = rssi, !.data_down_count = SatInc(@)]

StaAddressed(r, t) ==
    [r EXCEPT !.last_observed = t, !.dl_count = SatInc(@)]

\* A strong creator always gets a slot, so the C code's NULL checks after
\* a strong creation are dead here.
ap_observed(w, b, t, rssi, o) ==
    LET a == ApFor(w, b, t, TRUE)
    IN [a.w EXCEPT !.ap[a.slot] = ApSpoke(@, t, rssi, o)]

\* Faulty variant of data_uplink: the station's level is stored in the AP.
data_uplink_rssi(w, s, b, t, rssi) ==
    LET st == StaFor(w, s, t, TRUE)
        heard == [st.w EXCEPT !.sta[st.slot] = StaSpoke(@, t, rssi)]
        a == ApFor(heard, b, t, FALSE)
    IN IF a.slot = 0 THEN a.w
       ELSE relation_evidence([a.w EXCEPT !.ap[a.slot] = [@ EXCEPT !.rssi = rssi]],
                              st.slot, a.slot, UPLINK, t)

data_uplink(w, s, b, t, rssi) ==
    LET st == StaFor(w, s, t, TRUE)
        heard == [st.w EXCEPT !.sta[st.slot] = StaSpoke(@, t, rssi)]
        a == ApFor(heard, b, t, FALSE)
    IN IF a.slot = 0 THEN a.w
       ELSE relation_evidence(
                [a.w EXCEPT !.ap[a.slot] = ApReached(@)],
                st.slot, a.slot, UPLINK, t)

\* The station side of a downlink frame, once the AP in slot i is refreshed.
downlink_dest(w, i, d, t) ==
    LET st == StaFor(w, d, t, FALSE)
    IN IF st.slot = 0 THEN st.w
       ELSE relation_evidence(
                [st.w EXCEPT !.sta[st.slot] = StaAddressed(@, t)],
                st.slot, i, DOWNLINK, t)

data_downlink(w, b, d, t, rssi) ==
    LET a == ApFor(w, b, t, FALSE)
        heard == [a.w EXCEPT !.ap[a.slot] = ApRelayed(@, t, rssi)]
    IN IF a.slot = 0 THEN a.w
       ELSE IF d \notin Mac \/ d = b \/ StaIsNewer(heard, d, t) THEN heard
       ELSE downlink_dest(heard, a.slot, d, t)

StaProbed(r) == [r EXCEPT !.probe_count = SatInc(@)]

sta_noted(w, m, t, rssi, probe) ==
    LET st    == StaFor(w, m, t, TRUE)
        heard == StaSpoke(st.w.sta[st.slot], t, rssi)
    IN [st.w EXCEPT !.sta[st.slot] = IF probe THEN StaProbed(heard) ELSE heard]

\* Faulty variant of maintained: relations age only with their stations.
maintained_no_rel(w, t) ==
    Count(sweep_expired_stas(sweep_expired_aps(w, t), t), "maint_runs")

maintained(w, t) ==
    Count(sweep_expired_stas(sweep_expired_rels(sweep_expired_aps(w, t), t), t),
          "maint_runs")

-----------------------------------------------------------------------------
(* Actions: one per entry point, plus the caller's clock.  Every entry      *)
(* point is given now_ms by its caller: here `now`.  The rssi of a frame    *)
(* is the level of whoever transmitted it.                                  *)

Clock ==
    /\ \E t \in Times : /\ t > now \/ (ClockMayRegress /\ t # now)
                        /\ now' = t
    /\ UNCHANGED world

world_on_ap_observation(b, o) ==
    /\ UNCHANGED now
    /\ \/ /\ b \notin Mac
          /\ world' = Count(world, "obs_invalid")
       \/ /\ b \in Mac
          /\ ApIsNewer(world, b, now)
          /\ world' = Count(world, "obs_stale")
       \/ /\ b \in Mac
          /\ ~ApIsNewer(world, b, now)
          /\ world' = ap_observed(world, b, now, b, o)

\* ToDS = 1: addr2 = s is the transmitting station, addr1 = b the BSSID.
world_on_uplink(s, b) ==
    /\ UNCHANGED now
    /\ \/ /\ s \notin Mac \/ b \notin Mac \/ s = b
          /\ world' = Count(world, "obs_invalid")
       \/ /\ s \in Mac /\ b \in Mac /\ s # b
          /\ StaIsNewer(world, s, now)
          /\ world' = Count(world, "obs_stale")
       \/ /\ s \in Mac /\ b \in Mac /\ s # b
          /\ ~StaIsNewer(world, s, now)
          /\ world' = data_uplink(world, s, b, now, s)

\* FromDS = 1: addr2 = b is the transmitting AP, addr1 = d the destination.
world_on_downlink(b, d) ==
    /\ UNCHANGED now
    /\ \/ /\ b \notin Mac
          /\ world' = Count(world, "obs_invalid")
       \/ /\ b \in Mac
          /\ ApIsNewer(world, b, now)
          /\ world' = Count(world, "obs_stale")
       \/ /\ b \in Mac
          /\ ~ApIsNewer(world, b, now)
          /\ world' = data_downlink(world, b, d, now, b)

\* A data frame whose addresses do not tell a station from an AP.
world_on_unusable_data(kind) ==
    /\ world' = Count(world, kind)
    /\ UNCHANGED now

\* Probe requests, and authentication / (re)association requests.
world_on_sta_tx(m, probe) ==
    /\ UNCHANGED now
    /\ \/ /\ m \notin Mac
          /\ world' = Count(world, "obs_invalid")
       \/ /\ m \in Mac
          /\ StaIsNewer(world, m, now)
          /\ world' = Count(world, "obs_stale")
       \/ /\ m \in Mac
          /\ ~StaIsNewer(world, m, now)
          /\ world' = sta_noted(world, m, now, m, probe)

world_maintenance ==
    /\ world' = maintained(world, now)
    /\ UNCHANGED now

Init == world = world_init /\ now = 0

Next ==
    \/ Clock
    \/ \E b \in Address, o \in Obs : world_on_ap_observation(b, o)
    \/ \E s, b \in Address : world_on_uplink(s, b)
    \/ \E b, d \in Address : world_on_downlink(b, d)
    \/ \E kind \in {"data_wds", "data_ambiguous", "data_short"} :
           world_on_unusable_data(kind)
    \/ \E m \in Address, probe \in BOOLEAN : world_on_sta_tx(m, probe)
    \/ world_maintenance

Spec == Init /\ [][Next]_vars

-----------------------------------------------------------------------------
(* Invariants *)

\* The one type invariant: every field keeps its range; the three table
\* counters never go below zero (they are unsigned in C).
TypeOK == world \in WorldType /\ now \in Times

\* What world_check_invariants tests, and one fact it takes for granted: a
\* free slot holds no relation.
CountersExact(w) ==
    /\ w.ap_used = Cardinality(UsedAps(w))
    /\ w.sta_used = Cardinality(UsedStas(w))
    /\ w.rel_used = Cardinality(Bound(w, StaSlot))
    /\ \A i \in ApSlot : w.ap[i].station_count = Cardinality(BoundTo(w, StaSlot, i))

RelationsSound(w) ==
    \A j \in StaSlot :
        LET r == w.sta[j]
        IN /\ r.rel_ap # 0 => r.used /\ w.ap[r.rel_ap].used
           /\ r.rel_ap # 0 <=> r.rel_evidence # NONE

\* Through every interleaving of observations, sweeps and evictions the
\* counters of the tables equal what the tables hold, and every relation
\* joins a used station to a used AP (world_check_invariants): the
\* incremental bookkeeping of sta_bind, sta_unbind and ap_remove never drifts.
WorldConsistent == CountersExact(world) /\ RelationsSound(world)

KeysUnique(w) ==
    /\ \A i \in UsedAps(w) : w.ap[i].bssid \in Mac
    /\ \A j \in UsedStas(w) : w.sta[j].mac \in Mac
    /\ \A i, k \in UsedAps(w) : w.ap[i].bssid = w.ap[k].bssid => i = k
    /\ \A j, k \in UsedStas(w) : w.sta[j].mac = w.sta[k].mac => j = k

\* No address is stored twice among the used slots, and stored addresses are
\* unicast: a record is never split in two by slot reuse or a missed lookup.
UniqueKeys == KeysUnique(world)

\* A record's signal level was measured from that record's own transmitter,
\* a station known only as a destination has none, and "uplink" evidence is
\* held only for a station that was heard (header of world.h, "Transmitter
\* RSSI belongs to the transmitter").
SignalOwnership ==
    /\ \A i \in UsedAps(world) : world.ap[i].rssi \in {world.ap[i].bssid, NonUnicast}
    /\ \A j \in UsedStas(world) :
          LET r == world.sta[j]
          IN /\ r.rssi \in {r.mac, NonUnicast}
             /\ r.rel_evidence = UPLINK => r.rssi = r.mac

\* A relation is never fresher than its station, and never joins an address
\* to itself although the same address may be in both tables.
RelationsPlausible ==
    \A j \in UsedStas(world) :
        LET r == world.sta[j]
        IN r.rel_ap # 0 => /\ r.rel_last <= r.last_observed
                           /\ world.ap[r.rel_ap].bssid # r.mac

\* sec_state is "known" exactly when some suite is stored, so a name shown
\* for the security of an AP is never computed from cleared suites; an open
\* or legacy verdict agrees with the privacy bit stored with it.
SecurityAgrees ==
    \A i \in UsedAps(world) :
        LET s == world.ap[i].sec
        IN /\ s.state = "known" <=> s.rsn # NoSuite \/ s.wpa # NoSuite
           /\ s.state = "open" => ~s.privacy
           /\ s.state = "legacy_privacy" => s.privacy

\* Whatever has been learned of an AP, a frame of it that was cut short never
\* takes back what a whole frame taught: a stored suite, a stored name and a
\* verdict of "known" survive it.
CutFramesOnlyAdd ==
    \A i \in UsedAps(world), o \in {x \in Obs : ~x.complete} :
        LET old == world.ap[i]
            new == ApSpoke(old, now, old.bssid, o)
        IN /\ new.ssid = old.ssid
           /\ old.sec.rsn # NoSuite => new.sec.rsn # NoSuite
           /\ old.sec.wpa # NoSuite => new.sec.wpa # NoSuite
           /\ old.sec.state # new.sec.state => new.sec.state = "known"

\* An AP is provisional exactly as long as no beacon or probe response of it
\* was counted since its slot was filled, and until then it has no name, no
\* channel and no security verdict.
ProvisionalMeansUnheard ==
    \A i \in UsedAps(world) :
        LET r == world.ap[i]
        IN /\ r.provisional <=> r.beacon_count = 0 /\ r.probe_resp_count = 0
           /\ r.provisional => /\ r.ssid = NoSsid /\ r.channel = 0
                               /\ r.sec = ZeroSecurity

\* Every AP and station ever created is still in its table, expired or was
\* evicted - each exactly once, even after the 32-bit statistics wrap.  (For
\* the tables whose statistics the instance keeps.)
CreationsAccounted ==
    LET s == world.stats
        Adds(created, used, expired, evicted) ==
            {created, expired, evicted} \subseteq Tracked =>
                s[created] = (used + s[expired] + s[evicted]) % CounterMod
    IN  /\ Adds("ap_created", world.ap_used, "ap_expired", "ap_evicted")
        /\ Adds("sta_created", world.sta_used, "sta_expired", "sta_evicted")

-----------------------------------------------------------------------------
(* Action properties *)

\* The AP slot of b, and the station slot of m, in the next state.
ApAfter(b)  == find_ap(world', b)
StaAfter(m) == find_sta(world', m)

KnownAps(w)  == {w.ap[i].bssid : i \in UsedAps(w)}
KnownStas(w) == {w.sta[j].mac : j \in UsedStas(w)}

\* While a station's relation is fresh and its AP stays in the table, the
\* relation moves to another AP only on evidence at least as strong; a
\* phantom downlink never takes over a station that was heard transmitting.
LiveBindingNotStolen ==
    [][\A j \in StaSlot :
          LET r == world.sta[j]
              b == world.ap[r.rel_ap].bssid
          IN (/\ r.rel_ap # 0 /\ ~rel_expired_at(r, now)
              /\ b \in KnownAps(world') /\ r.mac \in KnownStas(world')) =>
               LET n == world'.sta[StaAfter(r.mac)]
               IN /\ n.rel_ap # 0
                  /\ world'.ap[n.rel_ap].bssid # b => n.rel_evidence >= r.rel_evidence
                  /\ n.rel_evidence < r.rel_evidence =>
                        world'.ap[n.rel_ap].bssid # b]_vars

\* A caller whose clock runs backwards never rejuvenates or ages a record:
\* while an address stays in its table its time never decreases, nor does
\* the time of an unchanged relation.
TimesNeverRegress ==
    [][/\ \A i \in UsedAps(world) : world.ap[i].bssid \in KnownAps(world') =>
             world'.ap[ApAfter(world.ap[i].bssid)].last_seen >= world.ap[i].last_seen
       /\ \A j \in UsedStas(world) : world.sta[j].mac \in KnownStas(world') =>
             LET n == world'.sta[StaAfter(world.sta[j].mac)]
             IN /\ n.last_observed >= world.sta[j].last_observed
                /\ n.rel_last >= world.sta[j].rel_last]_vars

-----------------------------------------------------------------------------
(* Refinement: the tables, read as maps. *)

\* The used slot that holds an address.
SlotOfAp(b)  == CHOOSE i \in ApsNamed(world, b) : TRUE
SlotOfSta(m) == CHOOSE j \in StasNamed(world, m) : TRUE

apsMap  == [b \in KnownAps(world) |-> world.ap[SlotOfAp(b)].last_seen]
stasMap == [m \in KnownStas(world) |-> world.sta[SlotOfSta(m)].last_observed]
relMap ==
    [m \in {x \in KnownStas(world) : world.sta[SlotOfSta(x)].rel_ap # 0} |->
        LET r == world.sta[SlotOfSta(m)]
        IN [ap |-> world.ap[r.rel_ap].bssid, ev |-> r.rel_evidence, at |-> r.rel_last]]

Map == INSTANCE WorldMap WITH aps <- apsMap, stas <- stasMap, rel <- relMap

\* The slot tables implement the maps: slot reuse never leaves an old
\* relation pointing at a new AP (comment of ap_remove), and eviction,
\* sweeping and evidence act on addresses exactly as the maps say.
ImplementsMap == Map!AbsSpec

=============================================================================
