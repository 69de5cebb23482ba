------------------------------- MODULE RxTask -------------------------------
(***************************************************************************)
(* What radio_rx_task does with each frame, and what a report shows of it. *)
(*                                                                         *)
(* The task classifies the frame, counts it, hands it to the handler of    *)
(* its kind, which parses it, counts the outcome and feeds the world       *)
(* model, and releases the slot.  wifi_sniffer_get_stats copies the        *)
(* counters under the spinlock s_stats_mux and, later, the world's counts  *)
(* under s_world_mux, for which it waits a while and then goes without.    *)
(*                                                                         *)
(* A frame is its Frame Control, the type the driver gave it, and how it   *)
(* parses.  The spinlock disables interrupts: what is done under it is one *)
(* step, except that the longest section is cut in two, to see what        *)
(* happens between.  Of the world model there is what its snapshot counts: *)
(* the records ever created, those that expired or were evicted, and thus  *)
(* what it holds; the observations it was given are kept as a history.  A  *)
(* report also has the length of the queue and the channel, which are of   *)
(* the moment they are read and are left out.                              *)
(***************************************************************************)
EXTENDS Integers, Sequences

CONSTANTS
    Reader,      \* the tasks that call wifi_sniffer_get_stats
    Frames,      \* the frames that may come in
    MaxReceived, \* bound: how many do
    MaxRecords   \* bound: records the world model creates

VARIABLES
    rx,          \* radio_rx_task: its place and the frame in hand
    spin,        \* the holder of s_stats_mux, or "free"
    s_stats,     \* the counters of radio_stats_t, with rx_processed
    world,       \* the world model: records created and gone; history: the
                 \* observations it was given, by kind
    missed,      \* history: observations dropped for want of the mutex
    reader,      \* each reader: its place and the counters it has copied
    report       \* what each reader published last; history: `shown', the
                 \* world it showed last, with time-outs or without since
taskVars == <<rx, spin, s_stats, world, missed>>
rxVars == <<taskVars, reader, report>>

-----------------------------------------------------------------------------
(* Frame Control *)

MGMT == 0
CTRL == 1
DATA == 2
EXT  == 3

\* How a frame may parse, and what its elements hold.
Parse == {"refused", "incomplete", "complete"}
Found == {"ssid_found", "hidden_ssid_count", "rsn_ie_count", "wpa_vendor_ie_count",
          "channel_ie_count"}
AnyFrame == [valid : BOOLEAN, type : 0..3, subtype : 0..15,
          driver : {"mgmt", "ctrl", "data", "misc"},
          parse : Parse, found : SUBSET Found]

ASSUME FramesAssumption == Frames \subseteq AnyFrame /\ MaxReceived \in Nat /\ MaxRecords \in Nat

mgmt_counter ==
    << "assoc_req_count", "assoc_resp_count", "reassoc_req_count", "reassoc_resp_count",
       "probe_req_count", "probe_resp_count", "mgmt_other_count", "mgmt_other_count",
       "beacon_count", "atim_count", "disassoc_count", "auth_count", "deauth_count",
       "action_count", "mgmt_other_count", "mgmt_other_count" >>

ctrl_counter(subtype) ==
    CASE subtype = 8  -> "bar_count"
      [] subtype = 9  -> "ba_count"
      [] subtype = 11 -> "rts_count"
      [] subtype = 12 -> "cts_count"
      [] subtype = 13 -> "ack_count"
      [] OTHER        -> "ctrl_other_count"

data_counter(subtype) ==
    CASE subtype \in 0..3  -> "fc_data_count"
      [] subtype \in 4..7  -> "null_count"
      [] subtype \in 8..11 -> "qos_data_count"
      [] subtype = 12      -> "qos_null_count"
      [] OTHER             -> "data_other_count"

MgmtCounters == {mgmt_counter[i] : i \in 1..16}
CtrlCounters == {ctrl_counter(s) : s \in 0..15}
DataCounters == {data_counter(s) : s \in 0..15}
Totals == {"parser_errors", "mgmt_total", "ctrl_total", "data_total", "ext_total"}

Counter == MgmtCounters \cup CtrlCounters \cup DataCounters \cup Totals \cup Found \cup
    {"parser_total", "invalid_frames", "fc_type_mismatch", "rx_processed",
     "beacon_parsed", "probe_resp_parsed", "beacon_parse_errors",
     "probe_req_parsed", "probe_req_errors", "ie_incomplete", "ap_obs_skipped"}

\* driver_pkt_type_to_fc_type, which has no type for the rest.
DriverType(d) == CASE d = "mgmt" -> {MGMT}
                   [] d = "ctrl" -> {CTRL}
                   [] d = "data" -> {DATA}
                   [] OTHER      -> {}

Count(S) == s_stats' = [c \in Counter |-> s_stats[c] + (IF c \in S THEN 1 ELSE 0)]

-----------------------------------------------------------------------------
(* radio_rx_task *)

NoFrame == [valid |-> FALSE, type |-> 0, subtype |-> 0, driver |-> "misc",
            parse |-> "refused", found |-> {}]

At(place) == rx' = [rx EXCEPT !.at = place]

receive(f) ==
    /\ rx.at = "receive" /\ s_stats["rx_processed"] < MaxReceived
    /\ rx' = [at |-> "count", frame |-> f]
    /\ UNCHANGED <<spin, s_stats, world, missed, reader, report>>

\* stats_count_parsed_locked: the first counter, and the others.
count_begins ==
    /\ rx.at = "count" /\ spin = "free"
    /\ spin' = "rx"
    /\ Count({"parser_total"})
    /\ At("counting")
    /\ UNCHANGED <<world, missed, reader, report>>

CountersOf(f) ==
    IF ~f.valid THEN {"parser_errors", "invalid_frames"}
    ELSE (IF DriverType(f.driver) \subseteq {f.type} THEN {} ELSE {"fc_type_mismatch"})
         \cup CASE f.type = MGMT -> {"mgmt_total", mgmt_counter[f.subtype + 1]}
                [] f.type = CTRL -> {"ctrl_total", ctrl_counter(f.subtype)}
                [] f.type = DATA -> {"data_total", data_counter(f.subtype)}
                [] f.type = EXT  -> {"ext_total"}

Mgmt(f, subtypes) == f.valid /\ f.type = MGMT /\ f.subtype \in subtypes
IsApObs(f)   == Mgmt(f, {5, 8})
IsProbe(f)   == Mgmt(f, {4})
IsRequest(f) == Mgmt(f, {0, 2, 11})
IsData(f)    == f.valid /\ f.type = DATA /\ f.subtype # 15

\* Requests of clients and data frames are fed if their addresses parse, and
\* not counted.
Dispatch(f) ==
    CASE IsApObs(f) \/ IsProbe(f) -> "handle"
      [] (IsRequest(f) \/ IsData(f)) /\ f.parse # "refused" -> "feed"
      [] OTHER -> "release"

counted ==
    /\ rx.at = "counting"
    /\ Count(CountersOf(rx.frame))
    /\ spin' = "free"
    /\ At(Dispatch(rx.frame))
    /\ UNCHANGED <<world, missed, reader, report>>

refuse ==
    /\ rx.at = "handle" /\ rx.frame.parse = "refused" /\ spin = "free"
    /\ Count({IF IsProbe(rx.frame) THEN "probe_req_errors" ELSE "beacon_parse_errors"})
    /\ At("release")
    /\ UNCHANGED <<spin, world, missed, reader, report>>

Incomplete(f) == IF f.parse = "incomplete" THEN {"ie_incomplete"} ELSE {}

\* Faulty variant of observe_ap: an observation the cache skips is not fed.
observe_ap_skipping ==
    /\ rx.at = "handle" /\ IsApObs(rx.frame) /\ rx.frame.parse # "refused"
    /\ spin = "free"
    /\ LET f == rx.frame
       IN  Count({IF f.subtype = 8 THEN "beacon_parsed" ELSE "probe_resp_parsed"}
                 \cup Incomplete(f) \cup f.found
                 \cup (IF f.parse = "incomplete" THEN {"ap_obs_skipped"} ELSE {}))
    /\ At(IF rx.frame.parse = "incomplete" THEN "release" ELSE "feed")
    /\ UNCHANGED <<spin, world, missed, reader, report>>

\* handle_ap_observation: the dedup cache skips what is not complete, the
\* world model does not.
observe_ap ==
    /\ rx.at = "handle" /\ IsApObs(rx.frame) /\ rx.frame.parse # "refused"
    /\ spin = "free"
    /\ LET f == rx.frame
       IN  Count({IF f.subtype = 8 THEN "beacon_parsed" ELSE "probe_resp_parsed"}
                 \cup Incomplete(f) \cup f.found
                 \cup (IF f.parse = "incomplete" THEN {"ap_obs_skipped"} ELSE {}))
    /\ At("feed")
    /\ UNCHANGED <<spin, world, missed, reader, report>>

\* handle_probe_request, before its log line.
observe_probe ==
    /\ rx.at = "handle" /\ IsProbe(rx.frame) /\ rx.frame.parse # "refused"
    /\ spin = "free"
    /\ Count({"probe_req_parsed"} \cup Incomplete(rx.frame))
    /\ At("feed")
    /\ UNCHANGED <<spin, world, missed, reader, report>>

Feed(f) == CASE IsApObs(f)   -> "ap"
             [] IsProbe(f)   -> "probe"
             [] IsRequest(f) -> "request"
             [] OTHER        -> "data"
Feeds == {"ap", "probe", "request", "data"}

Tally == Feeds \cup {"created", "gone"}

\* ap_current and sta_current
Held(w) == w["created"] - w["gone"]

\* Faulty variant of Turnover: what goes was never created.
TurnoverForgets(new, old) ==
    [world EXCEPT !["created"] = @ + new - old]

\* The records come and go: a data frame may make both its stations known, and
\* any number expires or has to make room.
Turnover(new, old) ==
    [world EXCEPT !["created"] = @ + new, !["gone"] = @ + old]

\* world_feed_ap, .._probe, .._sta_tx and .._data: the observation is dropped
\* when s_world_mux is not to be had in time.
feed ==
    /\ rx.at = "feed"
    /\ \/ /\ \E new \in 0..2, old \in 0..Held(world) :
                /\ world["created"] + new <= MaxRecords
                /\ world' = [Turnover(new, old) EXCEPT ![Feed(rx.frame)] = @ + 1]
          /\ UNCHANGED missed
       \/ missed' = [missed EXCEPT ![Feed(rx.frame)] = @ + 1] /\ UNCHANGED world
    /\ At("release")
    /\ UNCHANGED <<spin, s_stats, reader, report>>

\* Between frames, with or without one to come, the world model drops what
\* expired.
world_tick ==
    /\ rx.at = "receive"
    /\ \E old \in 1..Held(world) : world' = Turnover(0, old)
    /\ UNCHANGED <<rx, spin, s_stats, missed, reader, report>>

release ==
    /\ rx.at = "release" /\ spin = "free"
    /\ Count({"rx_processed"})
    /\ rx' = [at |-> "receive", frame |-> NoFrame]
    /\ UNCHANGED <<spin, world, missed, reader, report>>

radio_rx_task == \/ \E f \in Frames : receive(f)
                 \/ count_begins \/ counted
                 \/ refuse \/ observe_ap \/ observe_probe
                 \/ feed \/ world_tick \/ release

-----------------------------------------------------------------------------
(* wifi_sniffer_get_stats *)

Zero     == [c \in Counter |-> 0]
NoCounts == [f \in Feeds |-> 0]
NoWorld  == [f \in Tally |-> 0]

copies_stats(r) ==
    /\ reader[r].at = "idle" /\ spin = "free"
    /\ reader' = [reader EXCEPT ![r] = [at |-> "world", stats |-> s_stats]]
    /\ UNCHANGED <<taskVars, report>>

copies_world(r) ==
    /\ reader[r].at = "world"
    /\ report' = [report EXCEPT ![r] =
                    [stats |-> reader[r].stats, world |-> world, timed_out |-> FALSE,
                     shown |-> world]]
    /\ reader' = [reader EXCEPT ![r] = [at |-> "idle", stats |-> Zero]]
    /\ UNCHANGED taskVars

\* The report says nothing of the world: its counts are those of s_stats,
\* where they are always zero.
goes_without(r) ==
    /\ reader[r].at = "world"
    /\ report' = [report EXCEPT ![r] =
                    [stats |-> reader[r].stats, world |-> NoWorld, timed_out |-> TRUE,
                     shown |-> report[r].shown]]
    /\ reader' = [reader EXCEPT ![r] = [at |-> "idle", stats |-> Zero]]
    /\ UNCHANGED taskVars

\* Faulty variant of wifi_sniffer_get_stats: the world first, the counters last.
get_stats_world_first(r) ==
    \/ /\ reader[r].at = "idle"
       /\ report' = [report EXCEPT ![r].world = world, ![r].timed_out = TRUE]
       /\ reader' = [reader EXCEPT ![r].at = "world"]
       /\ UNCHANGED taskVars
    \/ /\ reader[r].at = "world" /\ spin = "free"
       /\ report' = [report EXCEPT ![r].stats = s_stats, ![r].timed_out = FALSE]
       /\ reader' = [reader EXCEPT ![r].at = "idle"]
       /\ UNCHANGED taskVars

wifi_sniffer_get_stats(r) == copies_stats(r) \/ copies_world(r) \/ goes_without(r)

-----------------------------------------------------------------------------
RxInit ==
    /\ rx = [at |-> "receive", frame |-> NoFrame]
    /\ spin = "free"
    /\ s_stats = Zero
    /\ world = NoWorld /\ missed = NoCounts
    /\ reader = [r \in Reader |-> [at |-> "idle", stats |-> Zero]]
    /\ report = [r \in Reader |-> [stats |-> Zero, world |-> NoWorld, timed_out |-> FALSE,
                                shown |-> NoWorld]]

RxNext == radio_rx_task \/ \E r \in Reader : wifi_sniffer_get_stats(r)

RxSpec == RxInit /\ [][RxNext]_rxVars

-----------------------------------------------------------------------------
\* Every variable has its type, and only a counting task holds the spinlock.
RxTypeOK ==
    /\ rx \in [at : {"receive", "count", "counting", "handle", "feed", "release"},
                 frame : Frames \cup {NoFrame}]
    /\ spin = IF rx.at = "counting" THEN "rx" ELSE "free"
    /\ s_stats \in [Counter -> Nat]
    /\ world \in [Tally -> Nat] /\ missed \in [Feeds -> Nat]
    /\ reader \in [Reader -> [at : {"idle", "world"}, stats : [Counter -> Nat]]]
    /\ report \in [Reader -> [stats : [Counter -> Nat], world : [Tally -> Nat],
                              timed_out : BOOLEAN, shown : [Tally -> Nat]]]

MgmtSum(s) == s["assoc_req_count"] + s["assoc_resp_count"] + s["reassoc_req_count"]
    + s["reassoc_resp_count"] + s["probe_req_count"] + s["probe_resp_count"]
    + s["beacon_count"] + s["atim_count"] + s["disassoc_count"] + s["auth_count"]
    + s["deauth_count"] + s["action_count"] + s["mgmt_other_count"]
CtrlSum(s) == s["bar_count"] + s["ba_count"] + s["rts_count"] + s["cts_count"]
    + s["ack_count"] + s["ctrl_other_count"]
DataSum(s) == s["fc_data_count"] + s["null_count"] + s["qos_data_count"]
    + s["qos_null_count"] + s["data_other_count"]
TypeSum(s) == s["mgmt_total"] + s["ctrl_total"] + s["data_total"] + s["ext_total"]

ApParsed(s) == s["beacon_parsed"] + s["probe_resp_parsed"]

\* The classification adds up: every frame has one type and one subtype.
AddsUp(s) ==
    /\ s["parser_total"] = s["parser_errors"] + TypeSum(s)
    /\ s["parser_errors"] = s["invalid_frames"]
    /\ s["mgmt_total"] = MgmtSum(s)
    /\ s["ctrl_total"] = CtrlSum(s)
    /\ s["data_total"] = DataSum(s)

\* The handlers are behind the classification by the frame in hand at most.
InHand(s) ==
    [ap    |-> s["beacon_count"] + s["probe_resp_count"]
               - (ApParsed(s) + s["beacon_parse_errors"]),
     probe |-> s["probe_req_count"] - (s["probe_req_parsed"] + s["probe_req_errors"]),
     any   |-> s["parser_total"] - s["rx_processed"]]
BehindByOne(s) ==
    /\ InHand(s).ap >= 0 /\ InHand(s).probe >= 0
    /\ InHand(s).ap + InHand(s).probe <= InHand(s).any /\ InHand(s).any <= 1
    /\ s["ap_obs_skipped"] <= s["ie_incomplete"]

\* The counts of the world are not older than the counters of the report:
\* they miss one observation, the one in hand, and those that were dropped.
WorldNotBehind(s, w) ==
    /\ ApParsed(s) <= w["ap"] + missed["ap"] + 1
    /\ s["probe_req_parsed"] <= w["probe"] + missed["probe"] + 1

\* A report hangs together, although it is read in two steps while frames
\* come in.  Its counters are of one moment: they add up, and the parsed and
\* refused observations, the released slots and the classified frames differ
\* by the one frame in hand (wifi_sniffer_get_stats, radio_rx_task).  The world
\* read after them is not older, unless its mutex was not to be had.
ReportsAddUp ==
    \A r \in Reader :
        LET s == report[r].stats
        IN  /\ AddsUp(s) /\ BehindByOne(s)
            /\ report[r].timed_out \/ WorldNotBehind(s, report[r].world)

\* Every observation that is counted as parsed is given to the world model
\* once, complete or not, unless the mutex was not to be had
\* (wifi_sniffer.c:524, :586).
FeedsAccounted ==
    LET Waiting(k) == IF rx.at = "feed" /\ Feed(rx.frame) = k THEN 1 ELSE 0
    IN  /\ RxTypeOK
        /\ world["ap"] + missed["ap"] + Waiting("ap") = ApParsed(s_stats)
        /\ world["probe"] + missed["probe"] + Waiting("probe") = s_stats["probe_req_parsed"]
        /\ world["request"] + missed["request"] <=
              s_stats["auth_count"] + s_stats["assoc_req_count"]
                + s_stats["reassoc_req_count"]
        /\ world["data"] + missed["data"] <= s_stats["data_total"]

\* The counters of a reader's reports never fall from one to the next.  Nor do
\* the cumulative counts of the world, created and gone, from a report that
\* shows the world to the next that does, however many between them went
\* without it and showed zeros (wifi_sniffer.c:810, :819-835).  What the world
\* holds may fall.
ReportsNeverGoBack ==
    [][\A r \in Reader :
         /\ \A c \in Counter : report'[r].stats[c] >= report[r].stats[c]
         /\ report'[r].timed_out \/
                \A f \in Tally : report'[r].world[f] >= report[r].shown[f]]_rxVars

=============================================================================
