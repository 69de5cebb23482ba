------------------------------- MODULE Headers -------------------------------
(***************************************************************************)
(* Who is a station and who is an access point: from the header of a frame *)
(* (ieee80211_parse, ieee80211_parse_client_mgmt_tx,                       *)
(* ieee80211_parse_data_addresses and the guards of the deep parsers),     *)
(* through the dispatch of radio_rx_task, to the records the world model   *)
(* creates.                                                                *)
(*                                                                         *)
(* The air carries what clients and access points send each other by the   *)
(* 802.11 standard, and frames of another protocol version, whose address  *)
(* fields hold something else.  A frame is its Frame Control, its address  *)
(* fields and, for an authentication, its transaction number and status;   *)
(* `kind' and `by' say what it is and who sent it, which the code does not *)
(* see.  The capture may end anywhere; one shorter than a header is cut    *)
(* inside the frame, where pkt->length and the length without FCS agree.   *)
(***************************************************************************)
EXTENDS Integers

CONSTANTS
    Client, Ap,  \* the addresses of the clients and of the access points
    Group,       \* group addresses
    Lens,        \* the lengths given to the parsers, without FCS
    MAX_COUNT    \* bound: how many frames are counted; the others have none

ASSUME HeadersAssumption ==
    /\ Client \cap Ap = {} /\ (Client \cup Ap) \cap Group = {}
    /\ Lens \subseteq Nat /\ MAX_COUNT \in Nat

VARIABLES
    hand,    \* the frame radio_rx_task works on, and its captured length
    aps,     \* addresses the world model was made to record as access points
    stas,    \* .. and as stations
    heard,   \* addresses credited with a transmission of their own
    stats,   \* data_wds, data_ambiguous and data_short
    spoke    \* history: who did transmit
headersVars == <<hand, aps, stas, heard, stats, spoke>>

Node == Client \cup Ap
Mac  == Node \cup Group

MGMT == 0
DATA == 2
ASSOC_REQ == 0
REASSOC_REQ == 2
PROBE_REQ == 4
PROBE_RESP == 5
BEACON == 8
AUTH == 11

-----------------------------------------------------------------------------
(* The traffic *)

Mgmt(kind, sub, ra, ta, bssid, transaction, status) ==
    [kind |-> kind, by |-> ta, pv |-> 0, type |-> MGMT, sub |-> sub,
     ds |-> "none", a1 |-> ra, a2 |-> ta, a3 |-> bssid,
     transaction |-> transaction, status |-> status]

Data(kind, sub, ds, ra, ta, a3) ==
    [kind |-> kind, by |-> ta, pv |-> 0, type |-> DATA, sub |-> sub,
     ds |-> ds, a1 |-> ra, a2 |-> ta, a3 |-> a3,
     transaction |-> 0, status |-> 0]

\* Beacons, and the answers to a client: probe, authentication and
\* association responses.
FromAp ==
    UNION {
      {Mgmt("answer", BEACON, g, p, p, 0, 0) : g \in Group, p \in Ap},
      {Mgmt("answer", s, c, p, p, 0, 0) : s \in {1, 3, PROBE_RESP}, c \in Client, p \in Ap},
      {Mgmt("answer", AUTH, c, p, p, t, st) : c \in Client, p \in Ap, t \in {2, 4}, st \in 0..1}}

\* A client probes everyone or one access point, and authenticates and
\* associates with one.
FromClient ==
    UNION {
      {Mgmt("probe", PROBE_REQ, a, c, a, 0, 0) : a \in Group \cup Ap, c \in Client},
      {Mgmt("request", AUTH, p, c, p, t, 0) : p \in Ap, c \in Client, t \in {1, 3}},
      {Mgmt("request", s, p, c, p, 0, 0) : s \in {ASSOC_REQ, REASSOC_REQ}, p \in Ap, c \in Client}}

\* Data, QoS data and the reserved subtype: up, down, between access points
\* (four addresses) and between clients.
Up(s)     == {Data("up", s, "to", p, c, a) : p \in Ap, c \in Client, a \in Mac}
Down(s)   == {Data("down", s, "from", a, p, b) :
                a \in Client \cup Group, p \in Ap, b \in Node}
Bridge(s) == {Data("bridge", s, "both", p, q, a) : p \in Ap, q \in Ap, a \in Mac}
Direct(s) == {Data("direct", s, "none", c, d, p) :
                c \in Client, d \in Client, p \in Ap}
DataFrames == UNION {Up(s) \cup Down(s) \cup Bridge(s) \cup Direct(s) : s \in {0, 8, 15}}

\* Another protocol version: the bytes where addresses would be are anything.
Foreign ==
    [kind : {"foreign"}, by : Node, pv : {1}, type : {MGMT, DATA},
     sub : {PROBE_REQ, BEACON}, ds : {"to"},
     a1 : Mac, a2 : Mac, a3 : Mac, transaction : {0}, status : {0}]

Traffic == FromAp \cup FromClient \cup DataFrames \cup Foreign

-----------------------------------------------------------------------------
(* The parsers.  h is a frame in hand, h.len its captured length. *)

FC_LEN == 2
HDR_LEN == 24        \* IEEE80211_MGMT_HDR_LEN, IEEE80211_DATA_HDR_BASE_LEN
BEACON_FIXED_LEN == 12

\* ieee80211_parse
Valid(h) == h.len >= FC_LEN

\* The guards of ieee80211_parse_beacon_or_probe_resp and
\* ieee80211_parse_probe_request.
DeepParses(h, fixed) ==
    h.len >= HDR_LEN + fixed /\ h.f.pv = 0 /\ ~h.order /\ ~h.frag

ToDs(h)   == h.f.ds \in {"to", "both"}
FromDs(h) == h.f.ds \in {"from", "both"}

Unicast(m) == m \notin Group

BodyLen(sub) == CASE sub = AUTH        -> 6
                  [] sub = ASSOC_REQ   -> 4
                  [] sub = REASSOC_REQ -> 10

\* Faulty variant of ieee80211_parse_client_mgmt_tx: the side is not asked for.
client_mgmt_tx_any_side(h) ==
    /\ h.len >= HDR_LEN
    /\ h.f.pv = 0 /\ h.f.type = MGMT /\ ~ToDs(h) /\ ~FromDs(h)
    /\ ~h.order /\ ~h.frag /\ ~h.prot /\ Unicast(h.f.a2)
    /\ h.f.sub \in {AUTH, ASSOC_REQ, REASSOC_REQ}
    /\ h.len >= HDR_LEN + BodyLen(h.f.sub)
    /\ h.f.sub = AUTH => h.f.transaction # 0 /\ h.f.status = 0

ieee80211_parse_client_mgmt_tx(h) ==
    /\ h.len >= HDR_LEN
    /\ h.f.pv = 0 /\ h.f.type = MGMT /\ ~ToDs(h) /\ ~FromDs(h)
    /\ ~h.order /\ ~h.frag /\ ~h.prot
    /\ h.f.a1 = h.f.a3 /\ Unicast(h.f.a2) /\ h.f.a2 # h.f.a3
    /\ h.f.sub \in {AUTH, ASSOC_REQ, REASSOC_REQ}
    /\ h.len >= HDR_LEN + BodyLen(h.f.sub)
    /\ h.f.sub = AUTH => h.f.transaction # 0 /\ h.f.status = 0

Qos(h) == h.f.sub \in 8..15
FourAddr(h) == ToDs(h) /\ FromDs(h)

header_len(h) ==
    HDR_LEN + (IF FourAddr(h) THEN 6 ELSE 0) + (IF Qos(h) THEN 2 ELSE 0)
            + (IF Qos(h) /\ h.order THEN 4 ELSE 0)

\* Faulty variant of data_status: four addresses only if there is room for
\* them.
data_status_by_length(h) ==
    IF ~Valid(h) THEN "too_short"
    ELSE IF h.f.pv # 0 \/ h.f.type # DATA THEN "bad_protocol"
    ELSE IF h.len < HDR_LEN THEN "too_short"
    ELSE IF FourAddr(h) /\ h.len >= header_len(h) THEN "wds"
    ELSE IF ~ToDs(h) /\ ~FromDs(h) THEN "ambiguous"
    ELSE "ok"

\* ieee80211_parse_data_addresses
data_status(h) ==
    IF ~Valid(h) THEN "too_short"
    ELSE IF h.f.pv # 0 \/ h.f.type # DATA THEN "bad_protocol"
    ELSE IF h.len < header_len(h) THEN "too_short"
    ELSE IF FourAddr(h) THEN "wds"
    ELSE IF ~ToDs(h) /\ ~FromDs(h) THEN "ambiguous"
    ELSE "ok"

\* The fields a parser reads after the Frame Control, and where each ends.
FieldEnd == [a1 |-> 10, a2 |-> 16, a3 |-> 22, transaction |-> 28, status |-> 30,
             a4 |-> 30, interval |-> 34, capability |-> 36]

IsApObs(h)   == Valid(h) /\ h.f.type = MGMT /\ h.f.sub \in {BEACON, PROBE_RESP}
IsProbe(h)   == Valid(h) /\ h.f.type = MGMT /\ h.f.sub = PROBE_REQ
IsRequest(h) == Valid(h) /\ h.f.type = MGMT /\ h.f.sub \in {AUTH, ASSOC_REQ, REASSOC_REQ}
IsData(h)    == Valid(h) /\ h.f.type = DATA /\ h.f.sub # 15

FieldsRead(h) ==
    UNION {
      IF IsApObs(h) /\ DeepParses(h, BEACON_FIXED_LEN)
        THEN {"a3", "interval", "capability"} ELSE {},
      IF IsProbe(h) /\ DeepParses(h, 0) THEN {"a2"} ELSE {},
      IF IsRequest(h) /\ h.len >= HDR_LEN THEN {"a1", "a2", "a3"} ELSE {},
      IF IsRequest(h) /\ h.f.sub = AUTH /\ h.len >= HDR_LEN + BodyLen(AUTH)
        THEN {"transaction", "status"} ELSE {},
      IF IsData(h) /\ data_status(h) \in {"wds", "ambiguous", "ok"}
        THEN {"a1", "a2", "a3"} ELSE {},
      IF IsData(h) /\ data_status(h) = "wds" THEN {"a4"} ELSE {}}

-----------------------------------------------------------------------------
(* What radio_rx_task makes the world model learn from a frame. *)

Nothing == [ap |-> {}, sta |-> {}, heard |-> {}]

\* world_on_ap_observation
learn_ap(h) ==
    IF DeepParses(h, BEACON_FIXED_LEN) /\ Unicast(h.f.a3)
    THEN [ap |-> {h.f.a3}, sta |-> {}, heard |-> {h.f.a3}] ELSE Nothing

\* world_on_probe_request and world_on_sta_mgmt_tx, with sta_note_tx
learn_sta(h) ==
    IF Unicast(h.f.a2)
    THEN [ap |-> {}, sta |-> {h.f.a2}, heard |-> {h.f.a2}] ELSE Nothing

data_uplink(sta, bssid) ==
    IF Unicast(sta) /\ Unicast(bssid) /\ sta # bssid
    THEN [ap |-> {bssid}, sta |-> {sta}, heard |-> {sta}] ELSE Nothing

data_downlink(bssid, dest) ==
    IF ~Unicast(bssid) THEN Nothing
    ELSE [ap |-> {bssid}, heard |-> {bssid},
          sta |-> IF Unicast(dest) /\ dest # bssid THEN {dest} ELSE {}]

\* Faulty variant of learn_data: QoS frames are not looked at.
learn_data_plain(h) ==
    IF data_status(h) = "ok" /\ ~Qos(h)
    THEN IF ToDs(h) THEN data_uplink(h.f.a2, h.f.a1)
                   ELSE data_downlink(h.f.a2, h.f.a1)
    ELSE Nothing

\* world_on_data_frame
learn_data(h) ==
    IF data_status(h) = "ok"
    THEN IF ToDs(h) THEN data_uplink(h.f.a2, h.f.a1)
                   ELSE data_downlink(h.f.a2, h.f.a1)
    ELSE Nothing

Learnt(h) ==
    IF IsApObs(h) THEN learn_ap(h)
    ELSE IF IsProbe(h) /\ DeepParses(h, 0) THEN learn_sta(h)
    ELSE IF IsRequest(h) /\ ieee80211_parse_client_mgmt_tx(h) THEN learn_sta(h)
    ELSE IF IsData(h) THEN learn_data(h)
    ELSE Nothing

-----------------------------------------------------------------------------
None == [len |-> -1]
Hand == [f : Traffic, order : BOOLEAN, frag : BOOLEAN, prot : BOOLEAN, len : Lens]
Counted == stats.data_wds + stats.data_ambiguous + stats.data_short

receive ==
    /\ hand = None /\ Counted < MAX_COUNT
    /\ \E h \in Hand : hand' = h /\ spoke' = spoke \cup {h.f.by}
    /\ UNCHANGED <<aps, stas, heard, stats>>

Learn(h) ==
    /\ aps' = aps \cup Learnt(h).ap
    /\ stas' = stas \cup Learnt(h).sta
    /\ heard' = heard \cup Learnt(h).heard
    /\ hand' = None
    /\ UNCHANGED spoke

handle_mgmt ==
    /\ hand # None
    /\ IsApObs(hand) \/ IsProbe(hand) \/ IsRequest(hand)
    /\ Learn(hand)
    /\ UNCHANGED stats

\* world_feed_data is called, and counts, only if the addresses were there.
handle_data ==
    /\ hand # None /\ IsData(hand)
    /\ Learn(hand)
    /\ stats' = CASE data_status(hand) = "wds" -> [stats EXCEPT !.data_wds = @ + 1]
                  [] data_status(hand) = "ambiguous" -> [stats EXCEPT !.data_ambiguous = @ + 1]
                  [] OTHER -> stats

\* Frames with nothing to learn from.
skip ==
    /\ hand # None
    /\ ~(IsApObs(hand) \/ IsProbe(hand) \/ IsRequest(hand) \/ IsData(hand))
    /\ hand' = None
    /\ UNCHANGED <<aps, stas, heard, stats, spoke>>

HeadersInit ==
    /\ hand = None
    /\ aps = {} /\ stas = {} /\ heard = {} /\ spoke = {}
    /\ stats = [data_wds |-> 0, data_ambiguous |-> 0, data_short |-> 0]

HeadersNext == receive \/ handle_mgmt \/ handle_data \/ skip

HeadersSpec == HeadersInit /\ [][HeadersNext]_headersVars

-----------------------------------------------------------------------------
\* Every variable has its type: only addresses of single stations are
\* recorded.
TypeOK ==
    /\ hand \in Hand \cup {None}
    /\ aps \subseteq Node /\ stas \subseteq Node /\ heard \subseteq Node
    /\ spoke \subseteq Node
    /\ stats \in [data_wds : Nat, data_ambiguous : Nat, data_short : Nat]

\* However a capture is cut and whatever header extensions a frame has, the
\* traffic of an infrastructure network never makes an access point a
\* station, nor a client an access point (ieee80211_parser.h:375-383,
\* wifi_sniffer.c:670-672, world.c:554-560).
RolesKept == aps \subseteq Ap /\ stas \subseteq Client

\* Nobody is credited with a transmission for having been sent something:
\* retransmissions to a client that has left do not keep it online
\* (world.c:534-536).
OnlySpeakersHeard == heard \subseteq spoke

\* A parser reads a field only if it is captured to its last byte
\* (ieee80211_parser.c:636-637).
ReadsInsideCapture ==
    hand # None => \A x \in FieldsRead(hand) : FieldEnd[x] <= hand.len

\* A shorter capture of the same frame teaches the same or nothing, never
\* something else.
CutOnlyLoses ==
    hand # None =>
        \A n \in Lens : n <= hand.len =>
            Learnt([hand EXCEPT !.len = n]) \in {Nothing, Learnt(hand)}

\* The guards do not reject too much: a plain frame captured to the end of
\* its longest header is learnt from, up and down, probe and request
\* (docs/PHASE2_WORLD_MODEL.md, DS mapping table).
PlainFramesTeach ==
    [][ LET f == hand.f
            plain == /\ hand # None /\ hand' = None /\ hand.len >= HDR_LEN + BEACON_FIXED_LEN
                     /\ ~hand.order /\ ~hand.frag /\ ~hand.prot /\ f.sub # 15
        IN plain => /\ f.kind \in {"probe", "request", "up"} => f.by \in stas'
                    /\ f.kind \in {"up", "down"} => {f.a1, f.a2} \cap Ap \subseteq aps'
                    /\ f.kind = "down" => {f.a1} \ Group \subseteq stas' ]_headersVars

=============================================================================
