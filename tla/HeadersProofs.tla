--------------------------- MODULE HeadersProofs ---------------------------
(***************************************************************************)
(* Proofs about Headers, for every set of clients, access points and group *)
(* addresses and every captured length.                                    *)
(***************************************************************************)
EXTENDS Headers, TLAPS

USE DEF MGMT, DATA, ASSOC_REQ, REASSOC_REQ, PROBE_REQ, PROBE_RESP, BEACON, AUTH

\* The fields of a frame.
FrameTyped(f) ==
    /\ f.pv \in {0, 1} /\ f.type \in {MGMT, DATA} /\ f.sub \in 0..15
    /\ f.ds \in {"none", "to", "from", "both"}
    /\ f.a1 \in Mac /\ f.a2 \in Mac /\ f.a3 \in Mac /\ f.by \in Node

\* Which address of which frame belongs to whom.
RolesOf(f) ==
    f.pv = 0 =>
      /\ f.by = f.a2
      /\ f.type = MGMT /\ f.sub \in {BEACON, PROBE_RESP} => f.a3 \in Ap /\ f.a3 = f.a2
      /\ f.type = MGMT /\ f.sub = PROBE_REQ => f.a2 \in Client
      /\ f.type = MGMT /\ f.sub \in {AUTH, ASSOC_REQ, REASSOC_REQ} /\ f.a1 = f.a3
           => f.a2 \in Client
      /\ f.type = DATA /\ f.ds = "to" => f.a1 \in Ap /\ f.a2 \in Client
      /\ f.type = DATA /\ f.ds = "from" => f.a2 \in Ap /\ f.a1 \in Client \cup Group

LEMMA FromApRoles == ASSUME NEW f \in FromAp PROVE FrameTyped(f) /\ RolesOf(f)
<1>1. CASE \E g \in Group, p \in Ap : f = Mgmt("answer", BEACON, g, p, p, 0, 0)
  BY <1>1 DEF Mgmt, FrameTyped, RolesOf, Mac, Node
<1>2. CASE \E s \in {1, 3, PROBE_RESP}, c \in Client, p \in Ap :
             f = Mgmt("answer", s, c, p, p, 0, 0)
  BY <1>2 DEF Mgmt, FrameTyped, RolesOf, Mac, Node
<1>3. CASE \E c \in Client, p \in Ap, t \in {2, 4}, st \in 0..1 :
             f = Mgmt("answer", AUTH, c, p, p, t, st)
  BY <1>3, HeadersAssumption DEF Mgmt, FrameTyped, RolesOf, Mac, Node
<1> QED BY <1>1, <1>2, <1>3 DEF FromAp

LEMMA FromClientRoles == ASSUME NEW f \in FromClient PROVE FrameTyped(f) /\ RolesOf(f)
<1>1. CASE \E a \in Group \cup Ap, c \in Client : f = Mgmt("probe", PROBE_REQ, a, c, a, 0, 0)
  BY <1>1 DEF Mgmt, FrameTyped, RolesOf, Mac, Node
<1>2. CASE \E p \in Ap, c \in Client, t \in {1, 3} : f = Mgmt("request", AUTH, p, c, p, t, 0)
  BY <1>2 DEF Mgmt, FrameTyped, RolesOf, Mac, Node
<1>3. CASE \E s \in {ASSOC_REQ, REASSOC_REQ}, p \in Ap, c \in Client :
             f = Mgmt("request", s, p, c, p, 0, 0)
  BY <1>3 DEF Mgmt, FrameTyped, RolesOf, Mac, Node
<1> QED BY <1>1, <1>2, <1>3 DEF FromClient

LEMMA DataRoles == ASSUME NEW f \in DataFrames PROVE FrameTyped(f) /\ RolesOf(f)
<1>0. PICK s \in {0, 8, 15} : f \in Up(s) \cup Down(s) \cup Bridge(s) \cup Direct(s)
  BY DEF DataFrames
<1>1. CASE f \in Up(s)
  <2>1. PICK p \in Ap, c \in Client, a \in Mac : f = Data("up", s, "to", p, c, a)
    BY <1>1 DEF Up
  <2> QED BY <1>0, <2>1 DEF Data, FrameTyped, RolesOf, Mac, Node
<1>2. CASE f \in Down(s)
  <2>1. PICK a \in Client \cup Group, p \in Ap, b \in Node :
             f = Data("down", s, "from", a, p, b)
    BY <1>2 DEF Down
  <2> QED BY <1>0, <2>1 DEF Data, FrameTyped, RolesOf, Mac, Node
<1>3. CASE f \in Bridge(s)
  <2>1. PICK p \in Ap, q \in Ap, a \in Mac : f = Data("bridge", s, "both", p, q, a)
    BY <1>3 DEF Bridge
  <2> QED BY <1>0, <2>1 DEF Data, FrameTyped, RolesOf, Mac, Node
<1>4. CASE f \in Direct(s)
  <2>1. PICK c \in Client, d \in Client, p \in Ap :
             f = Data("direct", s, "none", c, d, p)
    BY <1>4 DEF Direct
  <2> QED BY <1>0, <2>1 DEF Data, FrameTyped, RolesOf, Mac, Node
<1> QED BY <1>0, <1>1, <1>2, <1>3, <1>4

LEMMA ForeignRoles == ASSUME NEW f \in Foreign PROVE FrameTyped(f) /\ RolesOf(f)
<1>1. f.pv = 1 /\ f.type \in {MGMT, DATA} /\ f.sub \in 0..15
  BY DEF Foreign
<1>2. f.ds \in {"none", "to", "from", "both"}
  BY DEF Foreign
<1>3. f.a1 \in Mac /\ f.a2 \in Mac /\ f.a3 \in Mac /\ f.by \in Node
  BY DEF Foreign
<1> QED BY <1>1, <1>2, <1>3 DEF FrameTyped, RolesOf

\* Every frame on the air has typed fields and addresses of the roles the
\* 802.11 standard gives them.
LEMMA TrafficRoles == ASSUME NEW f \in Traffic PROVE FrameTyped(f) /\ RolesOf(f)
  BY FromApRoles, FromClientRoles, DataRoles, ForeignRoles DEF Traffic

LEMMA NotGroup == ASSUME NEW m \in Mac PROVE Unicast(m) => m \in Node
  BY DEF Mac, Unicast

-----------------------------------------------------------------------------
\* What a frame teaches names each address in its role and credits only the
\* sender.
Proper(l, f) ==
    /\ l.ap \subseteq Ap /\ l.sta \subseteq Client /\ l.heard \subseteq {f.by}

LEMMA NothingProper == ASSUME NEW f PROVE Proper(Nothing, f)
  BY DEF Proper, Nothing

LEMMA LearntProper ==
    ASSUME NEW h \in Hand PROVE Proper(Learnt(h), h.f)
<1> DEFINE f == h.f
<1>1. FrameTyped(f) /\ RolesOf(f)
  BY TrafficRoles DEF Hand
<1>2. CASE IsApObs(h)
  <2>1. DeepParses(h, BEACON_FIXED_LEN) => f.a3 \in Ap /\ f.a3 = f.by
    BY <1>1, <1>2 DEF IsApObs, DeepParses, RolesOf, FrameTyped
  <2>2. Proper(learn_ap(h), f)
    BY <2>1, NothingProper DEF learn_ap, Proper
  <2> QED BY <1>2, <2>2 DEF Learnt
<1>3. CASE IsProbe(h) /\ DeepParses(h, 0)
  <2>1. f.a2 \in Client /\ f.a2 = f.by
    BY <1>1, <1>3 DEF IsProbe, DeepParses, RolesOf, FrameTyped
  <2>2. Proper(learn_sta(h), f)
    BY <2>1, NothingProper DEF learn_sta, Proper
  <2>3. ~IsApObs(h)
    BY <1>3 DEF IsProbe, IsApObs
  <2> QED BY <1>3, <2>2, <2>3 DEF Learnt
<1>4. CASE IsRequest(h) /\ ieee80211_parse_client_mgmt_tx(h)
  <2>1. f.a2 \in Client /\ f.a2 = f.by
    BY <1>1, <1>4 DEF IsRequest, ieee80211_parse_client_mgmt_tx, RolesOf, FrameTyped
  <2>2. Proper(learn_sta(h), f)
    BY <2>1, NothingProper DEF learn_sta, Proper
  <2>3. ~IsApObs(h) /\ ~IsProbe(h)
    BY <1>4 DEF IsRequest, IsProbe, IsApObs
  <2> QED BY <1>4, <2>2, <2>3 DEF Learnt
<1>5. CASE IsData(h)
  <2>1. ~IsApObs(h) /\ ~IsProbe(h) /\ ~IsRequest(h)
    BY <1>5 DEF IsData, IsProbe, IsApObs, IsRequest
  <2>2. CASE data_status(h) = "ok"
    <3>1. f.pv = 0 /\ f.type = DATA /\ ~FourAddr(h) /\ (ToDs(h) \/ FromDs(h))
      BY <2>2 DEF data_status
    <3>2. CASE ToDs(h)
      <4>1. f.a1 \in Ap /\ f.a2 \in Client /\ f.a2 = f.by
        BY <1>1, <3>1, <3>2 DEF FourAddr, ToDs, FromDs, RolesOf, FrameTyped
      <4>2. Proper(data_uplink(f.a2, f.a1), f)
        BY <4>1, NothingProper DEF data_uplink, Proper
      <4> QED BY <2>1, <1>5, <2>2, <3>2, <4>2 DEF Learnt, learn_data
    <3>3. CASE ~ToDs(h)
      <4>1. f.a2 \in Ap /\ f.a1 \in Client \cup Group /\ f.a2 = f.by
        BY <1>1, <3>1, <3>3 DEF ToDs, FromDs, RolesOf, FrameTyped
      <4>2. Proper(data_downlink(f.a2, f.a1), f)
        BY <4>1, NothingProper DEF data_downlink, Proper, Unicast
      <4> QED BY <2>1, <1>5, <2>2, <3>3, <4>2 DEF Learnt, learn_data
    <3> QED BY <3>2, <3>3
  <2>3. CASE data_status(h) # "ok"
    BY <1>5, <2>1, <2>3, NothingProper DEF Learnt, learn_data
  <2> QED BY <2>2, <2>3
<1>6. CASE /\ ~IsApObs(h) /\ ~(IsProbe(h) /\ DeepParses(h, 0))
           /\ ~(IsRequest(h) /\ ieee80211_parse_client_mgmt_tx(h)) /\ ~IsData(h)
  BY <1>6, NothingProper DEF Learnt
<1> QED BY <1>2, <1>3, <1>4, <1>5, <1>6

-----------------------------------------------------------------------------
\* The invariant the proofs go through: the sender of the frame in hand has
\* spoken.
SenderSpoke == hand # None => hand.f.by \in spoke

HInv == TypeOK /\ RolesKept /\ OnlySpeakersHeard /\ SenderSpoke

LEMMA HandIsSomething == ASSUME NEW h \in Hand PROVE h # None
  BY HeadersAssumption DEF Hand, None

LEMMA HInit == HeadersInit => HInv
  BY DEF HeadersInit, HInv, TypeOK, RolesKept, OnlySpeakersHeard, SenderSpoke

LEMMA LearnKeeps ==
    ASSUME HInv, hand # None, Learn(hand) 
    PROVE  /\ aps' \subseteq Ap /\ stas' \subseteq Client /\ heard' \subseteq spoke
           /\ hand' = None /\ spoke' = spoke
  <1>1. hand \in Hand
    BY DEF HInv, TypeOK
  <1>2. Proper(Learnt(hand), hand.f)
    BY <1>1, LearntProper
  <1> QED
    BY <1>2 DEF HInv, RolesKept, OnlySpeakersHeard, SenderSpoke, Proper, Learn

LEMMA HNext == HInv /\ [HeadersNext]_headersVars => HInv'
<1> SUFFICES ASSUME HInv, [HeadersNext]_headersVars PROVE HInv'
  OBVIOUS
<1> USE DEF HInv
<1>1. CASE receive
  <2>1. PICK h \in Hand : hand' = h /\ spoke' = spoke \cup {h.f.by}
    BY <1>1 DEF receive
  <2>2. h.f.by \in Node
    BY TrafficRoles DEF Hand, FrameTyped
  <2> QED
    BY <1>1, <2>1, <2>2 DEF receive, TypeOK, RolesKept, OnlySpeakersHeard, SenderSpoke
<1>2. CASE handle_mgmt
  <2>1. hand # None /\ Learn(hand) /\ UNCHANGED stats
    BY <1>2 DEF handle_mgmt
  <2>2. /\ aps' \subseteq Ap /\ stas' \subseteq Client /\ heard' \subseteq spoke
        /\ hand' = None /\ spoke' = spoke
    BY <2>1, LearnKeeps
  <2> QED
    BY <2>1, <2>2 DEF TypeOK, RolesKept, OnlySpeakersHeard, SenderSpoke, Node
<1>3. CASE handle_data
  <2>1. hand # None /\ Learn(hand)
    BY <1>3 DEF handle_data
  <2>2. /\ aps' \subseteq Ap /\ stas' \subseteq Client /\ heard' \subseteq spoke
        /\ hand' = None /\ spoke' = spoke
    BY <2>1, LearnKeeps
  <2>3. stats' \in [data_wds : Nat, data_ambiguous : Nat, data_short : Nat]
    BY <1>3 DEF handle_data, TypeOK
  <2> QED
    BY <2>2, <2>3 DEF TypeOK, RolesKept, OnlySpeakersHeard, SenderSpoke, Node
<1>4. CASE skip
  BY <1>4 DEF skip, TypeOK, RolesKept, OnlySpeakersHeard, SenderSpoke
<1>5. CASE UNCHANGED headersVars
  BY <1>5 DEF headersVars, TypeOK, RolesKept, OnlySpeakersHeard, SenderSpoke
<1> QED
  BY <1>1, <1>2, <1>3, <1>4, <1>5 DEF HeadersNext

LEMMA HeadersInvariant == HeadersSpec => []HInv
  BY HInit, HNext, PTL DEF HeadersSpec

\* Every variable of radio_rx_task's model keeps its type, and only addresses
\* of single stations are ever recorded.
THEOREM TypeCorrect == HeadersSpec => []TypeOK
  BY HeadersInvariant, PTL DEF HInv

\* For every network with any number of clients and access points, and every
\* cut of every frame: no access point becomes a station and no client an
\* access point (ieee80211_parse_client_mgmt_tx, world_on_data_frame).
THEOREM NodesKeepTheirRoles == HeadersSpec => []RolesKept
  BY HeadersInvariant, PTL DEF HInv

\* Only who transmitted is credited with a transmission (data_downlink).
THEOREM SilenceIsNotHeard == HeadersSpec => []OnlySpeakersHeard
  BY HeadersInvariant, PTL DEF HInv

-----------------------------------------------------------------------------
\* The fields a parser reads end inside the capture, for every length.
LEMMA ReadsInside ==
    ASSUME NEW h \in Hand, NEW x \in FieldsRead(h) PROVE FieldEnd[x] <= h.len
<1>1. h.len \in Nat /\ FrameTyped(h.f)
  BY HeadersAssumption, TrafficRoles DEF Hand
<1>2. DeepParses(h, BEACON_FIXED_LEN) => h.len >= 36
  BY <1>1 DEF DeepParses, HDR_LEN, BEACON_FIXED_LEN
<1>3. DeepParses(h, 0) => h.len >= 24
  BY <1>1 DEF DeepParses, HDR_LEN
<1>4. h.len >= HDR_LEN + BodyLen(AUTH) => h.len >= 30
  BY <1>1 DEF BodyLen, HDR_LEN
<1>5. data_status(h) \in {"wds", "ambiguous", "ok"} => h.len >= 24
  BY <1>1 DEF data_status, header_len, HDR_LEN
<1>6. data_status(h) = "wds" => h.len >= 30
  BY <1>1 DEF data_status, header_len, HDR_LEN
<1>7. h.len >= HDR_LEN => h.len >= 24
  BY DEF HDR_LEN
<1>8. \/ x \in {"a3", "interval", "capability"} /\ h.len >= 36
      \/ x \in {"a1", "a2", "a3"} /\ h.len >= 24
      \/ x \in {"transaction", "status", "a4"} /\ h.len >= 30
  BY <1>2, <1>3, <1>4, <1>5, <1>6, <1>7 DEF FieldsRead
<1> QED
  BY <1>1, <1>8 DEF FieldEnd

\* No parser reads an address or a fixed field that is not captured to its
\* last byte (ieee80211_parser.c:636-653).
THEOREM NoReadPastCapture == HeadersSpec => []ReadsInsideCapture
<1>1. TypeOK => ReadsInsideCapture
  BY ReadsInside DEF TypeOK, ReadsInsideCapture
<1> QED
  BY <1>1, TypeCorrect, PTL

-----------------------------------------------------------------------------
\* Cutting a frame shorter either leaves what it teaches as it is or makes it
\* teach nothing.
LEMMA ShorterTeachesNoMore ==
    ASSUME NEW h \in Hand, NEW n \in Lens, n <= h.len
    PROVE  Learnt([h EXCEPT !.len = n]) \in {Nothing, Learnt(h)}
<1> DEFINE g == [h EXCEPT !.len = n]
<1>1. /\ g.f = h.f /\ g.order = h.order /\ g.frag = h.frag /\ g.prot = h.prot
      /\ g.len = n
  BY DEF Hand
<1>2. n \in Nat /\ h.len \in Nat /\ FrameTyped(h.f)
  BY HeadersAssumption, TrafficRoles DEF Hand
<1> HIDE DEF g
<1>3. Valid(g) => Valid(h)
  BY <1>1, <1>2 DEF Valid, FC_LEN
<1>4. /\ IsApObs(g) => IsApObs(h)
      /\ IsProbe(g) => IsProbe(h)
      /\ IsRequest(g) => IsRequest(h)
      /\ IsData(g) => IsData(h)
  BY <1>1, <1>3 DEF IsApObs, IsProbe, IsRequest, IsData
<1>5. CASE IsApObs(g)
  <2>1. Learnt(g) = learn_ap(g) /\ Learnt(h) = learn_ap(h)
    BY <1>4, <1>5 DEF Learnt
  <2>2. DeepParses(g, BEACON_FIXED_LEN) => DeepParses(h, BEACON_FIXED_LEN)
    BY <1>1, <1>2 DEF DeepParses, HDR_LEN, BEACON_FIXED_LEN
  <2>3. learn_ap(g) \in {Nothing, learn_ap(h)}
    BY <1>1, <2>2 DEF learn_ap
  <2> QED BY <2>1, <2>3 DEF g
<1>6. CASE IsProbe(g) /\ DeepParses(g, 0)
  <2>1. IsProbe(h) /\ DeepParses(h, 0)
    BY <1>1, <1>2, <1>4, <1>6 DEF DeepParses, HDR_LEN
  <2>2. ~IsApObs(h) /\ ~IsApObs(g)
    BY <1>6, <2>1 DEF IsProbe, IsApObs
  <2>3. learn_sta(g) = learn_sta(h)
    BY <1>1 DEF learn_sta
  <2> QED BY <1>6, <2>1, <2>2, <2>3 DEF Learnt, g
<1>7. CASE IsRequest(g) /\ ieee80211_parse_client_mgmt_tx(g)
  <2>1. h.f.sub \in {AUTH, ASSOC_REQ, REASSOC_REQ} => BodyLen(h.f.sub) \in Nat
    BY DEF BodyLen
  <2>2. IsRequest(h) /\ ieee80211_parse_client_mgmt_tx(h)
    BY <1>1, <1>2, <1>4, <1>7, <2>1 DEF ieee80211_parse_client_mgmt_tx, ToDs, FromDs, HDR_LEN
  <2>3. ~IsApObs(h) /\ ~IsApObs(g) /\ ~IsProbe(h) /\ ~IsProbe(g)
    BY <1>7, <2>2 DEF IsRequest, IsProbe, IsApObs
  <2>4. learn_sta(g) = learn_sta(h)
    BY <1>1 DEF learn_sta
  <2> QED BY <1>7, <2>2, <2>3, <2>4 DEF Learnt, g
<1>8. CASE IsData(g)
  <2>1. /\ ~IsApObs(h) /\ ~IsApObs(g) /\ ~IsProbe(h) /\ ~IsProbe(g)
        /\ ~IsRequest(h) /\ ~IsRequest(g)
    BY <1>4, <1>8 DEF IsData, IsRequest, IsProbe, IsApObs
  <2>2. header_len(g) = header_len(h) /\ header_len(h) \in Nat
    BY <1>1 DEF header_len, HDR_LEN, Qos, FourAddr, ToDs, FromDs
  <2>3. data_status(g) = "ok" => data_status(h) = "ok"
    BY <1>1, <1>2, <1>3, <2>2 DEF data_status, FourAddr, ToDs, FromDs
  <2>4. learn_data(g) \in {Nothing, learn_data(h)}
    BY <1>1, <2>3 DEF learn_data, ToDs
  <2> QED BY <1>4, <1>8, <2>1, <2>4 DEF Learnt, g
<1>9. CASE /\ ~IsApObs(g) /\ ~(IsProbe(g) /\ DeepParses(g, 0))
           /\ ~(IsRequest(g) /\ ieee80211_parse_client_mgmt_tx(g)) /\ ~IsData(g)
  BY <1>9 DEF Learnt, g
<1> QED BY <1>5, <1>6, <1>7, <1>8, <1>9

\* Whatever part of a frame is captured, the world model learns what the
\* whole frame says or nothing.
THEOREM CutFramesNeverMislead == HeadersSpec => []CutOnlyLoses
<1>1. TypeOK => CutOnlyLoses
  BY ShorterTeachesNoMore DEF TypeOK, CutOnlyLoses
<1> QED
  BY <1>1, TypeCorrect, PTL

-----------------------------------------------------------------------------
\* What the kind of a frame says of its fields, as far as the guards of the
\* parsers look at them.
KindSays(f) ==
    /\ f.kind \in {"probe", "request", "up", "down"} => f.pv = 0
    /\ f.kind \in {"probe", "request"} =>
         /\ f.type = MGMT /\ f.ds = "none" /\ f.a2 \in Client /\ f.by = f.a2
    /\ f.kind = "probe" => f.sub = PROBE_REQ
    /\ f.kind = "request" =>
         /\ f.sub \in {AUTH, ASSOC_REQ, REASSOC_REQ}
         /\ f.a1 = f.a3 /\ f.a3 \in Ap /\ f.status = 0
         /\ f.sub = AUTH => f.transaction # 0
    /\ f.kind = "up" =>
         /\ f.type = DATA /\ f.ds = "to" /\ f.by = f.a2
         /\ f.a1 \in Ap /\ f.a2 \in Client
    /\ f.kind = "down" =>
         /\ f.type = DATA /\ f.ds = "from"
         /\ f.a2 \in Ap /\ f.a1 \in Client \cup Group

LEMMA TrafficKinds == ASSUME NEW f \in Traffic PROVE KindSays(f)
<1>1. CASE f \in FromAp
  <2>1. f.kind = "answer"
    BY <1>1 DEF FromAp, Mgmt
  <2> QED BY <2>1 DEF KindSays
<1>2. CASE f \in FromClient
  <2>1. CASE \E a \in Group \cup Ap, c \in Client :
               f = Mgmt("probe", PROBE_REQ, a, c, a, 0, 0)
    BY <2>1 DEF Mgmt, KindSays
  <2>2. CASE \E p \in Ap, c \in Client, t \in {1, 3} :
               f = Mgmt("request", AUTH, p, c, p, t, 0)
    BY <2>2 DEF Mgmt, KindSays
  <2>3. CASE \E s \in {ASSOC_REQ, REASSOC_REQ}, p \in Ap, c \in Client :
               f = Mgmt("request", s, p, c, p, 0, 0)
    BY <2>3 DEF Mgmt, KindSays
  <2> QED BY <1>2, <2>1, <2>2, <2>3 DEF FromClient
<1>3. CASE f \in DataFrames
  <2>0. PICK s \in {0, 8, 15} : f \in Up(s) \cup Down(s) \cup Bridge(s) \cup Direct(s)
    BY <1>3 DEF DataFrames
  <2>1. CASE f \in Up(s)
    <3>1. PICK p \in Ap, c \in Client, a \in Mac : f = Data("up", s, "to", p, c, a)
      BY <2>1 DEF Up
    <3> QED BY <3>1 DEF Data, KindSays
  <2>2. CASE f \in Down(s)
    <3>1. PICK a \in Client \cup Group, p \in Ap, b \in Node :
               f = Data("down", s, "from", a, p, b)
      BY <2>2 DEF Down
    <3> QED BY <3>1 DEF Data, KindSays
  <2>3. CASE f \in Bridge(s) \cup Direct(s)
    <3>1. f.kind \in {"bridge", "direct"}
      BY <2>3 DEF Bridge, Direct, Data
    <3> QED BY <3>1 DEF KindSays
  <2> QED BY <2>0, <2>1, <2>2, <2>3
<1>4. CASE f \in Foreign
  <2>1. f.kind = "foreign"
    BY <1>4 DEF Foreign
  <2> QED BY <2>1 DEF KindSays
<1> QED BY <1>1, <1>2, <1>3, <1>4 DEF Traffic

\* A frame without header extensions, captured to the end of its longest
\* header.
Plain(h) ==
    /\ h.len >= HDR_LEN + BEACON_FIXED_LEN
    /\ ~h.order /\ ~h.frag /\ ~h.prot /\ h.f.sub # 15

\* A plain frame with anything to say is handed to the world model.
Dispatched(h) == IsApObs(h) \/ IsProbe(h) \/ IsRequest(h) \/ IsData(h)

LEMMA PlainTeaches ==
    ASSUME NEW h \in Hand, Plain(h)
    PROVE  /\ h.f.kind \in {"probe", "request", "up", "down"} => Dispatched(h)
           /\ h.f.kind \in {"probe", "request", "up"} => h.f.by \in Learnt(h).sta
           /\ h.f.kind \in {"up", "down"} => {h.f.a1, h.f.a2} \cap Ap \subseteq Learnt(h).ap
           /\ h.f.kind = "down" => {h.f.a1} \ Group \subseteq Learnt(h).sta
<1>1. /\ h.len \in Nat /\ h.len >= 36
      /\ ~h.order /\ ~h.frag /\ ~h.prot /\ h.f.sub # 15
      /\ KindSays(h.f) /\ h.f.sub \in 0..15
  <2>1. h.f \in Traffic /\ h.len \in Nat
    BY HeadersAssumption DEF Hand
  <2>2. KindSays(h.f) /\ FrameTyped(h.f)
    BY <2>1, TrafficKinds, TrafficRoles
  <2>3. h.len >= 36
    BY <2>1 DEF Plain, HDR_LEN, BEACON_FIXED_LEN
  <2> QED BY <2>1, <2>2, <2>3 DEF Plain, FrameTyped
<1>2. Valid(h)
  BY <1>1 DEF Valid, FC_LEN
<1>3. \A m \in Node : Unicast(m)
  BY HeadersAssumption DEF Unicast, Node
<1>4. CASE h.f.kind = "probe"
  <2>1. IsProbe(h) /\ ~IsApObs(h) /\ DeepParses(h, 0)
    BY <1>1, <1>2, <1>4 DEF IsProbe, IsApObs, DeepParses, HDR_LEN, KindSays
  <2>2. learn_sta(h).sta = {h.f.a2} /\ h.f.by = h.f.a2
    BY <1>1, <1>3, <1>4 DEF learn_sta, KindSays, Node
  <2> QED BY <1>4, <2>1, <2>2 DEF Learnt, Dispatched
<1>5. CASE h.f.kind = "request"
  <2>1. IsRequest(h) /\ ~IsApObs(h) /\ ~IsProbe(h)
    BY <1>1, <1>2, <1>5 DEF IsRequest, IsProbe, IsApObs, KindSays
  <2>2. HDR_LEN + BodyLen(h.f.sub) <= 36
    BY <1>1, <1>5 DEF BodyLen, HDR_LEN, KindSays
  <2>3. h.f.a2 # h.f.a3 /\ Unicast(h.f.a2)
    BY <1>1, <1>3, <1>5, HeadersAssumption DEF KindSays, Node
  <2>4. h.len >= HDR_LEN /\ h.len >= HDR_LEN + BodyLen(h.f.sub)
    <3>1. h.f.sub \in {AUTH, ASSOC_REQ, REASSOC_REQ}
      BY <1>1, <1>5 DEF KindSays
    <3> QED BY <1>1, <3>1 DEF BodyLen, HDR_LEN
  <2>5. ieee80211_parse_client_mgmt_tx(h)
    BY <1>1, <1>5, <2>3, <2>4 DEF ieee80211_parse_client_mgmt_tx, KindSays, ToDs, FromDs
  <2>6. learn_sta(h).sta = {h.f.a2} /\ h.f.by = h.f.a2
    BY <1>1, <1>5, <2>3 DEF learn_sta, KindSays
  <2> QED BY <1>5, <2>1, <2>5, <2>6 DEF Learnt, Dispatched
<1>6. CASE h.f.kind \in {"up", "down"}
  <2>1. /\ IsData(h) /\ ~IsApObs(h) /\ ~IsProbe(h) /\ ~IsRequest(h)
    BY <1>1, <1>2, <1>6 DEF IsData, IsRequest, IsProbe, IsApObs, KindSays
  <2>2. ~FourAddr(h) /\ (ToDs(h) \/ FromDs(h))
    BY <1>1, <1>6 DEF KindSays, FourAddr, ToDs, FromDs
  <2>3. h.len >= header_len(h)
    BY <1>1, <2>2 DEF header_len, HDR_LEN
  <2>4. data_status(h) = "ok"
    <3>1. h.f.pv = 0 /\ h.f.type = DATA
      BY <1>1, <1>6 DEF KindSays
    <3>2. header_len(h) \in Nat
      BY <2>2 DEF header_len, HDR_LEN
    <3>3. ~(h.len < header_len(h))
      BY <1>1, <2>3, <3>2
    <3> QED BY <1>2, <2>2, <3>1, <3>3 DEF data_status
  <2>5. Learnt(h) = learn_data(h) /\ Dispatched(h)
    BY <2>1 DEF Learnt, Dispatched
  <2>6. CASE h.f.kind = "up"
    <3>1. /\ h.f.a1 \in Ap /\ h.f.a2 \in Client /\ h.f.by = h.f.a2 /\ ToDs(h)
      BY <1>1, <2>6 DEF KindSays, ToDs
    <3>2. /\ Unicast(h.f.a1) /\ Unicast(h.f.a2) /\ h.f.a1 # h.f.a2
          /\ h.f.a2 \notin Ap
      BY <1>3, <3>1, HeadersAssumption DEF Node
    <3>3. Learnt(h) = data_uplink(h.f.a2, h.f.a1)
      BY <2>4, <2>5, <3>1 DEF learn_data
    <3>4. Learnt(h).ap = {h.f.a1} /\ Learnt(h).sta = {h.f.a2}
      BY <3>2, <3>3 DEF data_uplink
    <3> QED BY <2>5, <2>6, <3>1, <3>2, <3>4
  <2>7. CASE h.f.kind = "down"
    <3>1. /\ h.f.a2 \in Ap /\ h.f.a1 \in Client \cup Group /\ ~ToDs(h)
      BY <1>1, <2>7 DEF KindSays, ToDs
    <3>2. Unicast(h.f.a2) /\ h.f.a1 # h.f.a2 /\ h.f.a1 \notin Ap
      BY <1>3, <3>1, HeadersAssumption DEF Node
    <3>3. Learnt(h) = data_downlink(h.f.a2, h.f.a1)
      BY <2>4, <2>5, <3>1 DEF learn_data
    <3>4. Learnt(h).ap = {h.f.a2} /\ {h.f.a1} \ Group \subseteq Learnt(h).sta
      BY <3>2, <3>3 DEF data_downlink, Unicast
    <3> QED BY <2>5, <2>7, <3>2, <3>4
  <2> QED BY <1>6, <2>6, <2>7
<1> QED BY <1>4, <1>5, <1>6

\* No guard rejects too much: whatever the traffic before, a plain probe,
\* request or data frame that leaves the task's hands has made its addresses
\* known in their roles (the dispatch of radio_rx_task and the guards of
\* every parser it calls).
THEOREM PlainFramesAlwaysTeach == HeadersSpec => PlainFramesTeach
<1> DEFINE Teaches ==
       LET f == hand.f
           plain == /\ hand # None /\ hand' = None /\ hand.len >= HDR_LEN + BEACON_FIXED_LEN
                    /\ ~hand.order /\ ~hand.frag /\ ~hand.prot /\ f.sub # 15
       IN plain => /\ f.kind \in {"probe", "request", "up"} => f.by \in stas'
                   /\ f.kind \in {"up", "down"} => {f.a1, f.a2} \cap Ap \subseteq aps'
                   /\ f.kind = "down" => {f.a1} \ Group \subseteq stas'
<1>1. HInv /\ [HeadersNext]_headersVars => [Teaches]_headersVars
  <2> SUFFICES ASSUME HInv, HeadersNext, hand # None, hand' = None, Plain(hand)
               PROVE  /\ hand.f.kind \in {"probe", "request", "up"} => hand.f.by \in stas'
                      /\ hand.f.kind \in {"up", "down"} =>
                           {hand.f.a1, hand.f.a2} \cap Ap \subseteq aps'
                      /\ hand.f.kind = "down" => {hand.f.a1} \ Group \subseteq stas'
    BY DEF Plain
  <2>1. hand \in Hand
    BY DEF HInv, TypeOK
  <2>2. CASE Learn(hand)
    BY <2>1, <2>2, PlainTeaches DEF Learn
  <2>3. CASE skip
    BY <2>1, <2>3, PlainTeaches DEF skip, Dispatched
  <2> QED BY <2>2, <2>3 DEF HeadersNext, receive, handle_mgmt, handle_data
<1>2. PlainFramesTeach <=> [][Teaches]_headersVars
  BY DEF PlainFramesTeach
<1> QED
  BY <1>1, <1>2, HeadersInvariant, PTL DEF HeadersSpec

=============================================================================
