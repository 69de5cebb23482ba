------------------------------- MODULE Parser -------------------------------
(***************************************************************************)
(* The deep parsers of ieee80211_parser.c: the walk over the information   *)
(* elements of a beacon, a probe response or a probe request, and the      *)
(* decoding of the RSN and WPA elements.                                   *)
(*                                                                         *)
(* A frame is known by its elements, each with its identifier, its         *)
(* declared length and what its body holds, and by the length of the area  *)
(* they were written to, which may end inside the last element or leave a  *)
(* byte behind it.  The walker sees the frame through a capture.  To       *)
(* compare what a capture teaches with what the frame says, the same frame *)
(* is walked twice: whole, and cut at an arbitrary byte.                   *)
(***************************************************************************)
EXTENDS Integers, Sequences

CONSTANTS
    Element,     \* the elements a frame is made of
    MAX_ELEMENTS,\* bound on their number
    SSID_MAX,    \* IEEE80211_SSID_MAX_LEN                               (32)
    HW_MAX       \* the highest channel the DS element may name          (14)

ASSUME BoundAssumption == MAX_ELEMENTS \in Nat /\ SSID_MAX \in Nat /\ HW_MAX \in Nat
ASSUME ElementAssumption ==
    \A e \in Element : /\ e.id \in {"ssid", "ds", "rsn", "wpa", "other"}
                       /\ e.len \in Nat

VARIABLES
    mode,      \* the frame is a beacon or probe response, or a probe request
    ies,       \* its elements
    end,       \* the length of its element area
    cut,       \* the captured length of that area; -1: cut in the header
    walk       \* the two walkers: next element, position, what they saw and
               \* what they wrote
vars == <<mode, ies, end, cut, walk>>
frameVars == <<mode, ies, end, cut>>

Walker == {"whole", "cut"}

-----------------------------------------------------------------------------
(* parse_security_suites: version, group suite, pairwise suites, AKM       *)
(* suites, capabilities, and for RSN a PMKID list and the group management *)
(* suite.  `rem` counts the bytes left; a count is compared by division.   *)

AfterPairwise(len, s) == len - 8 - 4 * s.pairwise
AfterAkm(len, s) ==
    LET rem == AfterPairwise(len, s)
    IN IF rem >= 2 THEN rem - 2 - 4 * s.akm ELSE rem
AfterCaps(len, s) ==
    LET rem == AfterAkm(len, s) IN IF rem >= 2 THEN rem - 2 ELSE rem

parse_security_suites(len, is_rsn, s) ==
    /\ s.version = 1 /\ len >= 8
    /\ s.pairwise # 0 /\ s.pairwise <= (len - 8) \div 4
    /\ AfterPairwise(len, s) >= 2 =>
          s.akm # 0 /\ s.akm <= (AfterPairwise(len, s) - 2) \div 4
    /\ AfterAkm(len, s) # 1
    /\ LET rem == AfterCaps(len, s)
       IN \/ rem = 0
          \/ /\ is_rsn /\ rem >= 2
             /\ s.pmkid <= (rem - 2) \div 16
             /\ rem - 2 - 16 * s.pmkid \in {0, 4}

\* A WPA element is a vendor element: its suites follow four bytes of OUI.
Decodes(e) ==
    CASE e.id = "rsn" -> parse_security_suites(e.len, TRUE, e.body)
      [] e.id = "wpa" -> parse_security_suites(e.len - 4, FALSE, e.body)

-----------------------------------------------------------------------------
(* walk_information_elements *)

NoSuites == [version |-> 0, pairwise |-> 0, akm |-> 0, pmkid |-> 0]

Silence == [ssid |-> "none", channel |-> 0, rsn_present |-> FALSE,
            wpa_present |-> FALSE, rsn |-> NoSuites, wpa |-> NoSuites,
            malformed |-> FALSE, incomplete |-> FALSE, dup_critical |-> FALSE,
            dup_security |-> FALSE, complete |-> FALSE]

Length(w) == IF w = "whole" THEN end ELSE cut
Left(w)   == Length(w) - walk[w].pos
Walking(w) == ~walk[w].done /\ (w = "cut" => walk["whole"].done)

Ie(w) == ies[walk[w].next]

\* The next element is there, header and body.
Fits(w, id) == /\ Walking(w) /\ Left(w) >= 2
               /\ Ie(w).id = id /\ Ie(w).len <= Left(w) - 2

Advance(w, out, seen) ==
    /\ walk' = [walk EXCEPT ![w].next = @ + 1, ![w].pos = @ + 2 + Ie(w).len,
                            ![w].seen = @ \cup seen, ![w].out = out]
    /\ UNCHANGED frameVars

\* What the caller adds: a cut capture is never complete.
Stop(w, out) ==
    LET told == [out EXCEPT !.incomplete = @ \/ w = "cut"]
    IN /\ walk' = [walk EXCEPT ![w].done = TRUE,
                               ![w].out = [told EXCEPT !.complete =
                                   ~(told.malformed \/ told.incomplete
                                     \/ told.dup_critical \/ told.dup_security)]]
       /\ UNCHANGED frameVars

Out(w) == walk[w].out
Malformed(w) == Stop(w, [Out(w) EXCEPT !.malformed = TRUE])

\* A tail that cannot be read: unknowable in a cut capture, wrong in a whole
\* frame.
BadTail(w) == IF w = "cut" THEN Stop(w, [Out(w) EXCEPT !.incomplete = TRUE])
              ELSE Malformed(w)

\* The capture ends in the header of the frame.
refuse(w) ==
    /\ Walking(w) /\ Length(w) < 0
    /\ walk' = [walk EXCEPT ![w].done = TRUE]
    /\ UNCHANGED frameVars

walk_ends(w) == Walking(w) /\ Left(w) = 0 /\ Stop(w, Out(w))

byte_left(w) == Walking(w) /\ Left(w) = 1 /\ BadTail(w)

\* Faulty variant of overruns: a cut capture is taken for a bad frame.
overruns_malformed(w) ==
    /\ Walking(w) /\ Left(w) >= 2 /\ Ie(w).len > Left(w) - 2
    /\ Malformed(w)

overruns(w) ==
    /\ Walking(w) /\ Left(w) >= 2 /\ Ie(w).len > Left(w) - 2
    /\ BadTail(w)

ssid_too_long(w) ==
    /\ Fits(w, "ssid") /\ Ie(w).len > SSID_MAX
    /\ Malformed(w)

ssid_first(w) ==
    /\ Fits(w, "ssid") /\ Ie(w).len <= SSID_MAX /\ "ssid" \notin walk[w].seen
    /\ Advance(w, [Out(w) EXCEPT !.ssid = Ie(w).body], {"ssid"})

\* Faulty variant of ssid_again: the last name wins.
ssid_replaced(w) ==
    /\ Fits(w, "ssid") /\ Ie(w).len <= SSID_MAX /\ "ssid" \in walk[w].seen
    /\ Advance(w, [Out(w) EXCEPT !.ssid = Ie(w).body], {})

ssid_again(w) ==
    /\ Fits(w, "ssid") /\ Ie(w).len <= SSID_MAX /\ "ssid" \in walk[w].seen
    /\ Advance(w, [Out(w) EXCEPT !.dup_critical = TRUE], {})

ds_bad_length(w) ==
    /\ Fits(w, "ds") /\ Ie(w).len # 1
    /\ Malformed(w)

\* A channel that does not exist is ignored; a probe request stores none.
ds_first(w) ==
    /\ Fits(w, "ds") /\ Ie(w).len = 1 /\ "ds" \notin walk[w].seen
    /\ Advance(w, IF mode = "ap" /\ Ie(w).body \in 1..HW_MAX
                  THEN [Out(w) EXCEPT !.channel = Ie(w).body] ELSE Out(w), {"ds"})

\* In a probe request a repeated channel leaves no trace.
ds_again(w) ==
    /\ Fits(w, "ds") /\ Ie(w).len = 1 /\ "ds" \in walk[w].seen
    /\ Advance(w, [Out(w) EXCEPT !.dup_critical = @ \/ mode = "ap"], {})

\* The two security elements of an access point, `id` and its presence flag.
Present(w, id) ==
    IF id = "rsn" THEN [Out(w) EXCEPT !.rsn_present = TRUE]
    ELSE [Out(w) EXCEPT !.wpa_present = TRUE]

security_first(w, id) ==
    /\ Fits(w, id) /\ mode = "ap" /\ id \notin walk[w].seen
    /\ Decodes(Ie(w))
    /\ Advance(w, [Present(w, id) EXCEPT ![id] = Ie(w).body], {id})

security_illegal(w, id) ==
    /\ Fits(w, id) /\ mode = "ap" /\ id \notin walk[w].seen
    /\ ~Decodes(Ie(w))
    /\ Stop(w, [Present(w, id) EXCEPT !.malformed = TRUE])

security_again(w, id) ==
    /\ Fits(w, id) /\ mode = "ap" /\ id \in walk[w].seen
    /\ Advance(w, [Out(w) EXCEPT !.dup_security = TRUE], {})

skipped(w) ==
    /\ \/ Fits(w, "other")
       \/ mode = "probe" /\ \E id \in {"rsn", "wpa"} : Fits(w, id)
    /\ Advance(w, Out(w), {})

-----------------------------------------------------------------------------
\* Where element k begins.
Offset[k \in 1..(MAX_ELEMENTS + 1)] ==
    IF k = 1 THEN 0 ELSE Offset[k - 1] + 2 + ies[k - 1].len

Total == Offset[Len(ies) + 1]

Init ==
    /\ mode \in {"ap", "probe"}
    /\ ies \in UNION {[1..n -> Element] : n \in 0..MAX_ELEMENTS}
    /\ end \in {Total + d : d \in {-1, 0, 1}} \cap Nat
    /\ cut \in -1..(end - 1)
    /\ walk = [w \in Walker |-> [next |-> 1, pos |-> 0, seen |-> {},
                                 out |-> Silence, done |-> FALSE]]

Next == \E w \in Walker :
    \/ refuse(w) \/ walk_ends(w) \/ byte_left(w) \/ overruns(w)
    \/ ssid_too_long(w) \/ ssid_first(w) \/ ssid_again(w)
    \/ ds_bad_length(w) \/ ds_first(w) \/ ds_again(w)
    \/ \E id \in {"rsn", "wpa"} : \/ security_first(w, id)
                                  \/ security_illegal(w, id)
                                  \/ security_again(w, id)
    \/ skipped(w)

Spec == Init /\ [][Next]_vars

-----------------------------------------------------------------------------
\* A capture teaches nothing the frame does not say, and never more than it:
\* wherever it is cut, every field it fills has the value of the whole frame,
\* it accuses no frame that is well formed, and it is never complete
\* (walk_information_elements, ieee80211_parse_beacon_or_probe_resp).
CutLearnsLess ==
    LET c == Out("cut") f == Out("whole")
    IN walk["cut"].done =>
          /\ c.ssid \in {"none", f.ssid} /\ c.channel \in {0, f.channel}
          /\ c.rsn \in {NoSuites, f.rsn} /\ c.wpa \in {NoSuites, f.wpa}
          /\ c.rsn_present => f.rsn_present
          /\ c.wpa_present => f.wpa_present
          /\ c.malformed => f.malformed
          /\ c.dup_critical => f.dup_critical
          /\ c.dup_security => f.dup_security
          /\ ~c.complete

Legal(e) == CASE e.id = "ssid" -> e.len <= SSID_MAX
              [] e.id = "ds" -> e.len = 1
              [] e.id \in {"rsn", "wpa"} -> mode = "ap" => Decodes(e)
              [] OTHER -> TRUE

Places(id) == {k \in 1..Len(ies) : ies[k].id = id}
Unique(id) == \A j, k \in Places(id) : j = k

\* What ieee80211_parser.h:261-270 and :306-307 ask of a complete frame of
\* either kind: no element is illegal, none of those that count is repeated.
WellFormed ==
    /\ end = Total
    /\ \A k \in 1..Len(ies) : Legal(ies[k])
    /\ Unique("ssid") /\ Unique("ds")
    /\ mode = "ap" => Unique("rsn") /\ Unique("wpa")

\* The header promises it of both kinds of frame: an observation in which a
\* name or a channel was repeated is not complete (ieee80211_parser.h:262-267,
\* :306-307, ieee80211_parser.c:229).  The walk keeps the promise of a beacon
\* or probe response alone: ds_again says nothing of a probe request.
RepeatedIsNotComplete ==
    LET f == Out("whole")
    IN walk["whole"].done /\ f.complete => Unique("ssid") /\ Unique("ds")

\* A probe request that is well formed but for the channel it repeats.
OnlyChannelRepeated ==
    /\ mode = "probe" /\ ~Unique("ds")
    /\ end = Total
    /\ \A k \in 1..Len(ies) : Legal(ies[k])
    /\ Unique("ssid")

\* An observation is complete exactly when the frame is well formed as a
\* whole, whatever the order of its elements, and then its fields are those
\* of the one element of each kind.  There is one exception, where the code
\* is laxer than its header (RepeatedIsNotComplete): a probe request that
\* repeats its channel, which it has no field for, is complete too
\* (walk_information_elements, ieee80211_parser.c:347-351).
CompleteMeansWellFormed ==
    LET f == Out("whole")
    IN walk["whole"].done =>
          /\ f.complete <=> WellFormed \/ OnlyChannelRepeated
          /\ f.complete =>
                /\ f.ssid = IF Places("ssid") = {} THEN "none"
                            ELSE ies[CHOOSE k \in Places("ssid") : TRUE].body
                /\ mode = "ap" =>
                      /\ f.rsn_present <=> Places("rsn") # {}
                      /\ f.wpa_present <=> Places("wpa") # {}
                      /\ \A k \in Places("rsn") : f.rsn = ies[k].body
                      /\ \A k \in Places("wpa") : f.wpa = ies[k].body
                      /\ \A k \in Places("ds") :
                            f.channel = IF ies[k].body \in 1..HW_MAX
                                        THEN ies[k].body ELSE 0

=============================================================================
