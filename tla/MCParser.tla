------------------------------ MODULE MCParser ------------------------------
(* The two halves of ieee80211_parser.c for TLC: the walk over elements    *)
(* (Parser), legal and illegal of every kind, and the headers (Headers) of *)
(* frames of a client, two access points and a group address, captured to  *)
(* before, at and behind every field.  The halves share no state, and a    *)
(* behaviour is one of either.                                             *)
EXTENDS Parser, Headers

CONSTANTS c1, p1, p2, bc

MCClient == {c1}
MCAp == {p1, p2}
MCGroup == {bc}
\* a part of the Frame Control; the Frame Control; one byte short of the
\* header; the header; with QoS control; with addr4 or an authentication
\* body; with both; the longest.
MCLens == {1, 2, 23, 24, 26, 30, 32, 36}

Suites == [version |-> 1, pairwise |-> 1, akm |-> 1, pmkid |-> 0]

MCElement == {[id |-> "ssid", len |-> 1, body |-> "net"],
              [id |-> "ssid", len |-> 0, body |-> "hidden"],
              [id |-> "ssid", len |-> 3, body |-> "net"],
              [id |-> "ds", len |-> 1, body |-> 6],
              [id |-> "ds", len |-> 1, body |-> 200],
              [id |-> "ds", len |-> 2, body |-> 6],
              [id |-> "rsn", len |-> 18, body |-> Suites],
              [id |-> "rsn", len |-> 19, body |-> Suites],
              [id |-> "wpa", len |-> 16, body |-> Suites],
              [id |-> "wpa", len |-> 16, body |-> [Suites EXCEPT !.pairwise = 3]],
              [id |-> "other", len |-> 0, body |-> 0]}

VARIABLE half  \* the half a behaviour is of

\* The frame without elements stands for any in the other half.
HalvesInit ==
    /\ Init /\ HeadersInit
    /\ \/ half = "elements"
       \/ half = "headers" /\ mode = "ap" /\ ies = <<>> /\ end = 0 /\ cut = -1

HalvesNext ==
    /\ \/ half = "elements" /\ Next /\ UNCHANGED headersVars
       \/ half = "headers" /\ HeadersNext /\ UNCHANGED vars
    /\ UNCHANGED half

HalvesSpec == HalvesInit /\ [][HalvesNext]_<<vars, headersVars, half>>
=============================================================================
