------------------------------ MODULE WorldMap ------------------------------
(***************************************************************************)
(* What the world model promises, without slots, indices or counters: a    *)
(* map from addresses to access points, a map from addresses to stations,  *)
(* and for some stations the address of the one AP they were observed      *)
(* with.  World implements this: that a relation is stored as a slot       *)
(* number, that slots are reused, and how ties are broken stay invisible.  *)
(***************************************************************************)
EXTENDS Integers, FiniteSets, Functions

CONSTANTS Mac, AP_MAX, STA_MAX, AP_TTL, STA_TTL, REL_TTL, MaxTime,
          ClockMayRegress

VARIABLES
    aps,   \* aps[b]: when AP b was last seen
    stas,  \* stas[m]: when station m was last observed
    rel,   \* rel[m]: the AP, strength and time of m's relation, if it has one
    now

absVars == <<aps, stas, rel, now>>

DOWN == 1
UP   == 2

Late(t, ttl, last) == t - last > ttl

\* The maps without the addresses of a set.
Without(f, S) == Restrict(f, DOMAIN f \ S)

RelWithoutAps(r, B) == Without(r, {m \in DOMAIN r : r[m].ap \in B})

Oldest(f) == {x \in DOMAIN f : \A y \in DOMAIN f : f[x] <= f[y]}

Learn(f, x, v) == [y \in DOMAIN f \cup {x} |-> IF y = x THEN v ELSE f[y]]

(* The sets of addresses that may leave a map of capacity `max` so that a  *)
(* new address fits: nobody while there is room; otherwise everybody who   *)
(* is late; and if nobody is, a strong newcomer may push out one of the    *)
(* oldest.                                                                 *)
Victims(f, max, ttl, strong) ==
    LET late == {x \in DOMAIN f : Late(now, ttl, f[x])}
    IN IF Cardinality(DOMAIN f) < max THEN {{}}
       ELSE IF late # {} THEN {late}
       ELSE IF strong THEN {{x} : x \in Oldest(f)}
       ELSE {}

\* A known address needs no room.
RoomForAp(b, strong) ==
    IF b \in DOMAIN aps THEN {{}} ELSE Victims(aps, AP_MAX, AP_TTL, strong)
RoomForSta(m, strong) ==
    IF m \in DOMAIN stas THEN {{}} ELSE Victims(stas, STA_MAX, STA_TTL, strong)

\* The relation of m after evidence for AP b of strength ev, given that the
\* relations are r: a fresh relation with another AP yields only to evidence
\* that is stronger, or as strong and not older.
Evidence(r, m, b, ev) ==
    IF m \notin DOMAIN r THEN Learn(r, m, [ap |-> b, ev |-> ev, at |-> now])
    ELSE LET old == r[m] IN
         IF old.ap = b
         THEN Learn(r, m, [ap |-> b, ev |-> IF ev > old.ev THEN ev ELSE old.ev,
                           at |-> IF now >= old.at THEN now ELSE old.at])
         ELSE IF \/ Late(now, REL_TTL, old.at)
                 \/ ev > old.ev
                 \/ ev = old.ev /\ now >= old.at
              THEN Learn(r, m, [ap |-> b, ev |-> ev, at |-> now])
              ELSE r

KnownLater(f, x) == x \in DOMAIN f /\ f[x] > now

Clock ==
    /\ now' \in 0..MaxTime
    /\ ClockMayRegress \/ now' >= now
    /\ UNCHANGED <<aps, stas, rel>>

ApHeard(b) ==
    /\ ~KnownLater(aps, b)
    /\ \E out \in RoomForAp(b, TRUE) :
          /\ aps' = Learn(Without(aps, out), b, now)
          /\ rel' = RelWithoutAps(rel, out)
    /\ UNCHANGED <<stas, now>>

StaHeard(m) ==
    /\ ~KnownLater(stas, m)
    /\ \E out \in RoomForSta(m, TRUE) :
          /\ stas' = Learn(Without(stas, out), m, now)
          /\ rel' = Without(rel, out)
    /\ UNCHANGED <<aps, now>>

\* Station m transmitted through AP b.  The station becomes known in any
\* case; the AP, and so the relation, only if the AP table has room.
Uplink(m, b) ==
    /\ m # b
    /\ ~KnownLater(stas, m)
    /\ \E out \in RoomForSta(m, TRUE) :
          /\ stas' = Learn(Without(stas, out), m, now)
          /\ \/ /\ RoomForAp(b, FALSE) = {}
                /\ rel' = Without(rel, out)
                /\ UNCHANGED aps
             \/ \E gone \in RoomForAp(b, FALSE) :
                /\ aps' = IF b \in DOMAIN aps THEN aps
                          ELSE Learn(Without(aps, gone), b, now)
                /\ rel' = Evidence(RelWithoutAps(Without(rel, out), gone), m, b, UP)
    /\ UNCHANGED now

\* AP b transmitted; the destination is no station.
DownlinkNoSta(b) ==
    /\ ~KnownLater(aps, b)
    /\ \E gone \in RoomForAp(b, FALSE) :
          /\ aps' = Learn(Without(aps, gone), b, now)
          /\ rel' = RelWithoutAps(rel, gone)
    /\ UNCHANGED <<stas, now>>

\* AP b transmitted to station m, which was not seen later than now.
Downlink(b, m) ==
    /\ m # b
    /\ ~KnownLater(aps, b) /\ ~KnownLater(stas, m)
    /\ \E gone \in RoomForAp(b, FALSE), out \in RoomForSta(m, FALSE) :
          /\ aps' = Learn(Without(aps, gone), b, now)
          /\ stas' = Learn(Without(stas, out), m, now)
          /\ rel' = Evidence(Without(RelWithoutAps(rel, gone), out), m, b, DOWN)
    /\ UNCHANGED now

\* Everything late is forgotten, in one step.
Forget ==
    LET lateAps  == {b \in DOMAIN aps : Late(now, AP_TTL, aps[b])}
        lateStas == {m \in DOMAIN stas : Late(now, STA_TTL, stas[m])}
        lateRels == {m \in DOMAIN rel : Late(now, REL_TTL, rel[m].at)}
    IN /\ aps' = Without(aps, lateAps)
       /\ stas' = Without(stas, lateStas)
       /\ rel' = Without(RelWithoutAps(rel, lateAps), lateStas \cup lateRels)
       /\ UNCHANGED now

AbsInit == aps = << >> /\ stas = << >> /\ rel = << >> /\ now = 0

AbsNext ==
    \/ Clock
    \/ \E b \in Mac : ApHeard(b) \/ DownlinkNoSta(b)
    \/ \E m \in Mac : StaHeard(m)
    \/ \E m, b \in Mac : Uplink(m, b) \/ Downlink(b, m)
    \/ Forget

AbsSpec == AbsInit /\ [][AbsNext]_absVars

=============================================================================
