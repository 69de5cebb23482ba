------------------------------ MODULE MCRxPath ------------------------------
(* An instance of RxPath for TLC. *)
EXTENDS RxPath

CONSTANTS s1, s2, s3, null

MCSlot == {s1, s2, s3}

Whole(type, len) == [type |-> type, clean |-> TRUE, sig_len |-> len]

\* With MAX_LEN = 6: no payload (and less than an FCS), a copy that misses FCS
\* bytes only, a copy that misses body bytes, and the two frames refused early.
MCFrame ==
    {Whole("ctrl", 0), Whole("data", 8), Whole("mgmt", 12),
     Whole("misc", 8), [Whole("data", 8) EXCEPT !.clean = FALSE]}
=============================================================================
