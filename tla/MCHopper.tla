------------------------------ MODULE MCHopper ------------------------------
(* An instance of Hopper for TLC. *)
EXTENDS Hopper

CONSTANT none

Table(first, count) == [schan |-> first, nchan |-> count]

\* The whole band, an empty table, one that starts late, one that ends
\* beyond the hardware, and no answer.
MCCountry == {Table(1, 3), Table(1, 0), Table(2, 2), Table(2, 3), none}

MCRegulatory == {{}, {1, 2}, {3}, {1, 2, 3}}
=============================================================================
