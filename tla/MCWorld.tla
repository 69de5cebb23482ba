------------------------------ MODULE MCWorld ------------------------------
(* Instances of World for TLC. *)
EXTENDS World, TLC

CONSTANTS m1, m2, m3, nonUnicast

MCMac3 == {m1, m2, m3}
MCMac2 == {m1, m2}
MacSymmetry3 == Permutations(MCMac3)
MacSymmetry2 == Permutations(MCMac2)

\* One open, whole beacon: enough where descriptions do not matter.
PlainObs ==
    {[beacon |-> TRUE, complete |-> TRUE, ssid |-> "net", rsn |-> Absent, wpa |-> Absent,
      privacy |-> FALSE, channel |-> 0]}

\* Whole and cut beacons with every outcome of the two security elements, and
\* probe responses without any.
AllObs ==
    {o \in Observation :
        /\ o.complete => o.rsn # Broken /\ o.wpa # Broken
        /\ o.beacon \/ (o.rsn = Absent /\ o.wpa = Absent)}
=============================================================================
