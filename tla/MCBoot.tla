------------------------------- MODULE MCBoot -------------------------------
(* Instances of Boot for TLC. *)
EXTENDS Boot

Fallible == (Calls \ Sure) \cup {"nvs_erase", "sd_bits"}
TwoFaults == {{a, b} : a, b \in Fallible} \cup {{}}
=============================================================================
