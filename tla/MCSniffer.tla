----------------------------- MODULE MCSniffer ------------------------------
(* An instance of Sniffer for TLC: the statistics task and the screen task. *)
EXTENDS Sniffer

MCReader == {"stats", "ui"}
=============================================================================
