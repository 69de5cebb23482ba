----------------------------- MODULE MCDisplay ------------------------------
(* Instances of Display for TLC: app_main and the screen task. *)
EXTENDS Display

MCCaller == {"main", "ui"}
MCOk     == {{"touch", "sd", "wifi"}}
MCLabel  == {"l1", "l2"}
=============================================================================
