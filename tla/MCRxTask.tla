------------------------------ MODULE MCRxTask ------------------------------
(* An instance of RxTask for TLC: a frame of each kind that is treated     *)
(* differently, and one reader: readers share nothing with each other.     *)
EXTENDS RxTask

F(type, subtype, parse, found) ==
    [valid |-> TRUE, type |-> type, subtype |-> subtype, driver |-> "mgmt",
     parse |-> parse, found |-> found]

MCFrames ==
    { F(MGMT, 8, "complete", {"ssid_found"}), F(MGMT, 8, "incomplete", {}),
      F(MGMT, 5, "refused", {}), F(MGMT, 4, "incomplete", {}), F(MGMT, 4, "refused", {}),
      F(MGMT, 11, "complete", {}), F(DATA, 0, "complete", {}), F(DATA, 15, "complete", {}),
      F(CTRL, 13, "refused", {}), F(EXT, 0, "refused", {}), NoFrame }
MCReader == {"stats"}
=============================================================================
