-------------------------------- MODULE Boot --------------------------------
(***************************************************************************)
(* How the firmware starts: app_main and the start-up functions it calls.  *)
(*                                                                         *)
(* Each start-up function is the sequence of the calls it makes, any of    *)
(* which may fail.  app_main aborts on the failure of some functions,      *)
(* which restarts the chip, and goes on without the others.  Tasks run as  *)
(* soon as they exist, and frames come in as soon as the radio is told to  *)
(* deliver them, while app_main goes on.  Power may fail at any moment.    *)
(* What survives a restart is the NVS partition and the SD card.           *)
(***************************************************************************)
EXTENDS Naturals, Sequences

CONSTANTS
    Faults,           \* the sets of calls that may fail, one per behaviour
    TOUCH_ATTEMPTS,   \* how often board_touch_init tries (10)
    MaxCuts           \* bound: how often the power fails

ASSUME BootAssumption == TOUCH_ATTEMPTS \in Nat \ {0} /\ MaxCuts \in Nat

VARIABLES
    at,       \* app_main: the function it is in and the step it is at there
    tries,    \* board_touch_init: attempts made
    up,       \* the steps done since the chip started
    ok,       \* the results app_main has seen to be ESP_OK
    shown,    \* the results on the status screen, or Nothing
    nvs,      \* the NVS partition
    file,     \* phase0_test.txt on the SD card
    actual,   \* what board_sd_self_test has read back
    faults,   \* the calls that may fail on this board
    cuts      \* how often the power has failed
ramVars   == <<at, tries, up, ok, shown, actual>>
flashVars == <<nvs, file>>
bootVars == <<ramVars, flashVars, faults, cuts>>

-----------------------------------------------------------------------------
(* The calls of each function, in order *)

board_backlight_init == <<"ledc_timer", "ledc_channel">>
board_i2c_init       == <<"i2c_param", "i2c_driver">>
board_touch_init     == <<"touch">>

board_display_init ==
    <<"spi", "panel_io", "panel", "panel_reset", "panel_init", "buffers",
      "lvgl_driver", "lvgl_mux", "tick_timer", "tick_started", "lvgl_task">>

board_sd_init == <<"spi", "sd_mount">>

\* Faulty variant of board_sd_self_test: what was read is not compared.
board_sd_self_test_unverified == <<"sd_create", "sd_write", "sd_open", "sd_read">>

board_sd_self_test == <<"sd_create", "sd_write", "sd_open", "sd_read", "sd_verify">>

\* Faulty variant of wifi_sniffer_init: the tables are cleared last.
wifi_sniffer_init_world_last ==
    <<"nvs_init", "netif", "event_loop", "wifi_driver", "storage", "sta_mode",
      "queues", "world_mux", "pool", "radio_rx_task", "radio_stats_task", "world">>

wifi_sniffer_init ==
    <<"nvs_init", "netif", "event_loop", "wifi_driver", "storage", "sta_mode",
      "queues", "world_mux", "world", "pool", "radio_rx_task", "radio_stats_task">>

wifi_sniffer_start ==
    <<"wifi_started", "rx_cb", "filter", "ctrl_filter", "promiscuous", "channel">>

channel_hopper_start == <<"channel_list", "hopper_task">>

Steps(f) ==
    CASE f = "backlight_init" -> board_backlight_init
      [] f = "i2c_init"       -> board_i2c_init
      [] f = "touch_init"     -> board_touch_init
      [] f = "display_init"   -> board_display_init
      [] f = "sd_init"        -> board_sd_init
      [] f = "sd_self_test"   -> board_sd_self_test
      [] f = "wifi_init"      -> wifi_sniffer_init
      [] f = "wifi_start"     -> wifi_sniffer_start
      [] f = "hopper_start"   -> channel_hopper_start
      [] f = "show_status"    -> <<"status_label">>
      [] f = "set_percent"    -> <<"brightness">>
      [] f = "ui_task"        -> <<"phase1_ui_task">>

Functions == {"backlight_init", "i2c_init", "touch_init", "display_init", "sd_init",
              "sd_self_test", "wifi_init", "wifi_start", "hopper_start",
              "show_status", "set_percent", "ui_task"}
Calls == UNION {{Steps(f)[i] : i \in DOMAIN Steps(f)} : f \in Functions}

\* What the tasks, the callback and LVGL's drivers use once they are there.
Uses(x) ==
    CASE x = "lvgl_task"        -> {"lvgl_mux", "lvgl_driver", "buffers", "panel_init"}
      [] x = "touch_driver"     -> {"i2c_driver", "touch"}
      [] x = "promiscuous"      -> {"wifi_started", "rx_cb", "queues", "pool",
                                    "radio_rx_task"}
      [] x = "radio_rx_task"    -> {"queues", "pool", "world_mux", "world"}
      [] x = "radio_stats_task" -> {"queues", "world_mux", "world"}
      [] x = "hopper_task"      -> {"wifi_started", "channel_list"}
      [] x = "phase1_ui_task"   -> {"queues", "world_mux", "world", "lvgl_mux",
                                    "status_label"}
Users == {"lvgl_task", "touch_driver", "promiscuous", "radio_rx_task",
          "radio_stats_task", "hopper_task", "phase1_ui_task"}

-----------------------------------------------------------------------------
(* app_main: where it goes after each function *)

\* Faulty variant of Fatal: the radio's failure is checked like the display's.
FatalWithRadio == {"backlight_init", "display_init", "wifi_init", "wifi_start",
                   "show_status", "set_percent"}

\* Functions whose failure ESP_ERROR_CHECK turns into an abort.
Fatal == {"backlight_init", "display_init", "show_status", "set_percent"}

AfterSuccess(f) ==
    CASE f = "backlight_init" -> "i2c_init"
      [] f = "i2c_init"       -> "touch_init"
      [] f = "touch_init"     -> "display_init"
      [] f = "display_init"   -> "sd_init"
      [] f = "sd_init"        -> "sd_self_test"
      [] f = "sd_self_test"   -> "wifi_init"
      [] f = "wifi_init"      -> "wifi_start"
      [] f = "wifi_start"     -> "hopper_start"
      [] f = "hopper_start"   -> "show_status"
      [] f = "show_status"    -> "set_percent"
      [] f = "set_percent"    -> IF "wifi" \in ok THEN "ui_task" ELSE "done"
      [] f = "ui_task"        -> "done"

AfterFailure(f) ==
    CASE f \in {"i2c_init", "touch_init"}                -> "display_init"
      [] f \in {"sd_init", "sd_self_test"}               -> "wifi_init"
      [] f \in {"wifi_init", "wifi_start", "hopper_start"} -> "show_status"
      [] f = "ui_task"                                   -> "done"

\* The result each function decides, if app_main keeps one.
Result(f) ==
    CASE f = "i2c_init"     -> {"i2c"}
      [] f = "touch_init"   -> {"touch"}
      [] f = "sd_self_test" -> {"sd"}
      [] f = "wifi_start"   -> {"wifi"}
      [] f = "hopper_start" -> {"hop"}
      [] OTHER              -> {}

Nothing == {"nothing"}
Screen(results) == results \cap {"touch", "sd", "wifi"}

Now == Steps(at.fn)[at.step]
Running == at.fn # "done"

Advance ==
    IF at.step < Len(Steps(at.fn))
      THEN at' = [at EXCEPT !.step = @ + 1] /\ UNCHANGED <<ok, shown>>
      ELSE /\ at' = [fn |-> AfterSuccess(at.fn), step |-> 1]
           /\ ok' = ok \cup Result(at.fn)
           /\ shown' = IF at.fn = "show_status" THEN Screen(ok) ELSE shown

\* Everything in RAM is lost.
Restart ==
    /\ at' = [fn |-> "backlight_init", step |-> 1]
    /\ tries' = 0 /\ up' = {} /\ ok' = {} /\ shown' = Nothing /\ actual' = "nothing"

GiveUp ==
    IF at.fn \in Fatal
      THEN Restart
      ELSE /\ at' = [fn |-> AfterFailure(at.fn), step |-> 1]
           /\ UNCHANGED <<tries, up, ok, shown, actual>>

-----------------------------------------------------------------------------
(* The steps *)

\* Calls whose outcome depends on more than the call.
Special == {"touch", "nvs_init", "sd_create", "sd_write", "sd_read", "sd_verify"}
\* Calls that cannot fail, and the call whose failure is tolerated: without
\* the filter no control frames come in.
Sure      == {"lvgl_driver", "world", "pool"}
Tolerated == {"ctrl_filter"}

\* The touch driver is registered with the display if the touch panel answered.
Gains(c) == IF c = "lvgl_driver" /\ "touch" \in up THEN {c, "touch_driver"} ELSE {c}

succeeds ==
    /\ Running /\ Now \notin Special
    /\ up' = up \cup Gains(Now)
    /\ Advance
    /\ UNCHANGED <<tries, actual, flashVars, faults, cuts>>

\* board_spi_init returns at once when the bus is there.
fails ==
    /\ Running /\ Now \in faults \ (Special \cup Sure \cup Tolerated)
    /\ ~(Now = "spi" /\ "spi" \in up)
    /\ GiveUp
    /\ UNCHANGED <<flashVars, faults, cuts>>

fails_tolerated ==
    /\ Running /\ Now \in faults \cap Tolerated
    /\ Advance
    /\ UNCHANGED <<tries, up, actual, flashVars, faults, cuts>>

touch_answers ==
    /\ Running /\ Now = "touch"
    /\ up' = up \cup {"touch"}
    /\ Advance
    /\ UNCHANGED <<tries, actual, flashVars, faults, cuts>>

touch_silent ==
    /\ Running /\ Now = "touch" /\ "touch" \in faults
    /\ IF tries + 1 < TOUCH_ATTEMPTS
         THEN tries' = tries + 1 /\ UNCHANGED <<at, up, ok, shown, actual>>
         ELSE GiveUp
    /\ UNCHANGED <<flashVars, faults, cuts>>

nvs_init ==
    /\ Running /\ Now = "nvs_init" /\ nvs = "good"
    /\ up' = up \cup {"nvs_init"}
    /\ Advance
    /\ UNCHANGED <<tries, actual, flashVars, faults, cuts>>

nvs_fails ==
    /\ Running /\ Now = "nvs_init"
    /\ \/ "nvs_init" \in faults
       \/ nvs # "good" /\ "nvs_erase" \in faults
    /\ GiveUp
    /\ UNCHANGED <<flashVars, faults, cuts>>

\* Faulty variant of nvs_erased: the new version alone is looked for.
nvs_erased_new_version ==
    /\ Running /\ Now = "nvs_init" /\ nvs # "good"
    /\ IF nvs = "new_version_found"
         THEN nvs' = "good" /\ UNCHANGED ramVars
         ELSE nvs' = nvs /\ GiveUp
    /\ UNCHANGED <<file, faults, cuts>>

\* ESP_ERR_NVS_NO_FREE_PAGES and ESP_ERR_NVS_NEW_VERSION_FOUND: erased, and
\* initialised once more.
nvs_erased ==
    /\ Running /\ Now = "nvs_init" /\ nvs # "good"
    /\ nvs' = "good"
    /\ UNCHANGED <<ramVars, file, faults, cuts>>

\* fopen "w" truncates the file.
sd_creates ==
    /\ Running /\ Now = "sd_create"
    /\ \/ file' = "empty" /\ Advance /\ UNCHANGED <<tries, up, actual>>
       \/ "sd_create" \in faults /\ GiveUp /\ UNCHANGED file
    /\ UNCHANGED <<nvs, faults, cuts>>

\* A bad card may report success and keep something else.
sd_writes ==
    /\ Running /\ Now = "sd_write"
    /\ \/ /\ \/ file' = "expected"
             \/ "sd_bits" \in faults /\ file' = "garbled"
          /\ Advance /\ UNCHANGED <<tries, up, actual>>
       \/ /\ "sd_write" \in faults
          /\ file' \in {"empty", "garbled"}
          /\ GiveUp
    /\ UNCHANGED <<nvs, faults, cuts>>

sd_reads ==
    /\ Running /\ Now = "sd_read"
    /\ \/ /\ file # "empty" /\ actual' = file
          /\ Advance /\ UNCHANGED <<tries, up>>
       \/ /\ file = "empty" \/ "sd_read" \in faults
          /\ GiveUp
    /\ UNCHANGED <<flashVars, faults, cuts>>

sd_verifies ==
    /\ Running /\ Now = "sd_verify"
    /\ IF actual = "expected"
         THEN Advance /\ UNCHANGED <<tries, up, actual>>
         ELSE GiveUp
    /\ UNCHANGED <<flashVars, faults, cuts>>

app_main ==
    \/ succeeds \/ fails \/ fails_tolerated
    \/ touch_answers \/ touch_silent
    \/ nvs_init \/ nvs_fails \/ nvs_erased
    \/ sd_creates \/ sd_writes \/ sd_reads \/ sd_verifies

power_cut ==
    /\ cuts < MaxCuts
    /\ cuts' = cuts + 1
    /\ Restart
    /\ UNCHANGED <<flashVars, faults>>

-----------------------------------------------------------------------------
BootInit ==
    /\ at = [fn |-> "backlight_init", step |-> 1]
    /\ tries = 0 /\ up = {} /\ ok = {} /\ shown = Nothing /\ actual = "nothing"
    /\ nvs \in {"good", "no_free_pages", "new_version_found"}
    /\ file \in {"none", "expected", "garbled"}
    /\ faults \in Faults
    /\ cuts = 0

BootNext == app_main \/ power_cut

(* app_main goes on until it returns. *)
BootSpec == BootInit /\ [][BootNext]_bootVars /\ WF_bootVars(app_main)

-----------------------------------------------------------------------------
Results == {"i2c", "touch", "sd", "wifi", "hop"}

\* Every variable has its type.
BootTypeOK ==
    /\ \/ at.fn = "done" /\ at.step = 1
       \/ at.fn \in Functions /\ at.step \in DOMAIN Steps(at.fn)
    /\ tries \in 0..TOUCH_ATTEMPTS - 1
    /\ up \subseteq Calls \cup {"touch_driver"}
    /\ ok \subseteq Results
    /\ shown = Nothing \/ shown \subseteq {"touch", "sd", "wifi"}
    /\ nvs \in {"good", "no_free_pages", "new_version_found"}
    /\ file \in {"none", "empty", "expected", "garbled"}
    /\ actual \in {"nothing", "expected", "garbled"}
    /\ faults \in Faults /\ cuts \in 0..MaxCuts

\* No task, callback or driver exists before everything it uses does, at
\* any moment of any start-up that fails half-way or is cut off: a task of a
\* higher priority runs before the call that creates it returns
\* (docs/PHASE2_WORLD_MODEL.md:46, wifi_sniffer.c:900).
UsersFindTheirParts == BootTypeOK /\ \A x \in Users : x \in up => Uses(x) \subseteq up

Booted == at.fn = "done"
Receiving == "promiscuous" \in up

\* What the status screen says of a peripheral is so: a touch that is OK is
\* read by LVGL, a card that is OK holds the text written to it, a radio
\* that is OK delivers frames on a channel that was set.  Without a radio that
\* works nothing hops and nothing refreshes the screen; frames come in all the
\* same only if it was the channel that failed.
StatusIsTrue ==
    /\ shown # Nothing =>
        /\ "touch" \in shown <=> "touch_driver" \in up
        /\ "sd" \in shown => "sd_mount" \in up /\ file = "expected"
        /\ "wifi" \in shown => Receiving /\ "channel" \in up
    /\ Booted /\ "wifi" \notin shown =>
        /\ up \cap {"hopper_task", "phase1_ui_task"} = {}
        /\ Receiving => "channel" \in faults

CallsOf(fs) == UNION {{Steps(f)[i] : i \in DOMAIN Steps(f)} : f \in fs}
ScreenCalls == CallsOf({"backlight_init", "display_init", "show_status", "set_percent"})

\* A board whose backlight and display work ends its start-up, whatever else
\* fails: no failure of touch, card, radio or hopper restarts it for ever.
StartupEnds == faults \cap ScreenCalls = {} => <>Booted

\* A board without faults ends up sniffing, hopping and refreshing, also
\* from an NVS partition that had to be erased and from any test file.
HealthyBoardSniffs ==
    faults = {} => <>[](/\ Booted /\ shown = {"touch", "sd", "wifi"}
                        /\ {"hopper_task", "phase1_ui_task"} \subseteq up)

=============================================================================
