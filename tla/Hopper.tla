------------------------------- MODULE Hopper -------------------------------
(***************************************************************************)
(* The channel hopper of components/radio: channel_hopper.c, with the      *)
(* failure policy of hopper_policy.c.                                      *)
(*                                                                         *)
(* Two tasks: the caller of channel_hopper_start and channel_hopper_stop,  *)
(* and the hopper task, which the caller creates and which runs at a       *)
(* higher priority: it may run to its end before xTaskCreate returns.  An  *)
(* action is one critical section, or one piece of code during which the   *)
(* other task neither reads nor writes what it touches.  The driver        *)
(* (esp_wifi_set_channel) accepts the channels of its regulatory domain    *)
(* unless it fails for another reason.                                     *)
(***************************************************************************)
EXTENDS Integers, Sequences, FiniteSets, SequencesExt

CONSTANTS
    HW_MAX,        \* HOPPER_HW_CHANNEL_MAX, also HOPPER_MAX_CHANNELS     (14)
    FALLBACK_LAST, \* HOPPER_FALLBACK_LAST                                (11)
    Country,       \* the answers of esp_wifi_get_country, NoCountry if it fails
    NoCountry,
    Regulatory,    \* the possible regulatory domains of the driver
    THRESHOLD,     \* HOPPER_TRANSIENT_SKIP_THRESHOLD                      (3)
    ByteMod,       \* the width of an index and of a failure count       (2^8)
    CounterMod     \* the width of hop_count                            (2^32)

Channel == 1..HW_MAX

ASSUME ChannelAssumption == /\ HW_MAX \in Nat \ {0} /\ FALLBACK_LAST \in Channel
                            /\ Regulatory \subseteq SUBSET Channel
ASSUME CountryAssumption ==
    Country \subseteq [schan : Nat, nchan : Nat] \cup {NoCountry}
ASSUME WidthAssumption ==
    /\ ByteMod \in Nat /\ ByteMod > HW_MAX /\ ByteMod > THRESHOLD
    /\ THRESHOLD \in Nat \ {0} /\ CounterMod \in Nat \ {0}

VARIABLES
    channels,        \* s_channels[0 .. s_channel_count - 1]
    health,          \* s_health[i].consecutive_transient, for the same i
    stats,           \* s_stats, without the times
    task_exists,     \* s_task_handle # NULL
    stop_requested,
    task,            \* the hopper task: its place, its index i, its channel ch
    caller,          \* the place of the calling task
    regulatory,      \* the driver's regulatory domain
    radio,           \* the channel the driver is on
    built,           \* history: the list as it was built
    tried,           \* history: the channels tried in this pass
    streak           \* history: failures of a channel since its last success
vars == <<channels, health, stats, task_exists, stop_requested, task, caller,
          regulatory, radio, built, tried, streak>>

listVars   == <<channels, health, streak>>
driverVars == <<regulatory, radio>>

Stats == [enabled : BOOLEAN, current_channel : 0..HW_MAX,
          hop_count : 0..(CounterMod - 1), hop_errors : 0..(CounterMod - 1)]

ZeroStats == [enabled |-> FALSE, current_channel |-> 0, hop_count |-> 0,
              hop_errors |-> 0]

Gone == [at |-> "gone", i |-> 0, ch |-> 0]

-----------------------------------------------------------------------------
(* hopper_policy.c *)

UpTo(first, last) == [k \in 1..(last - first + 1) |-> first + k - 1]

\* hopper_build_list_from_country; the empty list is its `false`.
ListFromCountry(c) ==
    LET last == c.schan + c.nchan - 1
    IN IF c.schan < 1 \/ c.nchan < 1 \/ last > HW_MAX THEN <<>>
       ELSE UpTo(c.schan, last)

build_channel_list(c) ==
    IF c = NoCountry \/ ListFromCountry(c) = <<>> THEN UpTo(1, FALLBACK_LAST)
    ELSE ListFromCountry(c)

\* Faulty variant of hopper_note_failure: persistence counts as invalidity.
note_failure_hasty(h, class) ==
    CASE class = "invalid"   -> "retire"
      [] class = "dead"      -> "stop"
      [] class = "transient" -> IF h >= THRESHOLD THEN "retire" ELSE "continue"

\* The action for a failure, where h failures in a row are now counted.
\* "continue" and "skip_pass" differ in the log line only.
hopper_note_failure(h, class) ==
    CASE class = "invalid"   -> "retire"
      [] class = "dead"      -> "stop"
      [] class = "transient" -> IF h >= THRESHOLD THEN "skip_pass" ELSE "continue"

-----------------------------------------------------------------------------
(* The hopper task.  Its index i counts from 0 and is one byte wide. *)

Prev(i) == (i - 1) % ByteMod
Succ(i) == (i + 1) % ByteMod

\* Faulty variant of pass_begins: only an empty list ends the task.
pass_begins_unstoppable ==
    /\ task.at = "while" /\ channels # <<>>
    /\ task' = [task EXCEPT !.at = "for", !.i = 0]
    /\ tried' = {}
    /\ UNCHANGED <<listVars, stats, task_exists, stop_requested, caller,
                   driverVars, built>>

pass_begins ==
    /\ task.at = "while" /\ ~stop_requested /\ channels # <<>>
    /\ task' = [task EXCEPT !.at = "for", !.i = 0]
    /\ tried' = {}
    /\ UNCHANGED <<listVars, stats, task_exists, stop_requested, caller,
                   driverVars, built>>

pass_ends ==
    /\ task.at = "for" /\ (task.i >= Len(channels) \/ stop_requested)
    /\ task' = [task EXCEPT !.at = "while"]
    /\ UNCHANGED <<listVars, stats, task_exists, stop_requested, caller,
                   driverVars, built, tried>>

Trying == task.at = "for" /\ task.i < Len(channels) /\ ~stop_requested

\* The channel under the index, and what the driver may say to it.
Current == channels[task.i + 1]
Class   == {"transient", "dead"} \cup (IF Current \in regulatory THEN {} ELSE {"invalid"})

\* The health of the current channel after the policy has seen a failure.
Worse(class) ==
    IF class = "transient" THEN (health[task.i + 1] + 1) % ByteMod
    ELSE health[task.i + 1]

Verdict(class) == hopper_note_failure(Worse(class), class)

set_channel_succeeds ==
    /\ Trying /\ Current \in regulatory
    /\ radio' = Current
    /\ health' = [health EXCEPT ![task.i + 1] = 0]
    /\ streak' = [streak EXCEPT ![Current] = 0]
    /\ tried' = tried \cup {Current}
    /\ task' = [task EXCEPT !.at = "report", !.ch = Current]
    /\ UNCHANGED <<channels, stats, task_exists, stop_requested, caller,
                   regulatory, built>>

report_channel ==
    /\ task.at = "report"
    /\ stats' = [stats EXCEPT !.current_channel = task.ch,
                              !.hop_count = (@ + 1) % CounterMod]
    /\ task' = [task EXCEPT !.at = "dwell"]
    /\ UNCHANGED <<listVars, task_exists, stop_requested, caller, driverVars,
                   built, tried>>

\* Faulty variant of set_channel_fails: the same channel again, at once.
retry_in_place ==
    Trying /\ \E class \in Class :
        /\ Verdict(class) \in {"continue", "skip_pass"}
        /\ health' = [health EXCEPT ![task.i + 1] = Worse(class)]
        /\ streak' = [streak EXCEPT ![Current] = (@ + 1) % ByteMod]
        /\ tried' = tried \cup {Current}
        /\ task' = [task EXCEPT !.at = "dwell", !.i = Prev(@)]
        /\ UNCHANGED <<channels, stats, task_exists, stop_requested, caller,
                       driverVars, built>>

\* The channel keeps its place and is tried again in the next pass.
set_channel_fails ==
    Trying /\ \E class \in Class :
        /\ Verdict(class) \in {"continue", "skip_pass"}
        /\ health' = [health EXCEPT ![task.i + 1] = Worse(class)]
        /\ streak' = [streak EXCEPT ![Current] = (@ + 1) % ByteMod]
        /\ tried' = tried \cup {Current}
        /\ task' = [task EXCEPT !.at = "dwell"]
        /\ UNCHANGED <<channels, stats, task_exists, stop_requested, caller,
                       driverVars, built>>

\* Faulty variant of set_channel_invalid: the index is not taken back.
retire_and_move_on ==
    Trying /\ \E class \in Class :
        /\ Verdict(class) = "retire"
        /\ channels' = RemoveAt(channels, task.i + 1)
        /\ health' = RemoveAt(health, task.i + 1)
        /\ task' = [task EXCEPT !.at = "dwell"]
        /\ UNCHANGED <<stats, task_exists, stop_requested, caller, driverVars,
                       built, tried, streak>>

\* retire_channel_at: both arrays close up, and the index goes back by one.
set_channel_invalid ==
    Trying /\ \E class \in Class :
        /\ Verdict(class) = "retire"
        /\ channels' = RemoveAt(channels, task.i + 1)
        /\ health' = RemoveAt(health, task.i + 1)
        /\ task' = [task EXCEPT !.at = "dwell", !.i = Prev(@)]
        /\ UNCHANGED <<stats, task_exists, stop_requested, caller, driverVars,
                       built, tried, streak>>

\* No dwell: the task leaves both loops at once.
driver_dead ==
    Trying /\ \E class \in Class :
        /\ Verdict(class) = "stop"
        /\ stop_requested' = TRUE
        /\ task' = [task EXCEPT !.at = "while"]
        /\ UNCHANGED <<listVars, stats, task_exists, caller, driverVars, built, tried>>

dwell_ends ==
    /\ task.at = "dwell"
    /\ task' = [task EXCEPT !.at = "for", !.i = Succ(@)]
    /\ UNCHANGED <<listVars, stats, task_exists, stop_requested, caller,
                   driverVars, built, tried>>

task_disables ==
    /\ task.at = "while" /\ (stop_requested \/ channels = <<>>)
    /\ stats' = [stats EXCEPT !.enabled = FALSE]
    /\ task' = [task EXCEPT !.at = "exit"]
    /\ UNCHANGED <<listVars, task_exists, stop_requested, caller, driverVars,
                   built, tried>>

task_exits ==
    /\ task.at = "exit"
    /\ task_exists' = FALSE
    /\ task' = Gone
    /\ UNCHANGED <<listVars, stats, stop_requested, caller, driverVars, built, tried>>

-----------------------------------------------------------------------------
(* The caller: channel_hopper_start and channel_hopper_stop.  A start that *)
(* finds a task, or is given a dwell time of 0, changes nothing.           *)

\* Everything before xTaskCreate.  No other task is alive, and the list is
\* never empty here, so the test of s_channel_count never fires.
start_prepares(c) ==
    /\ caller = "idle" /\ ~task_exists
    /\ channels' = build_channel_list(c) /\ built' = channels'
    /\ stats' = ZeroStats
    /\ health' = [k \in 1..Len(channels') |-> 0]
    /\ streak' = [ch \in Channel |-> 0]
    /\ tried' = {} /\ stop_requested' = FALSE /\ caller' = "creating"
    /\ UNCHANGED <<task_exists, task, driverVars>>

\* xTaskCreate stores the handle before the new task can run.
task_created ==
    /\ caller = "creating"
    /\ task_exists' = TRUE
    /\ task' = [at |-> "while", i |-> 0, ch |-> 0]
    /\ caller' = "enabling"
    /\ UNCHANGED <<listVars, stats, stop_requested, driverVars, built, tried>>

creation_fails ==
    /\ caller = "creating"
    /\ task_exists' = FALSE
    /\ stats' = [stats EXCEPT !.enabled = FALSE]
    /\ caller' = "idle"
    /\ UNCHANGED <<listVars, stop_requested, task, driverVars, built, tried>>

start_enables ==
    /\ caller = "enabling"
    /\ stats' = [stats EXCEPT !.enabled = TRUE]
    /\ caller' = "idle"
    /\ UNCHANGED <<listVars, task_exists, stop_requested, task, driverVars,
                   built, tried>>

channel_hopper_stop ==
    /\ caller = "idle" /\ task_exists
    /\ stop_requested' = TRUE
    /\ UNCHANGED <<listVars, stats, task_exists, task, caller, driverVars,
                   built, tried>>

-----------------------------------------------------------------------------
Init ==
    /\ channels = <<>> /\ health = <<>> /\ built = <<>>
    /\ stats = ZeroStats
    /\ task_exists = FALSE /\ stop_requested = FALSE
    /\ task = Gone /\ caller = "idle"
    /\ regulatory \in Regulatory /\ radio = 0
    /\ tried = {} /\ streak = [ch \in Channel |-> 0]

Task == \/ pass_begins \/ pass_ends
        \/ set_channel_succeeds \/ report_channel
        \/ set_channel_fails \/ set_channel_invalid \/ driver_dead
        \/ dwell_ends \/ task_disables \/ task_exits

Caller == \/ \E c \in Country : start_prepares(c)
          \/ task_created \/ creation_fails \/ start_enables \/ channel_hopper_stop

Next == Task \/ Caller

\* The hopper task is scheduled and its delays end; nobody need call anything.
Spec == Init /\ [][Next]_vars /\ WF_vars(Task)

-----------------------------------------------------------------------------
(* Properties *)

\* The channel list, the health array, the statistics and the task's place keep
\* the types of channel_hopper.c, and health has one entry per listed channel.
TypeOK ==
    /\ channels \in Seq(Channel) /\ health \in Seq(0..(ByteMod - 1))
    /\ Len(health) = Len(channels)
    /\ stats \in Stats
    /\ task_exists \in BOOLEAN /\ stop_requested \in BOOLEAN
    /\ task \in [at : {"gone", "while", "for", "report", "dwell", "exit"},
                 i : 0..(ByteMod - 1), ch : 0..HW_MAX]
    /\ caller \in {"idle", "creating", "enabling"}
    /\ regulatory \subseteq Channel /\ radio \in 0..HW_MAX

\* The list stays in order and without repetitions, and each channel keeps
\* its own failure count when the arrays close up after a retirement.
HealthFollowsChannel ==
    /\ \A i, k \in 1..Len(channels) : i < k => channels[i] < channels[k]
    /\ \A i \in 1..Len(channels) : health[i] = streak[channels[i]]

\* No storm of transient failures retires a channel: one that the driver
\* allows stays in the list for as long as the list lives.
LegalChannelsKept == ToSet(built) \cap regulatory \subseteq ToSet(channels)

\* The reported channel is the one the radio is on, except between a
\* successful call and its report; nothing is reported before that, and the
\* report survives failures and the end of the task.
ReportedIsTuned ==
    stats.current_channel # 0 /\ task.at # "report" => stats.current_channel = radio

\* A pass that is not stopped tries every channel that is left, also those
\* that follow a channel retired in it.
PassIsComplete ==
    [][pass_ends /\ ~stop_requested => ToSet(channels) \subseteq tried]_vars

\* As long as the task runs, every listed channel has its turn, whatever
\* the others do.
EveryChannelTried ==
    \A ch \in Channel :
        (ch \in ToSet(channels) /\ task.at # "gone") ~> (ch \in tried \/ task.at = "gone"
                                                       \/ ch \notin ToSet(channels))

\* A request to stop, by the caller or by a dead driver, ends the task.
StopEnds == (stop_requested /\ task_exists) ~> ~task_exists

-----------------------------------------------------------------------------
(* What the documentation says and the code does not do *)

\* When the task is over, the hopper reports that it is not hopping
\* (PHASE1_5_BUGFIX.md: "hopper stops and enabled=false").
StoppedIsDisabled == caller = "idle" /\ ~task_exists => ~stats.enabled

=============================================================================
