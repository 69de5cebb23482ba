------------------------------ MODULE Sniffer -------------------------------
(***************************************************************************)
(* How the tasks of wifi_sniffer.c share the world model.                  *)
(*                                                                         *)
(* radio_rx_task alone writes it: it feeds one observation per frame and   *)
(* runs the maintenance when it is due, whether frames come or not.  The   *)
(* statistics task and the screen task read it through                     *)
(* wifi_sniffer_get_stats.  Both sides take s_world_mux with a timeout and *)
(* go on without it: the writer then loses the update, a reader reports    *)
(* no world counts.                                                        *)
(*                                                                         *)
(* Tables and frames are the subject of the modules World and RxPath.      *)
(* Here the world is a pair of marks, the first set when an operation      *)
(* begins to change it and the second when it is done, so that a copy made *)
(* in between shows.  Of the priorities the model keeps that of            *)
(* radio_rx_task, the highest: it wakes on time and gets the mutex before  *)
(* any reader.  Everything else interleaves freely.                        *)
(***************************************************************************)
EXTENDS Integers

CONSTANTS
    Reader,      \* the tasks that call wifi_sniffer_get_stats
    QUEUE_WAIT,  \* RADIO_RX_QUEUE_WAIT_MS                          (100 ms)
    WAIT,        \* how long radio_rx_task waits for the mutex       (10 ms)
    READ_WAIT,   \* how long a reader waits for it                   (20 ms)
    INTERVAL,    \* WORLD_MAINT_INTERVAL_MS                         (500 ms)
    Hold         \* the longest time a reader may hold the mutex, per behaviour

ASSUME TimeAssumption ==
    /\ QUEUE_WAIT \in Nat \ {0} /\ WAIT \in Nat \ {0} /\ READ_WAIT \in Nat \ {0}
    /\ INTERVAL \in Nat /\ WAIT < INTERVAL /\ Hold \subseteq Nat
ASSUME ReaderAssumption == "rx" \notin Reader /\ "free" \notin Reader

VARIABLES
    rx,          \* radio_rx_task: its place, the kind of its frame, and the
                 \* time since it began to wait
    reader,      \* each reader: its place, the time it has waited, and the
                 \* first half of its copy
    mux,         \* the holder of s_world_mux, or "free"
    held,        \* the time a reader has held it
    world,       \* the two marks of s_world
    maint_age,   \* the time since s_last_world_maint, INTERVAL for more
    shown,       \* what each reader published last of the world
    lost,        \* history: an update was dropped
    hold         \* how long this behaviour's readers may hold the mutex
vars == <<rx, reader, mux, held, world, maint_age, shown, lost, hold>>

readerVars == <<reader, shown>>

(* Frames whose observation is fed and may be logged; frames that are only *)
(* fed (probe requests, client requests, data); all others; a timeout.     *)
Kind == {"ap", "sta", "rest", "none"}

InMux     == {"maintain", "update", "name"}
WantsMux  == {"tick_take", "feed_take", "name_take"}
RxWaiting == rx.at \in WantsMux

At(place)   == rx' = [rx EXCEPT !.at = place, !.age = 0]
Keep(place) == rx' = [rx EXCEPT !.at = place]
Done        == rx' = [at |-> "receive", kind |-> "none", age |-> 0]

Take(who) == mux = "free" /\ mux' = who
Give      == mux' = "free"

-----------------------------------------------------------------------------
(* radio_rx_task: the queue *)

receive(k) ==
    /\ rx.at = "receive"
    /\ rx' = [at |-> "tick", kind |-> k, age |-> 0]
    /\ UNCHANGED <<readerVars, mux, held, world, maint_age, lost, hold>>

\* Faulty variant of receive_times_out: only frames are followed by world_tick.
receive_waits_on ==
    /\ rx.at = "receive" /\ rx.age >= QUEUE_WAIT
    /\ At("receive")
    /\ UNCHANGED <<readerVars, mux, held, world, maint_age, lost, hold>>

receive_times_out ==
    /\ rx.at = "receive" /\ rx.age >= QUEUE_WAIT
    /\ rx' = [at |-> "tick", kind |-> "none", age |-> 0]
    /\ UNCHANGED <<readerVars, mux, held, world, maint_age, lost, hold>>

(* world_tick *)

AfterTick == IF rx.kind = "none" THEN Done ELSE At("handle")

tick_not_due ==
    /\ rx.at = "tick" /\ maint_age < INTERVAL
    /\ AfterTick
    /\ UNCHANGED <<readerVars, mux, held, world, maint_age, lost, hold>>

tick_due ==
    /\ rx.at = "tick" /\ maint_age >= INTERVAL
    /\ At("tick_take")
    /\ UNCHANGED <<readerVars, mux, held, world, maint_age, lost, hold>>

tick_takes ==
    /\ rx.at = "tick_take" /\ Take("rx")
    /\ Keep("maintain")
    /\ world' = [world EXCEPT !.begun = ~@]
    /\ UNCHANGED <<readerVars, held, maint_age, lost, hold>>

\* The time of the last maintenance stays: the next call tries again.
tick_times_out ==
    /\ rx.at = "tick_take" /\ mux # "free" /\ rx.age >= WAIT
    /\ AfterTick
    /\ UNCHANGED <<readerVars, mux, held, world, maint_age, lost, hold>>

\* s_last_world_maint becomes the time read before the wait for the mutex.
maintained ==
    /\ rx.at = "maintain"
    /\ world' = [world EXCEPT !.done = ~@]
    /\ maint_age' = IF rx.age < INTERVAL THEN rx.age ELSE INTERVAL
    /\ Give /\ AfterTick
    /\ UNCHANGED <<readerVars, held, lost, hold>>

-----------------------------------------------------------------------------
(* radio_rx_task: one frame *)

handle_fed ==
    /\ rx.at = "handle" /\ rx.kind \in {"ap", "sta"}
    /\ At("feed_take")
    /\ UNCHANGED <<readerVars, mux, held, world, maint_age, lost, hold>>

\* Control frames, reserved subtypes, and what a parser refused.
handle_unfed ==
    /\ rx.at = "handle" /\ rx.kind = "rest"
    /\ Done
    /\ UNCHANGED <<readerVars, mux, held, world, maint_age, lost, hold>>

\* Faulty variant of feed_takes: the only writer does not lock.
feed_unlocked ==
    /\ rx.at = "feed_take"
    /\ Keep("update")
    /\ world' = [world EXCEPT !.begun = ~@]
    /\ UNCHANGED <<readerVars, mux, held, maint_age, lost, hold>>

feed_takes ==
    /\ rx.at = "feed_take" /\ Take("rx")
    /\ Keep("update")
    /\ world' = [world EXCEPT !.begun = ~@]
    /\ UNCHANGED <<readerVars, held, maint_age, lost, hold>>

\* An access point may be worth a log line, which names its security.
AfterFeed == \/ rx.kind = "ap" /\ At("name_take")
             \/ Done

feed_times_out ==
    /\ rx.at = "feed_take" /\ mux # "free" /\ rx.age >= WAIT
    /\ lost' = TRUE
    /\ AfterFeed
    /\ UNCHANGED <<readerVars, mux, held, world, maint_age, hold>>

updated ==
    /\ rx.at = "update"
    /\ world' = [world EXCEPT !.done = ~@]
    /\ Give /\ AfterFeed
    /\ UNCHANGED <<readerVars, held, maint_age, lost, hold>>

name_takes ==
    /\ rx.at = "name_take" /\ Take("rx")
    /\ Keep("name")
    /\ UNCHANGED <<readerVars, held, world, maint_age, lost, hold>>

\* The line is logged with the name of the observation alone.
name_times_out ==
    /\ rx.at = "name_take" /\ mux # "free" /\ rx.age >= WAIT
    /\ Done
    /\ UNCHANGED <<readerVars, mux, held, world, maint_age, lost, hold>>

\* Faulty variant of name_read: returns from the loop with the mutex.
name_read_leaks ==
    /\ rx.at = "name"
    /\ Done
    /\ UNCHANGED <<readerVars, mux, held, world, maint_age, lost, hold>>

name_read ==
    /\ rx.at = "name"
    /\ Give /\ Done
    /\ UNCHANGED <<readerVars, held, world, maint_age, lost, hold>>

RxWorks == \/ receive_times_out
           \/ tick_not_due \/ tick_due \/ tick_takes \/ tick_times_out \/ maintained
           \/ handle_fed \/ handle_unfed
           \/ feed_takes \/ feed_times_out \/ updated
           \/ name_takes \/ name_times_out \/ name_read

Frames == \E k \in Kind \ {"none"} : receive(k)

-----------------------------------------------------------------------------
(* wifi_sniffer_get_stats, of radio_stats_task and phase1_ui_task *)

rxVars == <<rx, world, maint_age, lost, hold>>

get_stats(r) ==
    /\ reader[r].at = "idle"
    /\ reader' = [reader EXCEPT ![r] = [at |-> "take", age |-> 0, copy |-> @.copy]]
    /\ UNCHANGED <<rxVars, mux, held, shown>>

\* world_snapshot begins to copy.
reader_takes(r) ==
    /\ reader[r].at = "take" /\ ~RxWaiting /\ Take(r)
    /\ reader' = [reader EXCEPT ![r] =
                    [at |-> "copy", age |-> @.age, copy |-> world.begun]]
    /\ held' = 0
    /\ UNCHANGED <<rxVars, shown>>

reader_times_out(r) ==
    /\ reader[r].at = "take" /\ mux # "free" /\ reader[r].age >= READ_WAIT
    /\ reader' = [reader EXCEPT ![r].at = "idle"]
    /\ shown' = [shown EXCEPT ![r] = "nothing"]
    /\ UNCHANGED <<rxVars, mux, held>>

reader_gives(r) ==
    /\ reader[r].at = "copy"
    /\ reader' = [reader EXCEPT ![r] = [at |-> "idle", age |-> 0, copy |-> FALSE]]
    /\ shown' = [shown EXCEPT ![r] =
                   IF reader[r].copy = world.done THEN "one moment" ELSE "torn"]
    /\ Give
    /\ UNCHANGED <<rxVars, held>>

ReaderWorks(r) == reader_takes(r) \/ reader_times_out(r) \/ reader_gives(r)

-----------------------------------------------------------------------------
(* Time.  radio_rx_task is on time: a wait of it that can end does end     *)
(* before the clock moves, and its work in the mutex takes less than one   *)
(* unit.  A reader gives the mutex back within `hold`; priority            *)
(* inheritance runs it at the priority of a waiting writer.                *)

Older(age, limit) == IF age < limit THEN age + 1 ELSE age

Clock ==
    /\ rx.at = "receive" => rx.age < QUEUE_WAIT
    /\ RxWaiting => mux # "free" /\ rx.age < WAIT
    /\ rx.at \notin InMux
    /\ mux \in Reader => held < hold
    /\ rx' = [rx EXCEPT !.age = IF RxWaiting \/ rx.at = "receive" THEN @ + 1 ELSE @]
    /\ reader' = [r \in Reader |->
                    [reader[r] EXCEPT !.age = IF reader[r].at = "take"
                                              THEN Older(@, READ_WAIT) ELSE @]]
    /\ held' = IF mux \in Reader THEN held + 1 ELSE held
    /\ maint_age' = Older(maint_age, INTERVAL)
    /\ UNCHANGED <<mux, world, shown, lost, hold>>

Init ==
    /\ rx = [at |-> "receive", kind |-> "none", age |-> 0]
    /\ reader = [r \in Reader |-> [at |-> "idle", age |-> 0, copy |-> FALSE]]
    /\ mux = "free" /\ held = 0
    /\ world = [begun |-> FALSE, done |-> FALSE]
    /\ maint_age = INTERVAL
    /\ shown = [r \in Reader |-> "nothing"]
    /\ lost = FALSE
    /\ hold \in Hold

Next == \/ RxWorks
        \/ Frames
        \/ \E r \in Reader : get_stats(r) \/ ReaderWorks(r)
        \/ Clock

(* radio_rx_task and the readers go on while they can: no task of a higher *)
(* priority runs for ever.  Frames need not come and readers need not ask. *)
Spec == /\ Init /\ [][Next]_vars
        /\ WF_vars(RxWorks) /\ WF_vars(Clock)
        /\ \A r \in Reader : WF_vars(ReaderWorks(r))

-----------------------------------------------------------------------------
\* Every variable has its type, and the mutex is held exactly by the task
\* that is between its take and its give.
TypeOK ==
    /\ rx \in [at : {"receive", "tick", "handle"} \cup WantsMux \cup InMux,
               kind : Kind,
               age : 0..(IF rx.at = "receive" THEN QUEUE_WAIT ELSE WAIT)]
    /\ reader \in [Reader -> [at : {"idle", "take", "copy"}, age : 0..READ_WAIT,
                              copy : BOOLEAN]]
    /\ mux \in Reader \cup {"rx", "free"}
    /\ mux = "rx" <=> rx.at \in InMux
    /\ \A r \in Reader : mux = r <=> reader[r].at = "copy"
    /\ maint_age \in 0..INTERVAL

\* The world counts a reader publishes are all of one moment: no update or
\* maintenance runs during its copy (wifi_sniffer_get_stats).
SnapshotsWhole == \A r \in Reader : shown[r] # "torn"

\* As long as a reader gives the mutex back sooner than radio_rx_task's
\* timeout, no observation is dropped, however many readers queue up
\* (world_feed_ap and its siblings).
NoUpdateLost == hold < WAIT => ~lost

\* The maintenance comes round again and again, with frames or without, and
\* a failed take of the mutex is made up for (world_tick).
MaintenanceRecurs ==
    hold < WAIT => (maint_age = INTERVAL ~> maint_age < INTERVAL)

=============================================================================
