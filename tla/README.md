# A TLA+ development of the esp32c6-Pwnagotchi firmware

The firmware is a passive Wi-Fi observer for an ESP32-C6. A promiscuous callback
copies frames into a fixed pool, one task parses them and keeps a bounded model of
the access points and stations around (the *world*), another task hops channels,
and two more show counts on the console and on a screen. The modules here model
all of it but the drawing and the drivers. TLC checks them on small instances, and
TLAPS proves every safety and action property and the refinement for every table
size, pool size and clock; what is left to TLC alone is liveness (section 5).

Source paths below are relative to `src/`.

## 1. Inventory

| Component | State it keeps | Operations | Who calls it | Module |
|---|---|---|---|---|
| World model, `components/world/world.c` | tables of APs and stations, one relation per station, occupancy counters, statistics | `world_on_ap_observation`, `world_on_data_frame`, `world_on_probe_request`, `world_on_sta_mgmt_tx`, `world_maintenance` | `radio_rx_task`, under `s_world_mux` | `World`, `WorldMap`, `WorldProofs` |
| Receive path, `components/radio/rx_path.c` and the I/O hooks of `wifi_sniffer.c` | packet pool, free queue, consumer queue, frame counters | `rx_path_on_frame`, `rx_path_slot_release` | the driver's callback; `radio_rx_task` | `RxPath`, `ReceiveProofs` |
| Channel hopper, `channel_hopper.c`, `hopper_policy.c` | channel list, failure counts, statistics, task handle, stop flag | `channel_hopper_start`, `channel_hopper_stop`, the task | `app_main`; the scheduler | `Hopper`, `HopperProofs` |
| AP dedup cache, `obs_cache.c`, and the log limit of `wifi_sniffer.c` | 32 entries, cursor, counters, last log tick, `last_*` context | `obs_ap_cache_update`, `obs_log_rate_ok` | `handle_ap_observation`, `handle_probe_request` | `ObsCache`, `ObsCacheProofs` |
| Tasks around the world, `wifi_sniffer.c` | `s_world_mux`, `s_last_world_maint` | `radio_rx_task`, `world_tick`, `world_feed_*`, `world_ap_security_name`, `wifi_sniffer_get_stats` | the scheduler; console and screen tasks | `Sniffer`, `SnifferProofs` |
| Parser, `ieee80211_parser.c` | none (pure) | the information-element walk, suite decoding; header guards, client requests, data addresses | `radio_rx_task` | `Parser`, `ParserProofs`; `Headers`, `HeadersProofs` |
| Dispatch and counters, `wifi_sniffer.c` | ~40 counters under `s_stats_mux` | `stats_count_parsed_locked`, `handle_ap_observation`, `handle_probe_request`, `wifi_sniffer_get_stats` | `radio_rx_task`; console and screen tasks | `RxTask`, `ReceiveProofs` |
| Probe dedup cache, `wifi_sniffer.c` | 16 entries, cursor | `probe_cache_update`, `obs_log_rate_ok` | `handle_probe_request` | `ObsCache`, `ObsCacheProofs` |
| Boot, `main/app_main.c`, `board_*_init`, `wifi_sniffer_init`, `wifi_sniffer_start` | what exists so far; NVS partition and SD card across restarts | the start-up sequence, touch retries, NVS erase, SD self test | ROM | `Boot`, `BoardProofs` |
| Display, `board_display.c` | one label, its kind and flags, two draw buffers, `s_lvgl_mutex` | show and update functions, `lvgl_task`, `touch_read`, `display_flush`, `display_flush_complete` | `app_main`, screen task, LVGL, the end-of-transfer interrupt | `Display`, `BoardProofs` |
| Peripherals, `board_{i2c,spi,touch,sd,backlight}.c` | initialised flags | start-up, register I/O | `app_main`, LVGL | in `Boot` and `Display`, as far as they can fail; the register I/O is not |

How they interact. The callback (in the context of the Wi-Fi driver) and
`radio_rx_task` share two FreeRTOS queues of slot pointers and the counters under
`s_stats_mux`. `radio_rx_task` (priority 5) is the only writer of the world; the
console task (priority 2) and the screen task (priority 3) copy a snapshot under
`s_world_mux`, with time-outs on every side. The hopper task (priority 3) shares its
statistics and a stop flag with its creator (priority 1). `lvgl_task` (priority 4)
and the tasks that show or update a screen share LVGL's objects under
`s_lvgl_mutex`; the interrupt that ends a transfer to the LCD gives the draw buffer
back without the mutex. `app_main` creates all of this in an order in which the
tasks already run while it goes on.

What is hard, and which property is for it (the complete list, with lines, is
`hazards` in `PROJECT.json`):

* *Interleaving.* The callback publishes a slot before it counts it; the consumer
  can overtake it. The hopper's task can end before its creator continues.
* *Bounded tables.* Eviction, refusal, expiry and reuse of slots, with relations
  between two tables by slot number and counters kept incrementally.
* *Time.* TTLs, a maintenance that must recur without traffic, mutex time-outs
  that drop work, tick and cursor arithmetic that wraps.
* *Partial knowledge.* Cut captures, hidden names, broken security elements:
  what may a frame add, replace or take away?
* *Failure.* A driver that refuses channels, fails for a while or dies; a draw that
  fails while LVGL holds the mutex; a start-up that fails half-way, is cut off, and
  begins again with what flash and card have kept.
* *Lifetime.* One pointer to a label that several screens destroy.

## 2. The modules

Each module abstracts data to what its properties tell apart and keeps the control
of the code. Definitions carry the names of the C functions; `map` in
`PROJECT.json` gives the lines of each. Operators called *Faulty variant* are not
part of any specification: each is a plausible mistake in the definition it is
named after, with which one property is shown to fail.

The theorems are in modules of their own that extend the component's: `WorldProofs`,
`ReceiveProofs` (`RxPath` and `RxTask`), `HopperProofs`, `ObsCacheProofs`,
`SnifferProofs`, `ParserProofs`, `HeadersProofs` and `BoardProofs` (`Display` and
`Boot`). Two components that share a proof module share no variable and no name:
`RxTask` and `Boot` call their specifications `RxSpec` and `BootSpec`. In the same way
`Headers` has `HeadersSpec`, because one MC module runs it beside `Parser`.

### World

`world` is the C structure; every helper of `world.c` is an operator from world to
world, and a handler composes the helpers it calls in their order (`find`, expiry
check, `alloc` with its sweeps, `create`, merge, relation). One action per handler;
a data frame is split by its address status into uplink, downlink and unusable
frames. `rssi` is abstracted to the address of the transmitter it was measured
from, SSIDs and suites to members of small sets, RSN and WPA elements to *absent*,
*broken* or a suite. Statistics wrap at `CounterMod`, per-record counters saturate
at `SatMax`. The clock is the environment's: `radio_now_ms` never regresses, but
`world.h` promises to tolerate callers whose clock does, so `ClockMayRegress`
admits them.

`WorldMap` is the abstract specification: three maps from addresses (APs to times,
stations to times, stations to relations), with no slots, no counters and no
incremental bookkeeping. `ImplementsMap` is the refinement: the tables, read as
maps, behave as `WorldMap` says.

### RxPath

The callback and the consumer, each cut where the other may run: queue operations
and critical sections are atomic, everything else interleaves. Frames have a type,
a reception state and a length; slots are model values.

### Hopper

The hopper's task and its caller, cut at the critical sections. The driver accepts
the channels of a regulatory domain chosen at the start and may fail for any
other reason at any time. The failure policy and the country table are operators
of their own.

### ObsCache

The two dedup caches of `radio_rx_task` - access points, and the last name each
source probed for - with the counters and context published from the first and the
rate limit on log lines, which both share. An observation is one action, and so is a
probe request: one task runs the whole handler. Names never compared with others
are one value.

### Sniffer

The world is a pair of marks, set when an operation begins and ends, so that a torn
snapshot shows. Mutex waits, time-outs and the maintenance interval are ages that
`Clock` advances. `radio_rx_task` has the highest priority of the tasks modelled:
it gets a free mutex before any reader and its waits end on time.

### Parser

A frame is a sequence of elements with declared lengths and the length of the area
they are in. The same frame is walked twice, whole and cut at an arbitrary byte,
so that what a capture teaches can be compared with what the frame says.

### Headers

Who is a station and who is an access point. The air carries every kind of frame an
infrastructure network has, by the standard, and frames of another protocol version;
the operators are the guards and address rules of the parser, the dispatch of
`radio_rx_task` and the roles the handlers of `World` give to addresses. `World`
starts where `Headers` ends: its data frames have an address status. Times and tables
are left to `World`; here an address is recorded or not.

### RxTask

`radio_rx_task` from the frame to the release of its slot, with the ~40 counters, and
`wifi_sniffer_get_stats`. A critical section is one step, but the classification is
two, so that a reader without the lock would see between. Of the world there is what
its snapshot counts: the records ever created and the records gone (expired or
evicted), the two cumulative counts, and hence what it holds, which rises and falls.
With them goes a history of the observations it was given, by kind. A report also has
the length of the queue and the hopper's channel and counts, each of the moment it is
read and related to nothing else; they are left out.

### Boot

Each start-up function is the sequence of its calls; a behaviour chooses which calls
may fail on this board. `up` is what exists: a task or a callback uses things from
the moment it is there. Restart and power cut clear RAM and keep the NVS partition
and the test file. `channel_hopper_start` and the tasks are modelled inside by
`Hopper`, `RxPath` and `Sniffer`, whose initial states are `Boot`'s last.

### Display

The callers, `lvgl_task` and, external, what LVGL does inside `lv_timer_handler`:
read the touch panel, render tile by tile into two buffers in turn, wait for the one
before. A text is the kind, the flags and the numbers it is printed from. Labels are
pieces of memory: alive with a text, or free. The tasks have priorities: a caller
runs only while `lvgl_task` sleeps or waits.

One thing is assumed of the callers, `InOrder`: `board_display_show_phase0_status`
is called first, if at all, and by itself: `main/app_main.c:105` shows a screen
before the task that updates it exists. What
happens otherwise is in section 6.

## 3. The runs

| Run | Instance | What it shows |
|---|---|---|
| `world_policy` | 2 APs, 1 station, 3 addresses, 3 instants, a clock in any direction, one TTL of 0 | counters and relations agree; signal levels have an owner; evidence moves a relation only as promised; times never regress; refinement of `WorldMap` |
| `world_records` | 1 AP, 2 addresses, every kind of beacon and probe response | merging of names and security, provisional APs, creations balance modulo 2 |
| `rx_path` | 3 slots, a queue of 2, 4 frames of 5 kinds, counters modulo 5 | conservation of slots, accounting, and that slots return |
| `hopper` | 3 channels, 5 country answers, 4 regulatory domains, threshold 2, bytes modulo 4 | retirement, complete passes, stop |
| `hopper_enabled` | as `hopper` | a place where code and documentation differ (section 6) |
| `obs_cache` | 3 addresses for 2 entries in each cache, cursor and counters modulo 4, ticks modulo 3 | merge, eviction order, accounting, rate limit |
| `sniffer` | 2 readers, quick or slow, time-outs of 2 and 3 units, interval 4 | whole snapshots, no lost observation, recurring maintenance |
| `parser` | up to 3 of 11 elements, every cut; 1 client, 2 APs, 1 group address, 8 capture lengths from 1 to 36 bytes | partial observations are sound, complete ones exact; cut frames only lose, nodes keep their roles, plain frames teach |
| `parser_repeated` | as `parser` | a place where code and documentation differ (section 6) |
| `rx_task` | 11 kinds of frame, 2 frames, 2 records, 1 reader | reports of one moment, every observation fed once, reports never go back |
| `boot` | any two calls fail or none, 2 touch attempts, 1 power cut | order of creation, truth of the status screen, start-up ends, a healthy board sniffs |
| `display` | 2 callers, 2 kinds of screen, 2 labels, 2 tiles, draws may fail | the label pointer, whole pictures; calls return and changes are shown unless a draw failed |

Why the bounds are enough. Every policy of `world.c` looks at one slot, at a pair
of records (the older, the stronger, the bound) or at a full table: two AP slots and
one address more than slots produce full tables, ties, reuse of a slot by another
address, and an address that is both an AP and a station. One station slot makes
every new station compete for it; that two stations of one AP are counted right for
any table size is proved (`WorldAlwaysConsistent`). Times matter by their
order and by their distance to a TTL: the clock runs past every TTL used, and back.
In `world_records`, which is about what frames say, two instants let a record expire. Three slots and a shorter queue make the receive path reach both of
its limits, which the code's equal sizes never do together; the equal sizes are the
subject of the theorem `QueueNeverRefuses`. All widths are small enough that
counters, cursors, ticks and bytes wrap; in `rx_path` it is `queue_current` that
does, below zero. In `ObsCache` the constraint `OneCacheInUse` explores one cache at
a time: they share nothing but the rate limit, which takes part in both. In
`Sniffer` the mutex time-outs keep their order (a reader
waits longer than the writer), and the two longer periods are shortened to a few
units; a reader holds the mutex for less than the writer's time-out in one half of
the behaviours and for longer in the other. `Parser` and `Headers` are the two halves
of one parser that share no state: `MCParser` runs one or the other, as the variable
`half` says, and leaves the other at rest. In `Parser` an SSID may have two bytes,
so that a too long one is short as well.

`Headers` has lengths at, before and behind every field end. What a frame
teaches depends on that frame alone, so `MAX_COUNT` stops the run at one data frame
that is counted; the others go on without a bound. In
`RxTask` a reader's counters are at most a few frames old whatever the number of
frames: two put one at and one behind a copy, and let a report follow one that timed out. Two
records are what one data frame may create; `ReportsOnlyGrow` is proved for any. `Boot` needs two
faults for an outcome one function decides and another reports, and one power cut
for a second start-up that finds what the first left half-written on the card. `Display` needs two tiles for
a picture that can be half old and half new, and two labels to free one and use the
other; that both buffers are used again in time is proved for any number of tiles.

Deadlock is checked everywhere but in `parser` and `parser_repeated`, whose walks end,
in `rx_task`, which stops at the bound on frames, in `boot`, where `app_main` returns,
and in `display`, where the system does stop: after a failed draw LVGL
waits for ever and everyone else for LVGL.

### Fairness

* `RxPath`: the consumer and the callback that has begun go on
  (`SlotsReturn`); frames need not arrive.
* `Hopper`: weak fairness of the task alone. It never waits but for delays, and
  nothing forces a caller to start or to stop it.
* `Sniffer`: weak fairness of `radio_rx_task`, of each reader that has begun, and of
  the clock. No frame need come: `MaintenanceRecurs` must hold by the bounded queue
  wait alone.
* `Boot`: weak fairness of `app_main`, which waits for nobody. Power cuts are bounded
  by `MaxCuts`; without a bound no start-up need end.
* `Display`: weak fairness of `lvgl_task` and of the interrupt; strong fairness of
  each caller, which has a lower priority and can take the mutex only while
  `lvgl_task` is away. `lvgl_task` sleeps at least one tick between two calls
  (`CONFIG_FREERTOS_HZ` is 1000), so the caller is let in again and again; the
  mutex hands over by priority. With a delay of no tick, `CallsReturn` fails: that
  is its mutant. After a failed draw neither `CallsReturn` nor `ChangesShown` holds,
  and neither claims to.

## 4. The properties

Properties marked *(proved)* hold by a theorem of section 5 and cost no run of their
own; those marked *(both)* are run and proved.

*World.* These are (both): `WorldConsistent` (`ap_used`, `sta_used`, `rel_used` and
every `station_count` equal a fresh count, and a relation joins used records),
`SignalOwnership` (a signal level comes
from a frame its owner sent), `LiveBindingNotStolen`, `TimesNeverRegress`,
`CreationsAccounted`, `SecurityAgrees`, `CutFramesOnlyAdd`, `ProvisionalMeansUnheard`
and `ImplementsMap`; `UniqueKeys` and `RelationsPlausible` (a relation is no fresher than
its station and joins no address to itself) are (proved). That only the oldest record is evicted and that a maintenance
leaves nothing expired are part of `WorldMap`, hence of `ImplementsMap`.

*RxPath.* `SlotsConserved` (both), `OccupancyExact` (both; with the transient wrap
below zero), `FramesAccounted` (both; the identities of `rx_path.h`), `SlotsReturn`;
`FramesInOrder`, `BodyOnly`, `NeverOverwritten` (proved).

*Hopper.* `LegalChannelsKept` (both), `PassIsComplete` (both), `EveryChannelTried`,
`StopEnds`; `HealthFollowsChannel`, `ReportedIsTuned` (proved).

*ObsCache.* `CacheAccounted`, `OldestGoesFirst` (in both caches), `KnowledgeKept`,
`LinesSpaced` (all both).

*Sniffer.* `SnapshotsWhole` (both), `NoUpdateLost` (both), `MaintenanceRecurs`.

*Parser.* `CutLearnsLess`, `CompleteMeansWellFormed` (both; with the one exception that
`RepeatedIsNotComplete`, which is violated, isolates); the grammar of suites (proved).

*Headers.* `RolesKept` (both; no client becomes an access point, no access point a
station), `CutOnlyLoses` (both), `PlainFramesTeach` (both; the guards do not reject too
much); `OnlySpeakersHeard`, `ReadsInsideCapture` (proved).

*RxTask.* `ReportsAddUp`, `FeedsAccounted`, `ReportsNeverGoBack` (all both). The last
speaks of cumulative counts: what the world holds may fall, and a report that timed out
on the mutex shows zeros (section 6); the next report that shows the world is not behind
the last one that did.

*Boot.* `UsersFindTheirParts` (both), `StatusIsTrue` (both; and a failed radio is left
alone), `StartupEnds`, `HealthyBoardSniffs`.

*Display.* `StatusLabelAlive` (both), `PanelShowsScreen` (both), `CallsReturn`,
`ChangesShown`; `TilesInPlace`, `WaitsForTransfer` (proved).

Each is stated in words above its definition.

## 5. What is proved

`WorldProofs` proves, for all table sizes, TTLs, addresses and clocks that may
regress: `TypeCorrect`, `WorldAlwaysConsistent` and `KeysStayUnique`. The inductive
invariant is `Good(world)` - types, unique unicast keys, exact counters, relations
between used slots - with `now` in range. It is needed as a whole: that a counter
stays above zero when it is decremented follows from its being exact, which follows
from relations pointing to used slots only. The proof follows the code: one lemma
for every helper (`sta_unbind`, `ap_remove`, the sweeps, `alloc`, `create`,
`relation_evidence`, the merges) that says it takes good worlds to good worlds, and
one step per action that composes them. The counts are cardinalities, so the
lemmas rest on `FiniteSetTheorems`.

On top of it `FInv` holds what is true of every record by itself: who its signal level
is from (`LevelsStayOwned`), that its verdict agrees with its suites (`VerdictsAgree`),
that it is provisional exactly while nothing was heard of it (`ProvisionalAlwaysUnheard`,
for counters that can count at all), and that no relation is fresher than its station
(`RelationsStayPlausible`). Every helper leaves the records it does not name as they
were or empties them; so one lemma per helper says what it leaves, and each handler
has to show the facts of the records it writes only. `CutFramesNeverForget` follows
from the types alone: it speaks of any frame in any reachable table.
`CreationsStayAccounted` counts, modulo `CounterMod`, what a helper adds to the table
and to the statistics: every helper changes both sides of the balance alike.

`TablesImplementMaps` is the refinement `ImplementsMap`. `Maps(w, A, S, R)` says that
the maps `A`, `S` and `R` are the tables of `w`, read by address; a good world has
exactly one reading (`ReadingUnique`). The lemmas of the helpers say what they make
of a reading: a record that leaves the table leaves the map and its relations with it
(`ApsLeaveMaps`, `StasLeaveMaps`), a record that is written is the map with one more
address (`ApWrittenMaps`, `StaWrittenMaps`), evidence is a step of `R`
(`EvidenceMaps`). A full table is a map of full size, because slots and addresses are
in bijection (`MapSizes`); what the table evicts, by its last-seen order over slots,
is a victim the map allows (`ApVictims`, `StaVictims`). One lemma per handler composes
them, and `NextMaps` is the step of the simulation.

The two action properties come by way of that reading. A step of the maps never puts
an address back in time (`NotEarlier`), and gives or takes a binding that is fresh
only on evidence that is strong enough (`Holds`, `Spares`); `StepOfTables` carries
both back to the tables: `TimesStayMonotone` and `FreshBindingsHold`. The times of
relations are not in the maps; they are followed through the helpers directly
(`Steady`, `Onward`).

`ReceiveProofs` proves of `RxPath`, for every pool, queue size, counter width and
stream of frames: `RxTypeCorrect`, `SlotsAlwaysConserved`, `OccupancyAlwaysExact`, and, if
the consumer queue is at least as large as the pool, `QueueNeverRefuses`: the branch
that drops a frame at the queue is dead in this firmware, because
`wifi_sniffer_init` creates both queues with the size of the pool. Conservation is
inductive with the types; exact occupancy needs it, to bound the queue by the pool.
`PacketsNeverOverwritten` follows from it: the slot being filled is in no other
place. `FramesAlwaysInOrder` and `BodyAlwaysOnly` need one more invariant: every
frame in flight was copied by the callback's rule and is older than the frame the
callback has still to push. `FramesAlwaysAccounted` needs to know at every place of
the callback which counters are already incremented: `Books` gives the identities
of `rx_path.h` as congruences, place by place.

Of `RxTask` it proves, for every set of readers and any frames: `ReportsAlwaysAddUp`,
`FeedsAlwaysAccounted` and `ReportsOnlyGrow` (the counters of frames, and the records
created and gone, from report to report that shows them). The invariant `RInv` has four parts: the
counters of a class add up to its total at any time (`ClassesAddUp`); at every place
of the task the totals differ by the frame in hand in a known way (`Progress`); the
world was given what the counters say (`Fed`); and what a reader has copied hangs
together and is not ahead (`Copied`). The core is `Classifies`: counting a frame adds
one to its type, to one subtype of that type and to nothing else that the sums
mention. Counters are natural numbers here, so these three theorems speak of fewer
than 2^32 frames since boot; the sums would hold modulo 2^32 beyond that, the
comparisons would not.

`ObsCacheProofs` proves, for every size of the caches, interval and width:
`CacheTypeCorrect`, `CacheAlwaysAccounted`, `OldestAlwaysFirst`, `LinesAlwaysSpaced` and,
if a counter holds more than one value, `KnowledgeAlwaysKept`. The caches are rings:
the invariant (`Ring`) says that the slots up to the cursor hold the last insertions,
in their order, and that no other slot is in use. The cursor
wraps at `CursorMod` and is then reduced to a slot, which keeps the order only because
both sizes divide it: that is an assumption of the module (`SizeAssumption`), justified by
the constants of the code. The distance of the wrapping tick to the last line equals
its age as long as the age is below the interval, so no line is let through early.

`HopperProofs` proves, for every number of channels, country table, regulatory
domain and threshold: `HopperTypeCorrect`, `HealthAlwaysFollows`,
`LegalChannelsAlwaysKept`, `ReportAlwaysTuned` and `PassAlwaysComplete`. The first
four are one inductive invariant together with the places of the two tasks: no
caller fills the arrays while a hopper task lives. The list must be ascending for
the failure counts to follow their channels, because a count is found by index; the
lemma `CloseUp` says what closing up an array does. The fifth adds that every channel
behind the index was tried, where the index after a retirement at the front is 255
for the length of a dwell, and that the list is shorter than a byte can count.

`SnifferProofs` proves, for any number of readers and any time-outs:
`SnifferTypeCorrect`, `SnapshotsAlwaysWhole` and `NoUpdateEverLost`. The writer's two
marks agree except while it writes, and a reader's first half is of the marks that
hold as long as it has the mutex. No update is lost because a waiting writer has
waited no longer than the reader it waits for has held the mutex: readers do not
pass a waiting writer (`reader_takes`), so it waits for one of them at most. The
theorem speaks of behaviours whose readers hold the mutex for less than `WAIT`;
that is a condition of `NoUpdateLost`, not a fact of the firmware.

`ParserProofs` proves `SuitesMatchGrammar`: for every length and all counts, the
decoder of RSN and WPA elements accepts exactly the lengths of the documented
grammar, hence never reads behind the element and leaves nothing over. It also proves,
for every frame and every cut, `CutsNeverMislead` (`CutLearnsLess`) and
`CompleteIsWellFormed` (`CompleteMeansWellFormed`: complete exactly when well formed,
but for a probe request that repeats its channel, section 6). The invariant says what a walker
in front of the n-th element has heard and noted, as a function of the elements
before it, and, of one that has stopped, why: the end, a cut, or an element that does
not fit. Two walkers over the same elements then agree as far as the shorter one came.
Where the n-th element begins is a sum over the elements before it; its recursive
definition is unfolded by well-founded induction on sets of places, of which the
library's theorem for a given relation is enough.

`BoardProofs` proves of `Display`, for any screens, callers, labels and number of tiles:
`TypeCorrect`, `LabelNeverDangles`, `NoTileMisplaced`, `NoLostFlush` and
`PictureIsWhole`. The label needs the order of the calls (`InOrder`): its lemmas
`Phase0First` and `Phase0Step` say that no status screen exists before the Phase 0
screen is done. A tile is never misplaced
because at most one transfer is under way, of the buffer LVGL is not rendering into;
this follows from LVGL's waiting for `flushing` and needs the interrupt to be the only
one who clears it. The picture invariant says of every tile where its current text
is: on the panel, in the transfer under way, in the buffer about to be sent, or still
to be rendered; that callers cannot change the label meanwhile is the mutex
invariant of `TypeOK`.

Of `Boot` it proves, for any calls that fail, any number of touch attempts and any
cuts of the power: `NothingRunsTooSoon` (`UsersFindTheirParts`) and `StatusAlwaysTrue`
(`StatusIsTrue`). The invariant `BInv` says, of every place of `app_main`, what exists
behind it in its function (`Behind`), what the functions before have left for this one
(`Left`), and what the results mean that the screen will show, the file on the card
included (`Meant`). Every action is one of four kinds: it proceeds, leaves a function
without which `app_main` can go on, restarts, or changes nothing of these. Each kind
has a lemma.

`HeadersProofs` proves, for any nodes and any set of capture lengths: `TypeCorrect`,
`NodesKeepTheirRoles`, `SilenceIsNotHeard`, `NoReadPastCapture`,
`CutFramesNeverMislead` and `PlainFramesAlwaysTeach`. The argument is by kind of
traffic (`TrafficRoles`): which address fields hold a client's address and which an
access point's; and by what the dispatch does with each kind (`LearntProper`). A role can be kept only because
four-address frames are recognised before their length is doubted away, and the
authentication of an access point has `addr2 = addr3`. The last theorem is the
converse: `KindSays` names the guards a plain frame of each kind passes, and
`PlainTeaches` the address it then records.

Assumptions are the named `ASSUME`s of the modules, which TLC evaluates in every
run. Three theorems add a hypothesis of their own that the code's constants
satisfy: a saturating counter of the world reaches one (`SatMax > 0`; it is 65535),
a cache counter has two values, and the consumer queue is as large as the pool.

Only model-checked is liveness, because fairness and `ENABLED` are out of the prover's
reach: `SlotsReturn`, `EveryChannelTried`, `StopEnds`, `MaintenanceRecurs`,
`StartupEnds`, `HealthyBoardSniffs`, `CallsReturn` and `ChangesShown`. The properties
marked *(proved)* above have no run: they were model-checked before they were proved,
and hold for every instance now.

## 6. Where code and documentation differ

Shown by a run:

* `hopper_enabled`: a hopper whose task ended at once (every channel refused) is
  reported as enabled, because `channel_hopper_start` sets the flag after the task
  cleared it (`channel_hopper.c:173`; `docs/PHASE1_5_BUGFIX.md:217`).
* `parser_repeated`: a probe request with two DS Parameter elements is complete, because
  the walk sets `dup_critical_ie` of AP observations only (`ieee80211_parser.c:347-351`).
  The header gives the flag to a repeated SSID or DS Parameter element and gives probe
  observations the same meaning (`ieee80211_parser.h:262-267`, `:306-307`; also
  `ieee80211_parser.c:229-231`). `CompleteMeansWellFormed` names this exception
  (`OnlyChannelRepeated`) and shows that it is the only one.

Noted while modelling, without a run:

* `hop_errors` is never incremented (`docs/PHASE1_FINAL.md:14`,
  `main/app_main.c:95`).
* A complete observation of a hidden AP replaces the signal and channel shown next
  to another AP's name (`wifi_sniffer.c:517`; `docs/PHASE1_5_BUGFIX.md:165`).
* `board_display_show_phase0_status` destroys the label of a Phase 1 screen and
  leaves `s_status_label` pointing to it (`board_display.c:286`; the comment at 42).
  Today's `app_main` never calls it; hence `InOrder`.
* A probe is remembered before the rate limit drops its line, so its repetition is
  held back although it never was logged (`wifi_sniffer.c:570`, `:586`; the comment
  at 417).
* A data frame with a cut header is not counted in `data_short`, because only frames
  whose addresses were read are fed (`wifi_sniffer.c:690`; `world.h:164`).
* `hopper_policy.h:35` says the country range is intersected with [1, 14]; the code
  rejects a table that ends past 14 and falls back to 1..11.
* `channel_hopper.h:44` says stop waits briefly for the task; it sets a flag.
* The comment at `wifi_sniffer.c:161` promises a line per new AP; a line that hits
  the rate limit is lost, not delayed. The one at 417 speaks of (src, ssid) pairs;
  the cache keeps one name per source, so alternating names are logged again.
* `esp_lcd_panel_draw_bitmap` may fail and its result is not looked at: from then on
  `lvgl_task` holds the mutex for ever, and every caller waits for it
  (`board_display.c:97`; the reason why the liveness of `Display` is claimed only while
  no draw has failed).
* If only `esp_wifi_set_channel` fails in `wifi_sniffer_start`, promiscuous mode stays
  on: frames are received and counted while the screen says FAIL
  (`wifi_sniffer.c:996`; the exception in `StatusIsTrue`).
* A reader that times out on the mutex publishes zero world counts, as if nothing
  were around (`wifi_sniffer.c:810`). The screen is to show the world's current counts
  (`main/app_main.c:44-46`), and a snapshot the true current state
  (`docs/PHASE2_WORLD_MODEL.md:50-51`).
* `channel_hopper_start` clears the hopper's statistics, so that after a restart a report
  falls back to the startup channel until the first hop, against the comment at
  `wifi_sniffer.c:838-841`. Nobody restarts the hopper today.
* The first failures of a channel within five seconds of boot are not logged
  (`hopper_log_due`).

## 7. Plan

Done: every module of section 2, model-checked; every safety and action property and
the refinement of `WorldMap` proved.

Next, in this order:

1. Invariants across modules that no single one can state: that the observations
   `RxTask` counts as fed are the ones the handlers of `World` receive, and that
   `Boot`'s last state is an initial state of `Hopper`, `RxPath` and `Sniffer`.
2. `FramesAccounted` and `ReportsAddUp` in one report: `wifi_sniffer_get_stats` copies
   the counters of both in one section.
3. The safety core of the liveness properties: ranks that the fair steps decrease
   (the distance of a frame to its release, the channels left of a pass), proved as
   action properties, so that TLC is needed for the last step only.

Not modelled and not planned: a second `wifi_sniffer_init` after one that failed (no
caller makes one), the length of the queue and the hopper's part of a report, drawing and LVGL's own code, driver register I/O, the
duty arithmetic of the backlight, the log throttle of touch points, the read-only
views and formatting of records and log lines, and the host tests, which were read
as documentation. They keep no state that a property here depends on.
