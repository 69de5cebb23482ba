--------------------------- MODULE SnifferProofs ----------------------------
(***************************************************************************)
(* The mutex around the world, proved for any number of readers and any    *)
(* lengths of the time-outs: no snapshot is torn, and no observation is    *)
(* dropped while readers hold the mutex for less than the writer waits.    *)
(***************************************************************************)
EXTENDS Sniffer, TLAPS

Place == {"receive", "tick", "handle"} \cup WantsMux \cup InMux

RxType == [at : Place, kind : Kind,
           age : 0..(IF rx.at = "receive" THEN QUEUE_WAIT ELSE WAIT)]

ReaderType == [at : {"idle", "take", "copy"}, age : 0..READ_WAIT, copy : BOOLEAN]

Shown == {"nothing", "one moment", "torn"}

\* The writer's marks agree except while it writes; a reader's first half is of
\* the marks that hold for as long as it has the mutex.
Whole ==
    /\ world \in [begun : BOOLEAN, done : BOOLEAN] /\ shown \in [Reader -> Shown]
    /\ world.begun = world.done <=> rx.at \notin {"maintain", "update"}
    /\ \A r \in Reader : reader[r].at = "copy" => reader[r].copy = world.begun
    /\ SnapshotsWhole

\* A writer that waits began to wait after the reader it waits for took the
\* mutex: reader_takes lets no reader past a waiting writer.
WaitsForOne ==
    /\ hold \in Nat /\ held \in Nat
    /\ mux \in Reader => held <= hold
    /\ RxWaiting /\ mux # "free" => mux \in Reader /\ rx.age <= held

SInv == TypeOK /\ Whole /\ WaitsForOne /\ NoUpdateLost

\* The invariant holds at the start.
LEMMA InitSInv == Init => SInv
<1> SUFFICES ASSUME Init PROVE SInv
  OBVIOUS
<1>1. /\ rx.at = "receive" /\ rx.age = 0 /\ rx.kind = "none"
      /\ rx \in [at : Place, kind : Kind, age : 0..QUEUE_WAIT]
      /\ \A r \in Reader : reader[r].at = "idle"
      /\ reader \in [Reader -> ReaderType]
      /\ mux = "free" /\ held = 0 /\ lost = FALSE /\ hold \in Nat
      /\ maint_age \in 0..INTERVAL
      /\ world = [begun |-> FALSE, done |-> FALSE]
      /\ shown \in [Reader -> Shown] /\ \A r \in Reader : shown[r] = "nothing"
  BY TimeAssumption DEF Init, ReaderType, Place, Kind, Shown
<1>2. TypeOK
  BY <1>1, ReaderAssumption DEF TypeOK, InMux, Place, ReaderType
<1>3. Whole
  BY <1>1 DEF Whole, SnapshotsWhole
<1>4. WaitsForOne /\ NoUpdateLost
  BY <1>1, ReaderAssumption DEF WaitsForOne, NoUpdateLost, RxWaiting, WantsMux
<1>5. QED
  BY <1>2, <1>3, <1>4 DEF SInv

-----------------------------------------------------------------------------
(* radio_rx_task *)

\* Where the task goes, with its wait beginning anew or continued.
LEMMA Moves ==
    ASSUME SInv
    PROVE  /\ \A p : At(p) => rx' = [at |-> p, kind |-> rx.kind, age |-> 0]
           /\ \A p : Keep(p) => rx' = [at |-> p, kind |-> rx.kind, age |-> rx.age]
           /\ rx.kind \in Kind
<1>1. rx \in RxType
  BY DEF SInv, TypeOK, RxType, Place
<1>2. rx = [at |-> rx.at, kind |-> rx.kind, age |-> rx.age] /\ rx.kind \in Kind
  BY <1>1 DEF RxType
<1>3. QED
  BY <1>2 DEF At, Keep

\* Outside the mutex a step leads from one of these places to another.
Outside == {"receive", "tick", "handle", "tick_take", "feed_take", "name_take"}

Restarts(p, k) == rx' = [at |-> p, kind |-> k, age |-> 0]

\* Steps outside the mutex: waits begin anew and nobody else is touched.
LEMMA RxOutside ==
    ASSUME SInv, UNCHANGED <<readerVars, mux, held, world, maint_age, hold>>,
           rx.at \notin InMux, NEW p \in Outside, NEW k \in Kind, Restarts(p, k),
           NoUpdateLost'
    PROVE  SInv'
<1>0. rx'.at = p /\ rx'.kind = k /\ rx'.age = 0 /\ p \in Place /\ p \notin InMux
  BY DEF Restarts, Outside, Place, InMux, WantsMux
<1>1. /\ reader' = reader /\ shown' = shown /\ mux' = mux /\ held' = held
      /\ world' = world /\ maint_age' = maint_age /\ hold' = hold
  BY DEF readerVars
<1>2. 0 \in 0..(IF rx'.at = "receive" THEN QUEUE_WAIT ELSE WAIT)
  BY TimeAssumption
<1>3. rx' \in [at : Place, kind : Kind,
               age : 0..(IF rx'.at = "receive" THEN QUEUE_WAIT ELSE WAIT)]
  BY <1>0, <1>2 DEF Restarts
<1>4. TypeOK'
  BY <1>0, <1>1, <1>3 DEF SInv, TypeOK, Place
<1>5. Whole'
  BY <1>0, <1>1 DEF SInv, Whole, SnapshotsWhole, InMux
<1>6. WaitsForOne'
  <2>1. mux # "rx" /\ mux \in Reader \cup {"rx", "free"} /\ rx'.age = 0
    BY <1>0 DEF SInv, TypeOK
  <2>2. QED
    BY <1>1, <2>1 DEF SInv, WaitsForOne
<1>7. QED
  BY <1>4, <1>5, <1>6 DEF SInv

\* The steps of radio_rx_task that touch neither the mutex nor the world.
LEMMA RxOutsideSteps ==
    ASSUME SInv,
           \/ \E k \in Kind \ {"none"} : receive(k)
           \/ receive_times_out \/ tick_not_due \/ tick_due \/ tick_times_out
           \/ handle_fed \/ handle_unfed \/ name_times_out
    PROVE  SInv'
<1>1. /\ UNCHANGED <<readerVars, mux, held, world, maint_age, hold>> /\ lost' = lost
      /\ rx.at \notin InMux
  BY DEF receive, receive_times_out, tick_not_due, tick_due, tick_times_out,
     handle_fed, handle_unfed, name_times_out, InMux
<1>2. \E p \in Outside, k \in Kind : Restarts(p, k)
  <2>1. ASSUME NEW k \in Kind \ {"none"}, receive(k) PROVE Restarts("tick", k)
    BY <2>1 DEF receive, Restarts
  <2>2. receive_times_out => Restarts("tick", "none")
    BY DEF receive_times_out, Restarts
  <2>3. handle_unfed \/ name_times_out => Restarts("receive", "none")
    BY DEF handle_unfed, name_times_out, Done, Restarts
  <2>4. ASSUME AfterTick
        PROVE  Restarts("receive", "none") \/ Restarts("handle", rx.kind)
    BY <2>4, Moves DEF AfterTick, Done, Restarts
  <2>5. tick_not_due \/ tick_times_out => AfterTick
    BY DEF tick_not_due, tick_times_out
  <2>6. tick_due => Restarts("tick_take", rx.kind)
    BY Moves DEF tick_due, Restarts
  <2>7. handle_fed => Restarts("feed_take", rx.kind)
    BY Moves DEF handle_fed, Restarts
  <2>8. /\ "receive" \in Outside /\ "tick" \in Outside /\ "handle" \in Outside
        /\ "tick_take" \in Outside /\ "feed_take" \in Outside
        /\ "none" \in Kind /\ rx.kind \in Kind
    BY Moves DEF Outside, Kind
  <2>9. QED
    BY <2>1, <2>2, <2>3, <2>4, <2>5, <2>6, <2>7, <2>8
<1>3. NoUpdateLost'
  BY <1>1 DEF SInv, NoUpdateLost
<1>4. QED
  BY <1>1, <1>2, <1>3, RxOutside

\* Where the task goes when the update of a frame is over or dropped.
LEMMA AfterFeedMoves ==
    ASSUME SInv, AfterFeed
    PROVE  \E p \in Outside, k \in Kind : Restarts(p, k)
<1>1. Restarts("name_take", rx.kind) \/ Restarts("receive", "none")
  BY Moves DEF AfterFeed, Done, Restarts
<1>2. /\ "name_take" \in Outside /\ "receive" \in Outside
      /\ "none" \in Kind /\ rx.kind \in Kind
  BY Moves DEF Outside, Kind
<1>3. QED
  BY <1>1, <1>2

\* A dropped update: somebody has had the mutex for as long as the writer waits.
LEMMA FeedTimesOut ==
    ASSUME SInv, feed_times_out
    PROVE  SInv'
<1>1. /\ UNCHANGED <<readerVars, mux, held, world, maint_age, hold>>
      /\ rx.at = "feed_take" /\ mux # "free" /\ rx.age >= WAIT /\ AfterFeed
  BY DEF feed_times_out
<1>2. rx.age \in Int
  BY <1>1, TimeAssumption DEF SInv, TypeOK
<1>3. hold >= WAIT /\ hold \in Nat
  BY <1>1, <1>2, TimeAssumption DEF SInv, WaitsForOne, RxWaiting, WantsMux
<1>4. NoUpdateLost'
  BY <1>1, <1>3, TimeAssumption DEF NoUpdateLost
<1>5. QED
  BY <1>1, <1>4, AfterFeedMoves, RxOutside DEF InMux

\* The writer takes the mutex; it may mark the beginning of a change.
LEMMA RxTakes ==
    ASSUME SInv, tick_takes \/ feed_takes \/ name_takes
    PROVE  SInv'
<1>1. /\ mux = "free" /\ mux' = "rx" /\ rx.at \in WantsMux
      /\ UNCHANGED <<readerVars, held, maint_age, lost, hold>>
  BY DEF tick_takes, feed_takes, name_takes, Take, WantsMux
<1>2. PICK p \in InMux :
        /\ rx' = [at |-> p, kind |-> rx.kind, age |-> rx.age]
        /\ world' = IF p = "name" THEN world ELSE [world EXCEPT !.begun = ~@]
  <2>1. tick_takes => Keep("maintain") /\ world' = [world EXCEPT !.begun = ~@]
    BY DEF tick_takes
  <2>2. feed_takes => Keep("update") /\ world' = [world EXCEPT !.begun = ~@]
    BY DEF feed_takes
  <2>3. name_takes => Keep("name") /\ world' = world
    BY DEF name_takes
  <2>4. QED
    BY <2>1, <2>2, <2>3, Moves DEF InMux
<1>3. rx \in RxType /\ rx.at # "receive"
  BY <1>1 DEF SInv, TypeOK, RxType, Place, WantsMux
<1>4. /\ rx' \in [at : Place, kind : Kind,
                  age : 0..(IF rx'.at = "receive" THEN QUEUE_WAIT ELSE WAIT)]
      /\ rx'.at = p
  BY <1>2, <1>3 DEF RxType, Place, InMux
<1>5. /\ reader' = reader /\ shown' = shown /\ held' = held /\ hold' = hold
      /\ maint_age' = maint_age /\ lost' = lost
      /\ \A r \in Reader : reader[r].at # "copy"
  BY <1>1, ReaderAssumption DEF readerVars, SInv, TypeOK
<1>6. TypeOK'
  BY <1>1, <1>2, <1>4, <1>5, ReaderAssumption DEF SInv, TypeOK, Place
<1>7. Whole'
  <2>1. /\ world \in [begun : BOOLEAN, done : BOOLEAN] /\ world.begun = world.done
    BY <1>1 DEF SInv, Whole, WantsMux
  <2>2. CASE p = "name"
    BY <1>2, <1>4, <1>5, <2>1, <2>2 DEF SInv, Whole, SnapshotsWhole
  <2>3. CASE p # "name"
    <3>1. p \in {"maintain", "update"}
      BY <2>3 DEF InMux
    <3>2. /\ world' \in [begun : BOOLEAN, done : BOOLEAN]
          /\ world'.begun # world'.done
      BY <1>2, <2>1, <2>3
    <3>3. QED
      BY <1>4, <1>5, <3>1, <3>2 DEF SInv, Whole, SnapshotsWhole
  <2>4. QED
    BY <2>2, <2>3
<1>8. WaitsForOne' /\ NoUpdateLost'
  BY <1>1, <1>2, <1>4, <1>5, ReaderAssumption
     DEF SInv, WaitsForOne, NoUpdateLost, RxWaiting, InMux, WantsMux
<1>9. QED
  BY <1>6, <1>7, <1>8 DEF SInv

\* The writer has finished its change, if it made one, and gives the mutex back.
LEMMA RxGives ==
    ASSUME SInv, maintained \/ updated \/ name_read
    PROVE  SInv'
<1>1. /\ rx.at \in InMux /\ mux' = "free"
      /\ UNCHANGED <<readerVars, held, lost, hold>>
      /\ world' = IF rx.at = "name" THEN world ELSE [world EXCEPT !.done = ~@]
  BY DEF maintained, updated, name_read, Give, InMux
<1>2. PICK p \in Outside, k \in Kind : Restarts(p, k)
  <2>1. ASSUME maintained PROVE Restarts("receive", "none") \/ Restarts("handle", rx.kind)
    BY <2>1, Moves DEF maintained, AfterTick, Done, Restarts
  <2>2. ASSUME updated PROVE \E p \in Outside, k \in Kind : Restarts(p, k)
    BY <2>2, AfterFeedMoves DEF updated
  <2>3. name_read => Restarts("receive", "none")
    BY DEF name_read, Done, Restarts
  <2>4. /\ "receive" \in Outside /\ "handle" \in Outside
        /\ "none" \in Kind /\ rx.kind \in Kind
    BY Moves DEF Outside, Kind
  <2>5. QED
    BY <2>1, <2>2, <2>3, <2>4
<1>3. /\ rx'.at = p /\ rx'.age = 0 /\ p \in Place /\ p \notin InMux
      /\ 0 \in 0..(IF rx'.at = "receive" THEN QUEUE_WAIT ELSE WAIT)
  BY <1>2, TimeAssumption DEF Restarts, Outside, Place, InMux, WantsMux
<1>4. rx' \in [at : Place, kind : Kind,
               age : 0..(IF rx'.at = "receive" THEN QUEUE_WAIT ELSE WAIT)]
  BY <1>2, <1>3 DEF Restarts
<1>5. maint_age' \in 0..INTERVAL
  <2>1. rx.age \in Nat /\ maint_age \in 0..INTERVAL
    BY TimeAssumption DEF SInv, TypeOK
  <2>2. QED
    BY <2>1, TimeAssumption DEF maintained, updated, name_read
<1>6. /\ reader' = reader /\ shown' = shown /\ held' = held /\ hold' = hold
      /\ lost' = lost /\ mux = "rx" /\ \A r \in Reader : reader[r].at # "copy"
  BY <1>1, ReaderAssumption DEF readerVars, SInv, TypeOK
<1>7. TypeOK'
  BY <1>1, <1>3, <1>4, <1>5, <1>6, ReaderAssumption DEF SInv, TypeOK, Place
<1>8. Whole'
  <2>1. /\ world \in [begun : BOOLEAN, done : BOOLEAN]
        /\ world.begun = world.done <=> rx.at = "name"
    BY <1>1 DEF SInv, Whole, InMux
  <2>2. /\ world' \in [begun : BOOLEAN, done : BOOLEAN]
        /\ world'.begun = world'.done
    BY <1>1, <2>1
  <2>3. rx'.at \notin {"maintain", "update"}
    BY <1>3 DEF InMux
  <2>4. QED
    BY <1>6, <2>2, <2>3 DEF SInv, Whole, SnapshotsWhole
<1>9. WaitsForOne' /\ NoUpdateLost'
  BY <1>1, <1>6, ReaderAssumption DEF SInv, WaitsForOne, NoUpdateLost
<1>10. QED
  BY <1>7, <1>8, <1>9 DEF SInv

-----------------------------------------------------------------------------
(* The readers and the clock *)

\* What the step of one reader leaves alone, and what it writes.
LEMMA ReaderWrites ==
    ASSUME SInv, NEW r \in Reader, NEW x \in ReaderType, NEW y \in Shown,
           reader' = [reader EXCEPT ![r] = x], shown' = [shown EXCEPT ![r] = y]
    PROVE  /\ reader' \in [Reader -> ReaderType] /\ reader'[r] = x
           /\ \A t \in Reader : t # r => reader'[t] = reader[t]
           /\ shown' \in [Reader -> Shown] /\ shown'[r] = y
           /\ \A t \in Reader : t # r => shown'[t] = shown[t]
<1>1. reader \in [Reader -> ReaderType] /\ shown \in [Reader -> Shown]
  BY DEF SInv, TypeOK, ReaderType, Whole
<1>2. QED
  BY <1>1

\* The steps of one reader: it asks, gives up, takes the mutex, gives it back.
LEMMA ReaderSteps ==
    ASSUME SInv, NEW r \in Reader, get_stats(r) \/ ReaderWorks(r)
    PROVE  SInv'
<1>1. /\ rx' = rx /\ world' = world /\ maint_age' = maint_age /\ lost' = lost
      /\ hold' = hold
  BY DEF get_stats, ReaderWorks, reader_takes, reader_times_out, reader_gives, rxVars
<1>2. /\ reader[r] \in ReaderType /\ 0 \in 0..READ_WAIT
      /\ reader[r] = [at |-> reader[r].at, age |-> reader[r].age, copy |-> reader[r].copy]
      /\ shown \in [Reader -> Shown] /\ world.begun \in BOOLEAN /\ held \in Nat
      /\ shown = [shown EXCEPT ![r] = shown[r]]
  <2>1. reader[r] \in ReaderType /\ shown \in [Reader -> Shown]
    BY DEF SInv, TypeOK, ReaderType, Whole
  <2>2. QED
    BY <2>1, TimeAssumption DEF ReaderType, SInv, Whole, WaitsForOne
<1>3. /\ mux \in Reader \cup {"rx", "free"} /\ r # "rx" /\ r # "free"
      /\ \A t \in Reader : mux = t <=> reader[t].at = "copy"
      /\ mux = "rx" <=> rx.at \in InMux
  BY ReaderAssumption DEF SInv, TypeOK
<1>4. NoUpdateLost'
  BY <1>1 DEF SInv, NoUpdateLost
<1>5. CASE get_stats(r) \/ reader_times_out(r)
  <2>1. mux' = mux /\ held' = held /\ reader[r].at \in {"idle", "take"}
    BY <1>5 DEF get_stats, reader_times_out
  <2>2. PICK x \in ReaderType, y \in Shown :
           /\ reader' = [reader EXCEPT ![r] = x] /\ shown' = [shown EXCEPT ![r] = y]
           /\ x.at \in {"idle", "take"} /\ (y = "torn" => shown[r] = "torn")
    <3>1. CASE get_stats(r)
      <4> DEFINE x == [at |-> "take", age |-> 0, copy |-> reader[r].copy]
      <4>1. x \in ReaderType /\ x.at = "take"
        BY <1>2 DEF ReaderType
      <4>2. reader' = [reader EXCEPT ![r] = x] /\ shown' = [shown EXCEPT ![r] = shown[r]]
        BY <1>2, <3>1 DEF get_stats
      <4> HIDE DEF x
      <4>3. shown[r] \in Shown
        BY <1>2
      <4>4. QED
        BY <4>1, <4>2, <4>3
    <3>2. CASE reader_times_out(r)
      <4> DEFINE x == [at |-> "idle", age |-> reader[r].age, copy |-> reader[r].copy]
      <4>1. x \in ReaderType /\ x.at = "idle"
        BY <1>2 DEF ReaderType
      <4>2. /\ reader' = [reader EXCEPT ![r] = x]
            /\ shown' = [shown EXCEPT ![r] = "nothing"]
        <5>1. [reader[r] EXCEPT !.at = "idle"] = x
          BY <1>2
        <5>2. QED
          BY <3>2, <5>1 DEF reader_times_out
      <4> HIDE DEF x
      <4>3. "nothing" \in Shown /\ "nothing" # "torn"
        BY DEF Shown
      <4>4. QED
        BY <4>1, <4>2, <4>3
    <3>3. QED
      BY <1>5, <3>1, <3>2
  <2>3. /\ reader' \in [Reader -> ReaderType] /\ reader'[r] = x
        /\ \A t \in Reader : t # r => reader'[t] = reader[t]
        /\ shown' \in [Reader -> Shown] /\ shown'[r] = y
        /\ \A t \in Reader : t # r => shown'[t] = shown[t]
    BY <2>2, ReaderWrites
  <2>4. TypeOK'
    BY <1>1, <1>3, <2>1, <2>2, <2>3 DEF SInv, TypeOK, ReaderType
  <2>5. Whole'
    BY <1>1, <1>3, <2>1, <2>2, <2>3 DEF SInv, Whole, SnapshotsWhole
  <2>6. WaitsForOne'
    BY <1>1, <2>1 DEF SInv, WaitsForOne, RxWaiting
  <2>7. QED
    BY <1>4, <2>4, <2>5, <2>6 DEF SInv
<1>6. CASE reader_takes(r)
  <2> DEFINE x == [at |-> "copy", age |-> reader[r].age, copy |-> world.begun]
  <2>1. /\ mux = "free" /\ mux' = r /\ held' = 0 /\ shown' = shown /\ ~RxWaiting
        /\ reader' = [reader EXCEPT ![r] = x]
    BY <1>2, <1>6 DEF reader_takes, Take
  <2>2. x \in ReaderType /\ x.at = "copy" /\ x.copy = world.begun
    BY <1>2 DEF ReaderType
  <2> HIDE DEF x
  <2>3. /\ reader' \in [Reader -> ReaderType] /\ reader'[r] = x
        /\ \A t \in Reader : t # r => reader'[t] = reader[t]
    <3>1. shown[r] \in Shown /\ shown' = [shown EXCEPT ![r] = shown[r]]
      BY <1>2, <2>1
    <3>2. QED
      BY <2>1, <2>2, <3>1, ReaderWrites
  <2>4. TypeOK'
    <3>1. \A t \in Reader : mux' = t <=> reader'[t].at = "copy"
      BY <1>3, <2>1, <2>2, <2>3, ReaderAssumption
    <3>2. mux' = "rx" <=> rx'.at \in InMux
      BY <1>1, <1>3, <2>1
    <3>3. QED
      BY <1>1, <2>1, <2>3, <3>1, <3>2 DEF SInv, TypeOK, ReaderType
  <2>5. Whole'
    BY <1>1, <2>1, <2>2, <2>3 DEF SInv, Whole, SnapshotsWhole
  <2>6. WaitsForOne'
    BY <1>1, <2>1 DEF SInv, WaitsForOne, RxWaiting
  <2>7. QED
    BY <1>4, <2>4, <2>5, <2>6 DEF SInv
<1>7. CASE reader_gives(r)
  <2> DEFINE x == [at |-> "idle", age |-> 0, copy |-> FALSE]
             y == IF reader[r].copy = world.done THEN "one moment" ELSE "torn"
  <2>1. /\ mux' = "free" /\ held' = held /\ reader[r].at = "copy"
        /\ reader' = [reader EXCEPT ![r] = x] /\ shown' = [shown EXCEPT ![r] = y]
    BY <1>7 DEF reader_gives, Give
  <2>2. mux = r /\ \A t \in Reader : t # r => reader[t].at # "copy"
    BY <1>3, <2>1
  <2>3. y # "torn" /\ y \in Shown
    BY <1>3, <2>1, <2>2 DEF SInv, Whole, InMux, Shown
  <2>4. x \in ReaderType /\ x.at = "idle"
    BY <1>2 DEF ReaderType
  <2> HIDE DEF x, y
  <2>5. /\ reader' \in [Reader -> ReaderType] /\ reader'[r] = x
        /\ \A t \in Reader : t # r => reader'[t] = reader[t]
        /\ shown' \in [Reader -> Shown] /\ shown'[r] = y
        /\ \A t \in Reader : t # r => shown'[t] = shown[t]
    BY <2>1, <2>3, <2>4, ReaderWrites
  <2>6. TypeOK'
    <3>1. \A t \in Reader : mux' = t <=> reader'[t].at = "copy"
      BY <2>1, <2>2, <2>4, <2>5, ReaderAssumption
    <3>2. mux' = "rx" <=> rx'.at \in InMux
      BY <1>1, <1>3, <2>1, <2>2
    <3>3. QED
      BY <1>1, <2>1, <2>5, <3>1, <3>2 DEF SInv, TypeOK, ReaderType
  <2>7. Whole'
    BY <1>1, <2>2, <2>3, <2>4, <2>5 DEF SInv, Whole, SnapshotsWhole
  <2>8. WaitsForOne'
    BY <1>1, <2>1, ReaderAssumption DEF SInv, WaitsForOne
  <2>9. QED
    BY <1>4, <2>6, <2>7, <2>8 DEF SInv
<1>8. QED
  BY <1>5, <1>6, <1>7 DEF ReaderWorks

\* Time passes: everybody who waits has waited longer, and so has the holder held.
LEMMA ClockStep ==
    ASSUME SInv, Clock
    PROVE  SInv'
<1>1. /\ mux' = mux /\ world' = world /\ shown' = shown /\ lost' = lost /\ hold' = hold
  BY DEF Clock
<1>2. rx \in RxType /\ reader \in [Reader -> ReaderType] /\ maint_age \in 0..INTERVAL
  BY DEF SInv, TypeOK, RxType, ReaderType, Place
<1>3. /\ rx'.at = rx.at /\ rx'.kind = rx.kind
      /\ rx'.age = IF RxWaiting \/ rx.at = "receive" THEN rx.age + 1 ELSE rx.age
      /\ rx' = [at |-> rx'.at, kind |-> rx'.kind, age |-> rx'.age]
  BY <1>2 DEF Clock, RxType
<1>4. rx'.age \in 0..(IF rx'.at = "receive" THEN QUEUE_WAIT ELSE WAIT)
  <2>1. /\ rx.age \in 0..(IF rx.at = "receive" THEN QUEUE_WAIT ELSE WAIT)
        /\ rx.at = "receive" => rx.age < QUEUE_WAIT
        /\ RxWaiting => rx.age < WAIT
        /\ RxWaiting => rx.at # "receive"
    BY <1>2 DEF Clock, RxType, RxWaiting, WantsMux
  <2>2. QED
    BY <1>3, <2>1, TimeAssumption
<1>5. maint_age' \in 0..INTERVAL
  BY <1>2, TimeAssumption DEF Clock, Older
<1>6. /\ reader' \in [Reader -> ReaderType]
      /\ \A r \in Reader : reader'[r].at = reader[r].at /\ reader'[r].copy = reader[r].copy
  <2>1. ASSUME NEW r \in Reader
        PROVE  /\ reader'[r] \in ReaderType
               /\ reader'[r].at = reader[r].at /\ reader'[r].copy = reader[r].copy
    <3>1. reader[r] \in ReaderType
      BY <1>2
    <3>2. Older(reader[r].age, READ_WAIT) \in 0..READ_WAIT
      BY <3>1, TimeAssumption DEF ReaderType, Older
    <3>3. reader'[r] = [reader[r] EXCEPT !.age = IF reader[r].at = "take"
                           THEN Older(reader[r].age, READ_WAIT) ELSE reader[r].age]
      BY <3>1 DEF Clock, ReaderType
    <3>4. QED
      BY <3>1, <3>2, <3>3 DEF ReaderType
  <2>2. DOMAIN reader' = Reader /\ reader' = [r \in Reader |-> reader'[r]]
    BY DEF Clock
  <2>3. QED
    BY <2>1, <2>2
<1>7. TypeOK'
  <2>1. rx' \in [at : Place, kind : Kind,
                 age : 0..(IF rx'.at = "receive" THEN QUEUE_WAIT ELSE WAIT)]
    BY <1>2, <1>3, <1>4 DEF RxType
  <2>2. QED
    BY <1>1, <1>3, <1>5, <1>6, <2>1 DEF SInv, TypeOK, Place, ReaderType
<1>8. Whole'
  BY <1>1, <1>3, <1>6 DEF SInv, Whole, SnapshotsWhole
<1>9. WaitsForOne'
  <2>1. held' = (IF mux \in Reader THEN held + 1 ELSE held) /\ held \in Nat /\ hold \in Nat
    BY DEF Clock, SInv, WaitsForOne
  <2>2. mux \in Reader => held < hold
    BY DEF Clock
  <2>3. rx.age \in Int
    BY <1>2, TimeAssumption DEF RxType
  <2>4. RxWaiting' <=> RxWaiting
    BY <1>3 DEF RxWaiting
  <2>5. QED
    BY <1>1, <1>3, <2>1, <2>2, <2>3, <2>4 DEF SInv, WaitsForOne
<1>10. NoUpdateLost'
  BY <1>1 DEF SInv, NoUpdateLost
<1>11. QED
  BY <1>7, <1>8, <1>9, <1>10 DEF SInv

\* Every step of the sniffer preserves the invariant.
LEMMA NextSInv == SInv /\ [Next]_vars => SInv'
<1> SUFFICES ASSUME SInv, [Next]_vars PROVE SInv'
  OBVIOUS
<1>1. CASE RxWorks \/ Frames
  BY <1>1, RxOutsideSteps, FeedTimesOut, RxTakes, RxGives DEF RxWorks, Frames
<1>2. CASE \E r \in Reader : get_stats(r) \/ ReaderWorks(r)
  BY <1>2, ReaderSteps
<1>3. CASE Clock
  BY <1>3, ClockStep
<1>4. CASE UNCHANGED vars
  BY <1>4 DEF vars, SInv, TypeOK, Whole, SnapshotsWhole, WaitsForOne, NoUpdateLost,
     RxWaiting
<1>5. QED
  BY <1>1, <1>2, <1>3, <1>4 DEF Next

-----------------------------------------------------------------------------
(* Theorems *)

\* The mutex is held exactly by the task between its take and its give, and
\* every variable has its type, for any readers and any time-outs.
THEOREM SnifferTypeCorrect == Spec => []TypeOK
<1>1. SInv => TypeOK
  BY DEF SInv
<1>2. QED
  BY InitSInv, NextSInv, <1>1, PTL DEF Spec

\* No reader of wifi_sniffer_get_stats publishes counts of two moments.
THEOREM SnapshotsAlwaysWhole == Spec => []SnapshotsWhole
<1>1. SInv => SnapshotsWhole
  BY DEF SInv, Whole
<1>2. QED
  BY InitSInv, NextSInv, <1>1, PTL DEF Spec

\* With any number of readers in the queue for the mutex, radio_rx_task waits
\* for one of them at most: it drops nothing while each is quicker than WAIT.
THEOREM NoUpdateEverLost == Spec => []NoUpdateLost
<1>1. SInv => NoUpdateLost
  BY DEF SInv
<1>2. QED
  BY InitSInv, NextSInv, <1>1, PTL DEF Spec
=============================================================================
