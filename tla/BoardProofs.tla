---------------------------- MODULE BoardProofs ----------------------------
(***************************************************************************)
(* Proofs about the two modules of the board: Display, for any tasks,      *)
(* labels, texts, tiles and delays, and after it Boot, for any sets of     *)
(* calls that fail, any number of touch attempts and of power cuts.        *)
(***************************************************************************)
EXTENDS Display, Boot, TLAPS

\* The status of the peripherals is known once a screen is up.
ScreenKnown ==
    screen.kind # "none" => screen.kind \in Shows \ {Phase0} /\ screen.ok \in Ok

DInv == TypeOK /\ ScreenKnown

LEMMA TextTyped ==
    ASSUME NEW k \in Shows, NEW o \in Ok, NEW n \in Counts
    PROVE  [kind |-> k, ok |-> o, n |-> n] \in Text
  BY DEF Text

LEMMA ClampedInside ==
    ASSUME NEW v \in Nat, NEW res \in Nat \ {0}
    PROVE  Clamped(v, res) \in 0..res - 1
  BY DEF Clamped

LEMMA LockNames == "lvgl" \notin Caller /\ "free" \notin Caller
  BY DisplayAssumption

LEMMA DInit == Init => DInv
<1> SUFFICES ASSUME Init PROVE DInv
  OBVIOUS
<1> USE DisplayAssumption DEF Init
<1>1. call \in [Caller -> Showing \cup Updating \cup {Idle}] /\ \A t \in Caller : mux # t
  OBVIOUS
<1>2. screen \in [label : Label \cup {NoLabel}, kind : Kind, ok : Ok \cup {{}}]
  BY DEF Kind
<1>3. label \in [Label -> Text \cup {Unused}]
  OBVIOUS
<1>4. lvgl \in [at : InSection \cup {"sleep", "lock"}, tile : Tile] /\ 1 \in Tile
  BY DEF Tile
<1>5. buffer \in [Buffer -> [tile : Tile, text : Text \cup {Blank}]] /\ active \in Buffer
  BY <1>4 DEF Buffer
<1>6. panel \in [Tile -> [tile : Tile, text : Text \cup {Blank}]]
  OBVIOUS
<1>7. pointer \in [x : 0..HRES - 1, y : 0..VRES - 1, pressed : BOOLEAN]
  OBVIOUS
<1>8. dma \in Seq([buffer : Buffer, tile : Tile])
  OBVIOUS
<1>9. mux = "lvgl" <=> lvgl.at \in InSection
  BY DEF InSection
<1> QED BY <1>1, <1>2, <1>3, <1>4, <1>5, <1>6, <1>7, <1>8, <1>9
        DEF DInv, TypeOK, ScreenKnown

-----------------------------------------------------------------------------
(* The callers *)

LEMMA ShowTyped ==
    ASSUME DInv, NEW t \in Caller, call[t] \in Showing
    PROVE  call[t].kind \in Shows /\ call[t].ok \in Ok
  BY DEF Showing

LEMMA CleanedTyped ==
    ASSUME NEW l, NEW x \in Text, CleanAndCreate(l, x)
    PROVE  label' \in [Label -> Text \cup {Unused}] /\ dirty' = TRUE
  BY DEF CleanAndCreate

LEMMA ReturnsTyped ==
    ASSUME DInv, NEW t \in Caller, Returns(t), mux = t, lvgl' = lvgl
    PROVE  /\ mux' \in Caller \cup {"lvgl", "free"}
           /\ mux' = "lvgl" <=> lvgl'.at \in InSection
           /\ call' \in [Caller -> Showing \cup Updating \cup {Idle}]
           /\ \A u \in Caller : mux' = u => call'[u] # Idle
<1>1. lvgl.at \notin InSection
  BY LockNames DEF DInv, TypeOK
<1> QED BY <1>1, LockNames DEF DInv, TypeOK, Returns

LEMMA CallerKeeps ==
    ASSUME DInv, NEW t \in Caller, calls(t) \/ CallerWorks(t)
    PROVE  DInv'
<1>1. CASE calls(t)
  <2>1. PICK c \in Showing \cup Updating : call' = [call EXCEPT ![t] = c]
    BY <1>1 DEF calls
  <2>2. c # Idle
    BY DEF Showing, Updating, Idle
  <2> QED
    BY <1>1, <2>1, <2>2 DEF calls, DInv, TypeOK, ScreenKnown, callerVars, drawVars
<1>2. CASE board_display_lock(t)
  <2>1. lvgl.at \notin InSection
    BY <1>2, LockNames DEF board_display_lock, DInv, TypeOK
  <2> QED
    BY <1>2, <2>1, LockNames DEF board_display_lock, DInv, TypeOK, ScreenKnown, callerVars, drawVars
<1>3. CASE show_status(t)
  <2>1. PICK l \in Label \cup {NoLabel} :
          /\ CleanAndCreate(l, [kind |-> call[t].kind, ok |-> call[t].ok, n |-> 0])
          /\ screen' = [label |-> l, ok |-> call[t].ok,
                        kind |-> IF l = NoLabel THEN "none" ELSE call[t].kind]
    BY <1>3 DEF show_status
  <2>2. call[t].kind \in Shows /\ call[t].ok \in Ok /\ call[t].kind # Phase0
    BY <1>3, ShowTyped DEF show_status
  <2>3. [kind |-> call[t].kind, ok |-> call[t].ok, n |-> 0] \in Text
    BY <2>2, TextTyped, DisplayAssumption
  <2>4. label' \in [Label -> Text \cup {Unused}] /\ dirty' = TRUE
    BY <2>1, <2>3, CleanedTyped
  <2>5. /\ mux' \in Caller \cup {"lvgl", "free"}
        /\ mux' = "lvgl" <=> lvgl'.at \in InSection
        /\ call' \in [Caller -> Showing \cup Updating \cup {Idle}]
        /\ \A u \in Caller : mux' = u => call'[u] # Idle
    BY <1>3, ReturnsTyped DEF show_status
  <2>6. screen' \in [label : Label \cup {NoLabel}, kind : Kind, ok : Ok \cup {{}}]
    BY <2>1, <2>2 DEF Kind
  <2>7. ScreenKnown'
    BY <2>1, <2>2 DEF ScreenKnown
  <2> QED
    BY <1>3, <2>4, <2>5, <2>6, <2>7 DEF show_status, DInv, TypeOK, drawVars
<1>4. CASE show_phase0_status(t)
  <2>1. PICK l \in Label \cup {NoLabel} :
          CleanAndCreate(l, [kind |-> Phase0, ok |-> call[t].ok, n |-> 0])
    BY <1>4 DEF show_phase0_status
  <2>2. Phase0 \in Shows /\ call[t].ok \in Ok
    BY <1>4, ShowTyped DEF show_phase0_status
  <2>3. [kind |-> Phase0, ok |-> call[t].ok, n |-> 0] \in Text
    BY <2>2, TextTyped, DisplayAssumption
  <2>4. label' \in [Label -> Text \cup {Unused}] /\ dirty' = TRUE
    BY <2>1, <2>3, CleanedTyped
  <2>5. /\ mux' \in Caller \cup {"lvgl", "free"}
        /\ mux' = "lvgl" <=> lvgl'.at \in InSection
        /\ call' \in [Caller -> Showing \cup Updating \cup {Idle}]
        /\ \A u \in Caller : mux' = u => call'[u] # Idle
    BY <1>4, ReturnsTyped DEF show_phase0_status
  <2> QED
    BY <1>4, <2>4, <2>5 DEF show_phase0_status, DInv, TypeOK, ScreenKnown, drawVars
<1>5. CASE update_status(t)
  <2>1. /\ mux' \in Caller \cup {"lvgl", "free"}
        /\ mux' = "lvgl" <=> lvgl'.at \in InSection
        /\ call' \in [Caller -> Showing \cup Updating \cup {Idle}]
        /\ \A u \in Caller : mux' = u => call'[u] # Idle
    BY <1>5, ReturnsTyped DEF update_status
  <2>2. call[t].kind \in Shows \ {Phase0} /\ call[t].n \in Counts
    BY <1>5 DEF update_status, Updating
  <2>3. label' \in [Label -> Text \cup {Unused}] /\ dirty' \in BOOLEAN
    <3>1. CASE Refreshes(call[t].kind)
      <4>1. screen.kind \in Shows /\ screen.ok \in Ok
        BY <2>2, <3>1, DisplayAssumption DEF Refreshes, DInv, ScreenKnown
      <4>2. [kind |-> screen.kind, ok |-> screen.ok, n |-> call[t].n] \in Text
        BY <2>2, <4>1, TextTyped
      <4> QED
        BY <1>5, <3>1, <4>2 DEF update_status, DInv, TypeOK
    <3>2. CASE ~Refreshes(call[t].kind)
      BY <1>5, <3>2 DEF update_status, DInv, TypeOK
    <3> QED BY <3>1, <3>2
  <2> QED
    BY <1>5, <2>1, <2>3 DEF update_status, DInv, TypeOK, ScreenKnown, drawVars
<1> QED BY <1>1, <1>2, <1>3, <1>4, <1>5 DEF CallerWorks

-----------------------------------------------------------------------------
(* lvgl_task and the transfers *)

LEMMA OnScreenTyped ==
    ASSUME DInv PROVE OnScreen \in Text \cup {Blank}
<1>1. CASE Alive = {}
  BY <1>1 DEF OnScreen
<1>2. CASE Alive # {}
  <2>1. (CHOOSE l \in Alive : TRUE) \in Alive
    BY <1>2
  <2> QED BY <1>2, <2>1 DEF OnScreen, Alive, DInv, TypeOK
<1> QED BY <1>1, <1>2

LEMMA LvglKeeps ==
    ASSUME DInv, LvglWorks \/ touch_read \/ display_flush_complete
    PROVE  DInv'
<1> USE DEF DInv
<1>1. CASE wakes
  BY <1>1 DEF wakes, At, TypeOK, ScreenKnown, InSection, callerVars, drawVars
<1>2. CASE lvgl_takes
  BY <1>2, LockNames DEF lvgl_takes, At, TypeOK, ScreenKnown, InSection, callerVars, drawVars
<1>3. CASE touch_read
  <2>1. pointer' \in [x : 0..HRES - 1, y : 0..VRES - 1, pressed : BOOLEAN]
    <3>1. CASE pointer' = [pointer EXCEPT !.pressed = FALSE]
      BY <3>1 DEF TypeOK
    <3>2. CASE \E x, y \in Raw : pointer' =
             [x |-> Clamped(x, HRES), y |-> Clamped(y, VRES), pressed |-> TRUE]
      <4>1. PICK x \in Raw, y \in Raw : pointer' =
             [x |-> Clamped(x, HRES), y |-> Clamped(y, VRES), pressed |-> TRUE]
        BY <3>2
      <4>2. Clamped(x, HRES) \in 0..HRES - 1 /\ Clamped(y, VRES) \in 0..VRES - 1
        BY ClampedInside, DisplayAssumption
      <4> QED BY <4>1, <4>2
    <3> QED BY <1>3, <3>1, <3>2 DEF touch_read
  <2> QED
    BY <1>3, <2>1 DEF touch_read, TypeOK, ScreenKnown, callerVars, drawVars
<1>4. CASE redraw
  <2>1. 1 \in Tile
    BY DisplayAssumption DEF Tile
  <2> QED
    BY <1>4, <2>1 DEF redraw, TypeOK, ScreenKnown, InSection, callerVars, drawVars
<1>5. CASE render
  <2>1. buffer' \in [Buffer -> [tile : Tile, text : Text \cup {Blank}]]
    BY <1>5, OnScreenTyped DEF render, TypeOK
  <2> QED
    BY <1>5, <2>1 DEF render, At, TypeOK, ScreenKnown, InSection, callerVars
<1>6. CASE display_flush
  <2>1. lvgl'.at \in InSection /\ lvgl' \in [at : InSection \cup {"sleep", "lock"}, tile : Tile]
    <3>1. lvgl.tile \in Tile
      BY DEF TypeOK
    <3>2. (lvgl.tile < Tiles => lvgl.tile + 1 \in Tile) /\ 1 \in Tile
      BY <3>1, DisplayAssumption DEF Tile
    <3> QED BY <1>6, <3>1, <3>2 DEF display_flush, NextTile, InSection
  <2>2. mux = "lvgl"
    BY <1>6 DEF display_flush, TypeOK, InSection
  <2>3. dma' \in Seq([buffer : Buffer, tile : Tile]) /\ failed' \in BOOLEAN
    <3> DEFINE Transfer == [buffer : Buffer, tile : Tile]
               sent == [buffer |-> active, tile |-> lvgl.tile]
    <3>1. sent \in Transfer /\ dma \in Seq(Transfer) /\ failed \in BOOLEAN
      BY DEF TypeOK
    <3>2. \/ dma' = Append(dma, sent) /\ failed' = failed
          \/ failed' = TRUE /\ dma' = dma
      BY <1>6 DEF display_flush
    <3> HIDE DEF Transfer, sent
    <3>3. dma' = Append(dma, sent) \/ dma' = dma
      BY <3>2
    <3>4. Append(dma, sent) \in Seq(Transfer)
      BY <3>1
    <3>5. dma' \in Seq(Transfer)
      BY <3>1, <3>3, <3>4
    <3>6. failed' \in BOOLEAN
      BY <3>1, <3>2, Zenon
    <3> QED BY <3>5, <3>6 DEF Transfer
  <2>4. active' \in Buffer
    <3>1. \A b \in Buffer : Other(b) \in Buffer
      BY DEF Other, Buffer
    <3> QED BY <1>6, <3>1 DEF display_flush, TypeOK
  <2> QED
    BY <1>6, <2>1, <2>2, <2>3, <2>4 DEF display_flush, TypeOK, ScreenKnown, callerVars
<1>7. CASE lvgl_gives
  <2>1. PICK d \in Delay : At(IF ClampedDelay(d) = 0 THEN "lock" ELSE "sleep")
    BY <1>7 DEF lvgl_gives
  <2>2. lvgl'.at \notin InSection /\ lvgl' \in [at : InSection \cup {"sleep", "lock"}, tile : Tile]
    BY <2>1 DEF At, TypeOK, InSection
  <2> QED
    BY <1>7, <2>2, LockNames DEF lvgl_gives, TypeOK, ScreenKnown, callerVars, drawVars
<1>8. CASE display_flush_complete
  <2>1. Head(dma) \in [buffer : Buffer, tile : Tile] /\ Tail(dma) \in Seq([buffer : Buffer, tile : Tile])
    <3> DEFINE Transfer == [buffer : Buffer, tile : Tile]
    <3>1. dma \in Seq(Transfer) /\ dma # <<>>
      BY <1>8 DEF display_flush_complete, TypeOK
    <3> HIDE DEF Transfer
    <3>2. Head(dma) \in Transfer /\ Tail(dma) \in Seq(Transfer)
      BY <3>1
    <3> QED BY <3>2 DEF Transfer
  <2>2. panel' \in [Tile -> [tile : Tile, text : Text \cup {Blank}]]
    BY <1>8, <2>1 DEF display_flush_complete, TypeOK
  <2> QED
    BY <1>8, <2>1, <2>2 DEF display_flush_complete, TypeOK, ScreenKnown, callerVars
<1> QED BY <1>1, <1>2, <1>3, <1>4, <1>5, <1>6, <1>7, <1>8 DEF LvglWorks

LEMMA DNext == DInv /\ [Next]_vars => DInv'
<1>1. ASSUME DInv, UNCHANGED vars PROVE DInv'
  BY <1>1 DEF DInv, TypeOK, ScreenKnown, vars, callerVars, drawVars
<1> QED BY <1>1, CallerKeeps, LvglKeeps DEF Next

LEMMA DisplayInvariant == Spec => []DInv
  BY DInit, DNext, PTL DEF Spec

\* Every variable has its type, the mutex is lvgl_task's exactly while it is
\* inside lv_timer_handler, and a touched point is on the screen.
THEOREM TypeCorrect == Spec => []TypeOK
  BY DisplayInvariant, PTL DEF DInv

-----------------------------------------------------------------------------
(* The status label *)

\* A call of the Phase 0 screen is under way only while no status screen is
\* up, and beside no other call.
Phase0First ==
    \A t \in Caller : call[t] # Idle /\ call[t].kind = Phase0 =>
        /\ screen.label = NoLabel
        /\ \A u \in Caller : call[u] # Idle => call[u].kind = Phase0

LEMMA Phase0Step ==
    ASSUME DInv, Phase0First, [Next]_vars PROVE Phase0First'
<1>1. CASE UNCHANGED <<call, screen>>
  BY <1>1 DEF Phase0First
<1>2. ASSUME NEW t \in Caller, calls(t) PROVE Phase0First'
  <2>1. PICK c \in Showing \cup Updating : InOrder(c) /\ call' = [call EXCEPT ![t] = c]
    BY <1>2 DEF calls
  <2>2. /\ \A u \in Caller : call'[u] = IF u = t THEN c ELSE call[u]
        /\ screen' = screen
    BY <1>2, <2>1 DEF calls, callerVars, DInv, TypeOK
  <2>3. CASE c.kind = Phase0
    BY <2>1, <2>2, <2>3 DEF Phase0First, InOrder
  <2>4. CASE c.kind # Phase0
    BY <2>1, <2>2, <2>4 DEF Phase0First, InOrder
  <2> QED BY <2>3, <2>4
<1>3. ASSUME NEW t \in Caller, call' = [call EXCEPT ![t] = Idle], screen' = screen
      PROVE  Phase0First'
  <2>1. \A u \in Caller : call'[u] # Idle => call'[u] = call[u]
    BY <1>3 DEF DInv, TypeOK
  <2> QED BY <1>3, <2>1 DEF Phase0First
<1>4. ASSUME NEW t \in Caller, show_status(t) PROVE Phase0First'
  <2>1. call[t] # Idle /\ call[t].kind # Phase0 /\ call' = [call EXCEPT ![t] = Idle]
    BY <1>4 DEF show_status, Returns, Showing, Idle
  <2>2. \A u \in Caller : call'[u] # Idle => call'[u] = call[u]
    BY <2>1 DEF DInv, TypeOK
  <2> QED BY <2>1, <2>2 DEF Phase0First
<1>5. ASSUME NEW t \in Caller, show_phase0_status(t) \/ update_status(t) PROVE Phase0First'
  BY <1>3, <1>5 DEF show_phase0_status, update_status, Returns
<1>6. ASSUME NEW t \in Caller, board_display_lock(t) PROVE Phase0First'
  BY <1>1, <1>6 DEF board_display_lock, callerVars
<1>7. ASSUME LvglWorks \/ touch_read \/ display_flush_complete \/ UNCHANGED vars
      PROVE  Phase0First'
  BY <1>1, <1>7 DEF LvglWorks, wakes, lvgl_takes, touch_read, redraw, render, display_flush,
     lvgl_gives, display_flush_complete, vars, callerVars
<1> QED BY <1>2, <1>4, <1>5, <1>6, <1>7 DEF Next, CallerWorks

LEMMA LabelStep ==
    ASSUME DInv, Phase0First, StatusLabelAlive, [Next]_vars
    PROVE  StatusLabelAlive'
<1>1. CASE UNCHANGED <<screen, label>>
  BY <1>1 DEF StatusLabelAlive
<1>2. ASSUME NEW t \in Caller, show_status(t) PROVE StatusLabelAlive'
  <2>1. PICK l \in Label \cup {NoLabel} :
          /\ CleanAndCreate(l, [kind |-> call[t].kind, ok |-> call[t].ok, n |-> 0])
          /\ screen' = [label |-> l, ok |-> call[t].ok,
                        kind |-> IF l = NoLabel THEN "none" ELSE call[t].kind]
    BY <1>2 DEF show_status
  <2>2. call[t].kind # "none"
    BY <1>2, ShowTyped, DisplayAssumption DEF show_status
  <2>3. l # NoLabel => label'[l].kind = call[t].kind
    BY <2>1 DEF CleanAndCreate
  <2> QED BY <2>1, <2>2, <2>3 DEF StatusLabelAlive
<1>3. ASSUME NEW t \in Caller, show_phase0_status(t) PROVE StatusLabelAlive'
  <2>1. screen.label = NoLabel
    BY <1>3 DEF show_phase0_status, Phase0First, Showing, Idle
  <2> QED BY <1>3, <2>1 DEF show_phase0_status, StatusLabelAlive
<1>4. ASSUME NEW t \in Caller, update_status(t) PROVE StatusLabelAlive'
  <2>1. CASE Refreshes(call[t].kind)
    <3>1. screen.label \in Label
      BY <2>1 DEF Refreshes, DInv, TypeOK
    <3>2. label'[screen.label].kind = screen.kind /\ screen' = screen
      BY <1>4, <2>1, <3>1 DEF update_status, DInv, TypeOK
    <3> QED BY <3>2 DEF StatusLabelAlive
  <2>2. CASE ~Refreshes(call[t].kind)
    BY <1>1, <1>4, <2>2 DEF update_status
  <2> QED BY <2>1, <2>2
<1>5. ASSUME NEW t \in Caller, calls(t) \/ board_display_lock(t) PROVE StatusLabelAlive'
  BY <1>1, <1>5 DEF calls, board_display_lock, callerVars
<1>6. ASSUME LvglWorks \/ touch_read \/ display_flush_complete \/ UNCHANGED vars
      PROVE  StatusLabelAlive'
  BY <1>1, <1>6 DEF LvglWorks, wakes, lvgl_takes, touch_read, redraw, render, display_flush,
     lvgl_gives, display_flush_complete, vars, callerVars
<1> QED BY <1>2, <1>3, <1>4, <1>5, <1>6 DEF Next, CallerWorks

\* Whatever the callers show and update, s_status_label always points to a
\* live label of the screen s_screen_kind names, or is NULL: no update writes
\* through a label that lv_obj_clean has destroyed, provided the Phase 0
\* screen, which keeps no pointer, comes before the status screens (InOrder).
THEOREM LabelNeverDangles == Spec => []StatusLabelAlive
<1>1. Init => Phase0First /\ StatusLabelAlive
  BY DEF Init, Phase0First, StatusLabelAlive
<1>2. DInv /\ Phase0First /\ [Next]_vars => Phase0First'
  BY Phase0Step
<1>3. DInv /\ Phase0First /\ StatusLabelAlive /\ [Next]_vars => StatusLabelAlive'
  BY LabelStep
<1> QED BY <1>1, <1>2, <1>3, DisplayInvariant, PTL DEF Spec

-----------------------------------------------------------------------------
(* The tiles *)

\* The transfer under way, if any, is the only one, sends the buffer LVGL does
\* not render into, and only while LVGL knows it to be away.
OneTransfer ==
    /\ dma = <<>> \/ \E b \in Buffer, i \in Tile :
                        dma = <<[buffer |-> b, tile |-> i]>>
    /\ dma # <<>> => /\ flushing
                     /\ dma[1].buffer # active
                     /\ buffer[dma[1].buffer].tile = dma[1].tile

\* What LVGL is about to hand over is the tile it is at.
RenderedTile == lvgl.at = "flush" => buffer[active].tile = lvgl.tile

TileInv == OneTransfer /\ RenderedTile /\ TilesInPlace /\ WaitsForTransfer

LEMMA TileStep ==
    ASSUME DInv, TileInv, [Next]_vars PROVE TileInv'
<1> USE DEF TileInv
<1>1. CASE UNCHANGED <<dma, flushing, active, buffer, panel, failed, lvgl>>
  BY <1>1 DEF OneTransfer, RenderedTile, TilesInPlace, WaitsForTransfer
<1>2. CASE UNCHANGED <<dma, flushing, active, buffer, panel, failed>> /\ lvgl'.at # "flush"
  BY <1>2 DEF OneTransfer, RenderedTile, TilesInPlace, WaitsForTransfer
<1>3. CASE render
  <2>1. buffer' = [buffer EXCEPT ![active] = [tile |-> lvgl.tile, text |-> OnScreen]]
    BY <1>3 DEF render
  <2>2. active \in Buffer /\ buffer \in [Buffer -> [tile : Tile, text : Text \cup {Blank}]]
    BY DEF DInv, TypeOK
  <2>3. buffer'[active].tile = lvgl.tile
    BY <2>1, <2>2
  <2>4. \A b \in Buffer : b # active => buffer'[b] = buffer[b]
    BY <2>1, <2>2
  <2>5. UNCHANGED <<dma, flushing, active, panel, failed>> /\ lvgl'.tile = lvgl.tile
    BY <1>3 DEF render, At, DInv, TypeOK
  <2>6. dma # <<>> => dma[1].buffer \in Buffer
    BY DEF OneTransfer
  <2> QED
    BY <2>3, <2>4, <2>5, <2>6 DEF OneTransfer, RenderedTile, TilesInPlace, WaitsForTransfer
<1>4. CASE display_flush
  <2>1. dma = <<>> /\ flushing' = TRUE /\ buffer' = buffer /\ panel' = panel
    BY <1>4 DEF display_flush, OneTransfer
  <2>2. active \in Buffer /\ lvgl.tile \in Tile
    BY DEF DInv, TypeOK
  <2>3. active' # active
    BY <1>4, <2>2 DEF display_flush, Other, Buffer
  <2>4. buffer[active].tile = lvgl.tile
    BY <1>4 DEF display_flush, RenderedTile
  <2>5. lvgl'.at # "flush"
    BY <1>4 DEF display_flush, NextTile
  <2>6. CASE dma' = Append(dma, [buffer |-> active, tile |-> lvgl.tile])
    <3>1. dma' = <<[buffer |-> active, tile |-> lvgl.tile]>>
      BY <2>1, <2>6
    <3>2. dma' # <<>> /\ dma'[1] = [buffer |-> active, tile |-> lvgl.tile]
      BY <3>1
    <3>3. OneTransfer'
      BY <2>1, <2>2, <2>3, <2>4, <3>1, <3>2 DEF OneTransfer
    <3> QED
      BY <2>1, <2>5, <3>2, <3>3 DEF RenderedTile, TilesInPlace, WaitsForTransfer
  <2>7. CASE dma' = dma /\ failed' = TRUE
    BY <2>1, <2>5, <2>7 DEF OneTransfer, RenderedTile, TilesInPlace, WaitsForTransfer
  <2> QED BY <1>4, <2>6, <2>7 DEF display_flush
<1>5. CASE display_flush_complete
  <2>1. PICK b \in Buffer, i \in Tile : dma = <<[buffer |-> b, tile |-> i]>>
    BY <1>5 DEF display_flush_complete, OneTransfer
  <2>2. Head(dma) = [buffer |-> b, tile |-> i] /\ Tail(dma) = <<>> /\ dma[1] = Head(dma)
    BY <2>1
  <2>3. buffer[b].tile = i
    BY <2>1, <2>2 DEF OneTransfer
  <2>4. /\ panel' = [panel EXCEPT ![i] = buffer[b]] /\ dma' = <<>> /\ ~flushing'
        /\ UNCHANGED <<buffer, active, lvgl>>
    <3>1. panel' = [panel EXCEPT ![Head(dma).tile] = buffer[Head(dma).buffer]]
      BY <1>5 DEF display_flush_complete
    <3>2. dma' = Tail(dma) /\ ~flushing' /\ UNCHANGED <<buffer, active, lvgl>>
      BY <1>5 DEF display_flush_complete
    <3>3. Head(dma).tile = i /\ Head(dma).buffer = b
      BY <2>2
    <3>4. panel' = [panel EXCEPT ![i] = buffer[b]]
      BY <3>1, <3>3, Zenon
    <3> QED BY <2>2, <3>2, <3>4
  <2>5. TilesInPlace'
    BY <2>3, <2>4 DEF TilesInPlace, DInv, TypeOK
  <2> QED
    BY <2>4, <2>5 DEF OneTransfer, RenderedTile, WaitsForTransfer
<1>6. ASSUME NEW t \in Caller, calls(t) \/ CallerWorks(t) PROVE TileInv'
  BY <1>1, <1>6 DEF calls, CallerWorks, board_display_lock, show_status, show_phase0_status,
     update_status, drawVars
<1>7. CASE wakes
  BY <1>2, <1>7 DEF wakes, At, drawVars, DInv, TypeOK
<1>8. CASE lvgl_takes
  BY <1>2, <1>8 DEF lvgl_takes, At, drawVars, DInv, TypeOK
<1>9. CASE redraw
  BY <1>2, <1>9 DEF redraw, drawVars
<1>10. CASE lvgl_gives
  BY <1>2, <1>10 DEF lvgl_gives, At, drawVars, DInv, TypeOK
<1>11. CASE touch_read \/ UNCHANGED vars
  BY <1>1, <1>11 DEF touch_read, vars, drawVars
<1> QED BY <1>3, <1>4, <1>5, <1>6, <1>7, <1>8, <1>9, <1>10, <1>11 DEF Next, LvglWorks

LEMMA TileInit == Init => TileInv
<1> SUFFICES ASSUME Init PROVE TileInv
  OBVIOUS
<1> QED BY DEF Init, TileInv, OneTransfer, RenderedTile, TilesInPlace, WaitsForTransfer

LEMMA TileInvariant == Spec => [](DInv /\ TileInv)
<1>1. DInv /\ TileInv /\ [Next]_vars => TileInv'
  BY TileStep
<1> QED BY <1>1, TileInit, DInit, DNext, PTL DEF Spec

\* However the transfers and the rendering interleave, and however many tiles
\* a screen has, no pixels land at another tile's place: display_flush_complete
\* gives a buffer back only when it has been sent.
THEOREM NoTileMisplaced == Spec => []TilesInPlace
  BY TileInvariant, PTL DEF TileInv

\* LVGL never waits for a transfer that is not under way, unless a draw failed.
THEOREM NoLostFlush == Spec => []WaitsForTransfer
  BY TileInvariant, PTL DEF TileInv

-----------------------------------------------------------------------------
(* The picture *)

\* The tile shows the present text, or will when the transfer under way ends.
Current(i) == IF dma # <<>> /\ dma[1].tile = i
              THEN buffer[dma[1].buffer].text = OnScreen
              ELSE panel[i].text = OnScreen

\* In a redraw, the tiles handed over so far; otherwise all of them.
Drawn(i) == lvgl.at \in {"render", "flush"} => i < lvgl.tile

PictureInv ==
    /\ lvgl.at \in {"render", "flush", "unlock"} => ~dirty
    /\ ~failed /\ lvgl.at = "flush" => buffer[active].text = OnScreen
    /\ ~failed /\ ~dirty => \A i \in Tile : Drawn(i) => Current(i)

LEMMA SameLabels == label' = label => OnScreen' = OnScreen
  BY DEF OnScreen, Alive

LEMMA PictureStep ==
    ASSUME DInv, TileInv, PictureInv, [Next]_vars PROVE PictureInv'
<1> USE DEF PictureInv
<1>1. CASE UNCHANGED <<dma, buffer, active, panel, failed, lvgl, dirty, label>>
  BY <1>1, SameLabels DEF Drawn, Current
<1>2. CASE /\ UNCHANGED <<dma, buffer, active, panel, failed, dirty, label>>
           /\ lvgl.at \notin {"render", "flush"} /\ lvgl'.at \notin {"render", "flush", "unlock"}
  BY <1>2, SameLabels DEF Drawn, Current
<1>3. CASE render
  <2>1. /\ buffer' = [buffer EXCEPT ![active] = [tile |-> lvgl.tile, text |-> OnScreen]]
        /\ UNCHANGED <<dma, active, panel, failed, dirty, label>>
        /\ lvgl.at = "render"
    BY <1>3 DEF render, callerVars
  <2>2. lvgl'.at = "flush" /\ lvgl'.tile = lvgl.tile
    BY <1>3 DEF render, At, DInv, TypeOK
  <2>3. OnScreen' = OnScreen
    BY <2>1, SameLabels
  <2>4. buffer'[active].text = OnScreen /\ \A b \in Buffer : b # active => buffer'[b] = buffer[b]
    BY <2>1 DEF DInv, TypeOK
  <2>5. dma # <<>> => dma[1].buffer \in Buffer /\ dma[1].buffer # active
    BY DEF TileInv, OneTransfer
  <2>6. \A i \in Tile : Current(i) => Current(i)'
    BY <2>1, <2>3, <2>4, <2>5 DEF Current
  <2>7. \A i \in Tile : Drawn(i)' => Drawn(i)
    BY <2>1, <2>2 DEF Drawn
  <2> QED
    BY <2>1, <2>2, <2>3, <2>4, <2>6, <2>7
<1>4. CASE display_flush
  <2>1. dma = <<>> /\ buffer' = buffer /\ panel' = panel /\ label' = label /\ dirty' = dirty
    BY <1>4 DEF display_flush, TileInv, OneTransfer, callerVars
  <2>2. OnScreen' = OnScreen
    BY <2>1, SameLabels
  <2>3. lvgl'.at \in {"render", "unlock"}
    BY <1>4 DEF display_flush, NextTile
  <2>4. ~dirty
    BY <1>4 DEF display_flush
  <2>5. CASE /\ dma' = Append(dma, [buffer |-> active, tile |-> lvgl.tile])
             /\ UNCHANGED failed
    <3>1. dma' = <<[buffer |-> active, tile |-> lvgl.tile]>>
      BY <2>1, <2>5
    <3>2. dma' # <<>> /\ dma'[1].buffer = active /\ dma'[1].tile = lvgl.tile
      BY <3>1
    <3>0. PICK k \in Tile : k = lvgl.tile
      BY DEF DInv, TypeOK
    <3>3. ASSUME ~failed PROVE Current(k)'
      <4>1. buffer[active].text = OnScreen
        BY <1>4, <3>3 DEF display_flush
      <4> QED BY <2>1, <2>2, <3>0, <3>2, <4>1 DEF Current
    <3>4. ASSUME NEW i \in Tile, i # lvgl.tile, Current(i) PROVE Current(i)'
      BY <2>1, <2>2, <3>2, <3>4 DEF Current
    <3>5. ASSUME NEW i \in Tile, Drawn(i)', i # lvgl.tile PROVE Drawn(i)
      <4>1. lvgl.tile \in Tile /\ i \in Nat
        BY DEF DInv, TypeOK, Tile
      <4>2. CASE lvgl.tile < Tiles
        <5>1. lvgl'.at = "render" /\ lvgl'.tile = lvgl.tile + 1
          BY <1>4, <4>2 DEF display_flush, NextTile
        <5> QED BY <3>5, <4>1, <5>1 DEF Drawn, Tile
      <4>3. CASE ~(lvgl.tile < Tiles)
        BY <3>5, <4>1, <4>3, DisplayAssumption DEF Drawn, Tile
      <4> QED BY <4>2, <4>3
    <3>6. ASSUME ~failed, NEW i \in Tile, Drawn(i)' PROVE Current(i)'
      <4>1. CASE i = k
        BY <3>3, <3>6, <4>1
      <4>2. CASE i # k
        BY <2>4, <3>0, <3>4, <3>5, <3>6, <4>2
      <4> QED BY <4>1, <4>2
    <3> QED BY <2>3, <2>1, <2>4, <2>5, <3>6
  <2>6. CASE failed' = TRUE
    BY <2>1, <2>3, <2>4, <2>6
  <2> QED BY <1>4, <2>5, <2>6 DEF display_flush
<1>5. CASE display_flush_complete
  <2>1. PICK b \in Buffer, i \in Tile : dma = <<[buffer |-> b, tile |-> i]>>
    BY <1>5 DEF display_flush_complete, TileInv, OneTransfer
  <2>2. /\ Head(dma) = [buffer |-> b, tile |-> i] /\ Tail(dma) = <<>> /\ dma # <<>>
        /\ dma[1].buffer = b /\ dma[1].tile = i
    BY <2>1
  <2>3. /\ panel' = [panel EXCEPT ![i] = buffer[b]] /\ dma' = <<>>
        /\ UNCHANGED <<buffer, active, lvgl, label, dirty, failed>>
    <3>1. panel' = [panel EXCEPT ![Head(dma).tile] = buffer[Head(dma).buffer]]
      BY <1>5 DEF display_flush_complete
    <3>2. dma' = Tail(dma) /\ UNCHANGED <<buffer, active, lvgl, label, dirty, failed>>
      BY <1>5 DEF display_flush_complete, callerVars
    <3>3. Head(dma).tile = i /\ Head(dma).buffer = b
      BY <2>2
    <3>4. panel' = [panel EXCEPT ![i] = buffer[b]]
      BY <3>1, <3>3, Zenon
    <3> QED BY <2>2, <3>2, <3>4
  <2>4. OnScreen' = OnScreen
    BY <2>3, SameLabels
  <2>5. ASSUME NEW k \in Tile, Current(k) PROVE Current(k)'
    BY <2>2, <2>3, <2>4, <2>5 DEF Current, DInv, TypeOK
  <2>6. \A k \in Tile : Drawn(k)' <=> Drawn(k)
    BY <2>3 DEF Drawn
  <2> QED BY <2>3, <2>4, <2>5, <2>6
<1>6. ASSUME NEW t \in Caller, show_status(t) \/ show_phase0_status(t) \/ update_status(t)
      PROVE  PictureInv'
  <2>1. lvgl.at \notin InSection /\ lvgl' = lvgl
    BY <1>6, LockNames DEF show_status, show_phase0_status, update_status, DInv, TypeOK
  <2>2. dirty' = TRUE \/ UNCHANGED <<dma, buffer, active, panel, failed, lvgl, dirty, label>>
    BY <1>6 DEF show_status, show_phase0_status, update_status, CleanAndCreate, drawVars
  <2> QED BY <1>1, <2>1, <2>2 DEF InSection
<1>7. ASSUME NEW t \in Caller, calls(t) \/ board_display_lock(t) PROVE PictureInv'
  BY <1>1, <1>7 DEF calls, board_display_lock, callerVars, drawVars
<1>8. CASE wakes
  BY <1>2, <1>8 DEF wakes, At, callerVars, drawVars, DInv, TypeOK
<1>9. CASE lvgl_takes
  BY <1>2, <1>9 DEF lvgl_takes, At, callerVars, drawVars, DInv, TypeOK
<1>10. CASE redraw
  <2>1. /\ lvgl'.at = "render" /\ lvgl'.tile = 1 /\ ~dirty'
    BY <1>10 DEF redraw
  <2>2. \A i \in Tile : ~Drawn(i)'
    BY <2>1, DisplayAssumption DEF Drawn, Tile
  <2> QED BY <2>1, <2>2
<1>11. CASE lvgl_gives
  BY <1>2, <1>11 DEF lvgl_gives, At, callerVars, drawVars, DInv, TypeOK
<1>12. CASE touch_read \/ UNCHANGED vars
  BY <1>1, <1>12 DEF touch_read, vars, callerVars, drawVars
<1> QED BY <1>3, <1>4, <1>5, <1>6, <1>7, <1>8, <1>9, <1>10, <1>11, <1>12
        DEF Next, LvglWorks, CallerWorks

\* Whatever the callers do between two redraws, the panel shows the label as
\* it is once nothing is left to draw or send: no tile keeps an older text and
\* no redraw mixes two texts, because the mutex is held across the whole
\* redraw (lvgl_task).
THEOREM PictureIsWhole == Spec => []PanelShowsScreen
<1>1. Init => PictureInv
  <2> SUFFICES ASSUME Init PROVE PictureInv
    OBVIOUS
  <2> QED BY DEF Init, PictureInv
<1>2. DInv /\ TileInv /\ PictureInv /\ [Next]_vars => PictureInv'
  BY PictureStep
<1>3. DInv /\ TileInv /\ PictureInv => PanelShowsScreen
  <2> SUFFICES ASSUME DInv, PictureInv, mux # "lvgl", ~dirty, dma = <<>>, ~failed, NEW i \in Tile
               PROVE  panel[i].text = OnScreen
    BY DEF PanelShowsScreen
  <2>1. Drawn(i)
    BY DEF DInv, TypeOK, InSection, Drawn
  <2> QED BY <2>1 DEF PictureInv, Current
<1> QED BY <1>1, <1>2, <1>3, TileInvariant, PTL DEF Spec

-----------------------------------------------------------------------------
(* Boot.  The calls of each function *)

USE DEF board_backlight_init, board_i2c_init, board_touch_init, board_display_init,
        board_sd_init, board_sd_self_test, wifi_sniffer_init, wifi_sniffer_start,
        channel_hopper_start

\* How many calls a function makes.
Count(f) ==
    CASE f \in {"touch_init", "show_status", "set_percent", "ui_task"} -> 1
      [] f \in {"backlight_init", "i2c_init", "sd_init", "hopper_start"} -> 2
      [] f = "sd_self_test" -> 5
      [] f = "wifi_start"   -> 6
      [] f = "display_init" -> 11
      [] f = "wifi_init"    -> 12

LEMMA StepsCounted ==
    ASSUME NEW f \in Functions
    PROVE  /\ Len(Steps(f)) = Count(f) /\ DOMAIN Steps(f) = 1..Count(f)
           /\ Count(f) \in Nat \ {0}
<1>1. CASE f = "backlight_init"
  BY <1>1 DEF Steps, Count
<1>2. CASE f = "i2c_init"
  BY <1>2 DEF Steps, Count
<1>3. CASE f = "touch_init"
  BY <1>3 DEF Steps, Count
<1>4. CASE f = "display_init"
  BY <1>4 DEF Steps, Count
<1>5. CASE f = "sd_init"
  BY <1>5 DEF Steps, Count
<1>6. CASE f = "sd_self_test"
  BY <1>6 DEF Steps, Count
<1>7. CASE f = "wifi_init"
  BY <1>7 DEF Steps, Count
<1>8. CASE f = "wifi_start"
  BY <1>8 DEF Steps, Count
<1>9. CASE f = "hopper_start"
  BY <1>9 DEF Steps, Count
<1>10. CASE f = "show_status"
  BY <1>10 DEF Steps, Count
<1>11. CASE f = "set_percent"
  BY <1>11 DEF Steps, Count
<1>12. CASE f = "ui_task"
  BY <1>12 DEF Steps, Count
<1> QED BY <1>1, <1>2, <1>3, <1>4, <1>5, <1>6, <1>7, <1>8, <1>9, <1>10, <1>11, <1>12 DEF Functions

\* Where the calls are made that something depends on.
LEMMA Places ==
    ASSUME NEW f \in Functions, NEW i \in DOMAIN Steps(f)
    PROVE  LET c == Steps(f)[i]
           IN  /\ c = "touch" => f = "touch_init"
               /\ c = "lvgl_driver" <=> f = "display_init" /\ i = 7
               /\ c = "lvgl_task" => f = "display_init" /\ i = 11
               /\ c = "radio_rx_task" => f = "wifi_init" /\ i = 11
               /\ c = "radio_stats_task" => f = "wifi_init" /\ i = 12
               /\ c = "promiscuous" => f = "wifi_start" /\ i = 5
               /\ c = "channel" => f = "wifi_start" /\ i = 6
               /\ c = "hopper_task" => f = "hopper_start" /\ i = 2
               /\ c = "phase1_ui_task" => f = "ui_task"
               /\ c = "nvs_init" => f = "wifi_init"
               /\ c = "ctrl_filter" => f = "wifi_start" /\ i = 4
               /\ c = "sd_create" => f = "sd_self_test" /\ i = 1
               /\ c = "sd_write" => f = "sd_self_test" /\ i = 2
               /\ c = "sd_read" => f = "sd_self_test" /\ i = 4
               /\ c = "sd_verify" <=> f = "sd_self_test" /\ i = 5
               /\ c # "touch_driver"
<1>0. i \in 1..Count(f)
  BY StepsCounted
<1>1. CASE f \in {"touch_init", "show_status", "set_percent", "ui_task"}
  BY <1>0, <1>1 DEF Steps, Count
<1>2. CASE f \in {"backlight_init", "i2c_init", "sd_init", "hopper_start"}
  BY <1>0, <1>2 DEF Steps, Count
<1>3. CASE f = "sd_self_test"
  BY <1>0, <1>3 DEF Steps, Count
<1>4. CASE f = "wifi_start"
  BY <1>0, <1>4 DEF Steps, Count
<1>5. CASE f = "display_init"
  BY <1>0, <1>5 DEF Steps, Count
<1>6. CASE f = "wifi_init"
  BY <1>0, <1>6 DEF Steps, Count
<1> QED BY <1>1, <1>2, <1>3, <1>4, <1>5, <1>6 DEF Functions
-----------------------------------------------------------------------------
(* The inductive invariant *)

BeforeDisplay == {"backlight_init", "i2c_init", "touch_init"}
BeforeSd      == BeforeDisplay \cup {"display_init", "sd_init"}
BeforeWifi    == BeforeSd \cup {"sd_self_test", "wifi_init"}
PastDisplay   == {"sd_init", "sd_self_test", "wifi_init", "wifi_start", "hopper_start",
                  "show_status", "set_percent", "ui_task", "done"}
PastWifi      == {"hopper_start", "show_status", "set_percent", "ui_task", "done"}
PastStatus    == {"set_percent", "ui_task", "done"}

\* Calls that may have left nothing behind them when app_main goes on.
Loose == Tolerated \cup {"sd_create", "sd_write", "sd_read", "sd_verify"}

WifiParts == {"queues", "world_mux", "world", "pool", "radio_rx_task"}

\* Within a function everything before the step it is at has been done.
Behind ==
    at.fn # "done" => \A i \in 1..at.step - 1 : Steps(at.fn)[i] \in up \cup Loose

\* What the functions before have left for the one app_main is in.
Left ==
    /\ at.fn = "touch_init" \/ "touch" \in up => "i2c_driver" \in up
    /\ at.fn \in PastDisplay => {"lvgl_driver", "lvgl_mux"} \subseteq up
    /\ at.fn \in BeforeDisplay => "lvgl_driver" \notin up
    /\ at.fn = "wifi_start" => WifiParts \subseteq up
    /\ "wifi" \in ok =>
         /\ at.fn \in PastWifi
         /\ WifiParts \cup {"wifi_started", "promiscuous", "channel"} \subseteq up
    /\ at.fn \in {"hopper_start", "ui_task"} => "wifi" \in ok
    /\ at.fn \in PastStatus => "status_label" \in up

\* What the results mean.
Meant ==
    /\ "touch" \in ok <=> "touch" \in up
    /\ "touch_driver" \in up <=> {"touch", "lvgl_driver"} \subseteq up
    /\ at.fn = "sd_self_test" => "sd_mount" \in up
    /\ at.fn = "sd_self_test" /\ at.step # 1 => file # "none"
    /\ at.fn = "sd_self_test" /\ at.step = 5 => actual = file
    /\ "sd" \in ok => at.fn \notin BeforeSd \cup {"sd_self_test"}
                      /\ "sd_mount" \in up /\ file = "expected"
    /\ "promiscuous" \in up =>
         /\ at = [fn |-> "wifi_start", step |-> 6] \/ at.fn \in PastWifi
         /\ at.fn \in PastWifi => "wifi" \in ok \/ "channel" \in faults
    /\ {"hopper_task", "phase1_ui_task"} \cap up # {} => "wifi" \in ok
    /\ shown = IF at.fn \in PastStatus THEN Screen(ok) ELSE Nothing

BInv ==
    /\ UsersFindTheirParts
    /\ at = [fn |-> at.fn, step |-> at.step]
    /\ Behind /\ Left /\ Meant

-----------------------------------------------------------------------------
(* What a step does *)

\* app_main goes on after a call that did what it should or is not needed.
Proceeds ==
    /\ Running /\ Advance
    /\ \/ up' = up \cup Gains(Now)
       \/ up' = up /\ Now \in Loose
    /\ at.fn # "sd_self_test" => file' = file
    /\ at.fn = "sd_self_test" =>
         \/ file' # "none"
         \/ file' = file /\ at.step # 1
    /\ at.fn = "sd_self_test" /\ at.step = 4 => actual' = file'
    /\ at.fn = "sd_self_test" /\ at.step = 5 => actual = "expected" /\ file' = file

\* It leaves a function without which it can go on.
Leaves ==
    /\ Running /\ at.fn \notin Fatal
    /\ at' = [fn |-> AfterFailure(at.fn), step |-> 1]
    /\ UNCHANGED <<up, ok, shown>>
    /\ at.fn = "wifi_start" => Now \in faults
    /\ at.fn # "sd_self_test" => file' = file

Stays == UNCHANGED <<at, up, ok, shown, actual, file>>

LEMMA NowPlaced ==
    ASSUME BootTypeOK, Running
    PROVE  /\ at.fn \in Functions /\ at.step \in 1..Count(at.fn)
           /\ Now \in Calls /\ at.step \in DOMAIN Steps(at.fn)
<1>1. at.fn \in Functions /\ at.step \in DOMAIN Steps(at.fn)
  BY DEF BootTypeOK, Running
<1> QED BY <1>1, StepsCounted DEF Calls, Now

\* The places of the calls, said of the call app_main is at.
LEMMA NowAt ==
    ASSUME BootTypeOK, Running
    PROVE  /\ Now = "touch" => at.fn = "touch_init"
           /\ Now = "lvgl_driver" <=> at.fn = "display_init" /\ at.step = 7
           /\ Now = "lvgl_task" => at.fn = "display_init" /\ at.step = 11
           /\ Now = "radio_rx_task" => at.fn = "wifi_init" /\ at.step = 11
           /\ Now = "radio_stats_task" => at.fn = "wifi_init" /\ at.step = 12
           /\ Now = "promiscuous" => at.fn = "wifi_start" /\ at.step = 5
           /\ Now = "channel" => at.fn = "wifi_start" /\ at.step = 6
           /\ Now = "hopper_task" => at.fn = "hopper_start" /\ at.step = 2
           /\ Now = "phase1_ui_task" => at.fn = "ui_task"
           /\ Now = "nvs_init" => at.fn = "wifi_init"
           /\ Now = "ctrl_filter" => at.fn = "wifi_start" /\ at.step = 4
           /\ Now = "sd_create" => at.fn = "sd_self_test" /\ at.step = 1
           /\ Now = "sd_write" => at.fn = "sd_self_test" /\ at.step = 2
           /\ Now = "sd_read" => at.fn = "sd_self_test" /\ at.step = 4
           /\ Now = "sd_verify" <=> at.fn = "sd_self_test" /\ at.step = 5
           /\ Now # "touch_driver"
<1>1. at.fn \in Functions /\ at.step \in DOMAIN Steps(at.fn)
  BY NowPlaced
<1> QED BY <1>1, Places DEF Now

\* Every step of the system is one of these.
LEMMA StepsKnown ==
    ASSUME BInv, BootNext
    PROVE  /\ faults' = faults
           /\ Proceeds \/ Leaves \/ Restart \/ Stays
<1> USE DEF BInv, UsersFindTheirParts
<1>0. Running => Now \in Calls
  BY NowPlaced
<1>1. CASE succeeds
  <2>1. Running /\ Now \notin Special /\ Advance /\ up' = up \cup Gains(Now)
        /\ file' = file /\ actual' = actual
    BY <1>1 DEF succeeds, flashVars
  <2>2. ~(at.fn = "sd_self_test" /\ at.step \in {1, 5})
    <3>1. at.fn = "sd_self_test" /\ at.step = 1 => Now = "sd_create"
      BY DEF Now, Steps
    <3> QED BY <2>1, <3>1, NowAt DEF Special
  <2>3. ~(at.fn = "sd_self_test" /\ at.step = 4)
    <3>1. at.fn = "sd_self_test" /\ at.step = 4 => Now = "sd_read"
      BY DEF Now, Steps
    <3> QED BY <2>1, <3>1 DEF Special
  <2> QED BY <1>1, <2>1, <2>2, <2>3 DEF Proceeds, succeeds
<1>2. ASSUME GiveUp, Running, flashVars' = flashVars, Now \in faults \/ at.fn # "wifi_start"
      PROVE  Leaves \/ Restart
  BY <1>2 DEF GiveUp, Leaves, flashVars
<1>3. CASE fails
  BY <1>2, <1>3 DEF fails
<1>4. CASE fails_tolerated
  <2>1. Running /\ Now = "ctrl_filter" /\ Advance /\ up' = up /\ file' = file
    BY <1>4 DEF fails_tolerated, Tolerated, flashVars
  <2>2. at.fn = "wifi_start"
    BY <2>1, NowAt
  <2> QED BY <1>4, <2>1, <2>2 DEF Proceeds, Loose, Tolerated, fails_tolerated
<1>5. CASE touch_answers
  <2>1. Running /\ Now = "touch" /\ Advance /\ up' = up \cup {"touch"} /\ file' = file
    BY <1>5 DEF touch_answers, flashVars
  <2>2. at.fn = "touch_init" /\ Gains(Now) = {"touch"}
    BY <2>1, NowAt DEF Gains
  <2> QED BY <1>5, <2>1, <2>2 DEF Proceeds, touch_answers
<1>6. CASE touch_silent
  BY <1>2, <1>6 DEF touch_silent, Stays, flashVars
<1>7. CASE nvs_init
  <2>1. Running /\ Now = "nvs_init" /\ Advance /\ up' = up \cup {"nvs_init"} /\ file' = file
    BY <1>7 DEF nvs_init, flashVars
  <2>2. at.fn = "wifi_init" /\ Gains(Now) = {"nvs_init"}
    BY <2>1, NowAt DEF Gains
  <2> QED BY <1>7, <2>1, <2>2 DEF Proceeds, nvs_init
<1>8. CASE nvs_fails
  <2>1. Running /\ at.fn = "wifi_init"
    BY <1>8, NowAt DEF nvs_fails
  <2> QED BY <1>2, <1>8, <2>1 DEF nvs_fails
<1>9. CASE nvs_erased
  BY <1>9 DEF nvs_erased, Stays, ramVars
<1>10. CASE sd_creates
  <2>1. Running /\ at.fn = "sd_self_test" /\ at.step = 1 /\ Now \in Loose
    BY <1>10, NowAt DEF sd_creates, Loose
  <2> QED BY <1>10, <2>1 DEF sd_creates, Proceeds, GiveUp, Leaves
<1>11. CASE sd_writes
  <2>1. Running /\ at.fn = "sd_self_test" /\ at.step = 2 /\ Now \in Loose
    BY <1>11, NowAt DEF sd_writes, Loose
  <2> QED BY <1>11, <2>1 DEF sd_writes, Proceeds, GiveUp, Leaves
<1>12. CASE sd_reads
  <2>1. Running /\ at.fn = "sd_self_test" /\ at.step = 4 /\ Now \in Loose
    BY <1>12, NowAt DEF sd_reads, Loose
  <2>2. file' = file
    BY <1>12 DEF sd_reads, flashVars
  <2> QED BY <1>12, <2>1, <2>2 DEF sd_reads, Proceeds, GiveUp, Leaves
<1>13. CASE sd_verifies
  <2>1. Running /\ at.fn = "sd_self_test" /\ at.step = 5 /\ Now \in Loose
    BY <1>13, NowAt DEF sd_verifies, Loose
  <2>2. file' = file
    BY <1>13 DEF sd_verifies, flashVars
  <2> QED BY <1>13, <2>1, <2>2 DEF sd_verifies, Proceeds, GiveUp, Leaves
<1>14. CASE power_cut
  BY <1>14 DEF power_cut
<1> QED BY <1>1, <1>3, <1>4, <1>5, <1>6, <1>7, <1>8, <1>9, <1>10, <1>11, <1>12, <1>13, <1>14
        DEF BootNext, app_main

-----------------------------------------------------------------------------
(* Types *)

LEMMA CountPositive == \A f \in Functions : 1 \in DOMAIN Steps(f)
  BY StepsCounted

LEMMA AfterIsFunction ==
    ASSUME NEW f \in Functions
    PROVE  /\ AfterSuccess(f) \in Functions \cup {"done"}
           /\ f \notin Fatal => AfterFailure(f) \in Functions \cup {"done"}
  BY DEF AfterSuccess, AfterFailure, Functions, Fatal

Placed(a) ==
    /\ \/ a.fn = "done" /\ a.step = 1
       \/ a.fn \in Functions /\ a.step \in DOMAIN Steps(a.fn)
    /\ a = [fn |-> a.fn, step |-> a.step]

LEMMA StartPlaced ==
    ASSUME NEW f \in Functions \cup {"done"} PROVE Placed([fn |-> f, step |-> 1])
<1> DEFINE a == [fn |-> f, step |-> 1]
<1>1. a.fn = f /\ a.step = 1 /\ a = [fn |-> a.fn, step |-> a.step]
  OBVIOUS
<1>2. f # "done" => 1 \in DOMAIN Steps(f)
  BY CountPositive
<1> HIDE DEF a
<1>3. Placed(a)
  BY <1>1, <1>2 DEF Placed
<1> QED BY <1>3 DEF a

ShownTyped == shown = Nothing \/ shown \subseteq {"touch", "sd", "wifi"}

LEMMA AdvanceTyped ==
    ASSUME BInv, Running, Advance
    PROVE  Placed(at') /\ ok' \subseteq Results /\ ShownTyped'
<1>0. BootTypeOK /\ at = [fn |-> at.fn, step |-> at.step]
  BY DEF BInv, UsersFindTheirParts
<1>1. at.fn \in Functions /\ at.step \in 1..Count(at.fn) /\ Len(Steps(at.fn)) = Count(at.fn)
      /\ DOMAIN Steps(at.fn) = 1..Count(at.fn) /\ Count(at.fn) \in Nat
  BY <1>0, NowPlaced, StepsCounted
<1>2. CASE at.step < Len(Steps(at.fn))
  <2>1. at' = [fn |-> at.fn, step |-> at.step + 1] /\ ok' = ok /\ shown' = shown
    BY <1>0, <1>2 DEF Advance
  <2>2. at.step + 1 \in DOMAIN Steps(at.fn)
    BY <1>1, <1>2
  <2> QED BY <1>0, <1>1, <2>1, <2>2 DEF Placed, ShownTyped, BootTypeOK
<1>3. CASE ~(at.step < Len(Steps(at.fn)))
  <2>1. /\ at' = [fn |-> AfterSuccess(at.fn), step |-> 1]
        /\ ok' = ok \cup Result(at.fn)
        /\ shown' = IF at.fn = "show_status" THEN Screen(ok) ELSE shown
    BY <1>3 DEF Advance
  <2>2. Result(at.fn) \subseteq Results
    BY DEF Result, Results
  <2>3. Screen(ok) \subseteq {"touch", "sd", "wifi"}
    BY DEF Screen
  <2> QED BY <1>0, <1>1, <2>1, <2>2, <2>3, StartPlaced, AfterIsFunction
          DEF ShownTyped, BootTypeOK
<1> QED BY <1>2, <1>3

LEMMA RestartTyped ==
    ASSUME Restart
    PROVE  /\ Placed(at') /\ ok' \subseteq Results /\ ShownTyped'
           /\ up' \subseteq Calls \cup {"touch_driver"}
           /\ tries' \in 0..TOUCH_ATTEMPTS - 1 /\ actual' = "nothing"
<1>1. Placed(at')
  BY StartPlaced DEF Restart, Functions
<1> QED BY <1>1, BootAssumption DEF Restart, ShownTyped

LEMMA GiveUpTyped ==
    ASSUME BInv, Running, GiveUp
    PROVE  /\ Placed(at') /\ ok' \subseteq Results /\ ShownTyped'
           /\ up' \subseteq Calls \cup {"touch_driver"}
           /\ tries' \in 0..TOUCH_ATTEMPTS - 1
           /\ actual' \in {"nothing", "expected", "garbled"}
<1>0. BootTypeOK /\ at.fn \in Functions
  BY NowPlaced DEF BInv, UsersFindTheirParts
<1>1. CASE at.fn \in Fatal
  BY <1>1, RestartTyped DEF GiveUp
<1>2. CASE at.fn \notin Fatal
  <2>1. at' = [fn |-> AfterFailure(at.fn), step |-> 1] /\ UNCHANGED <<tries, up, ok, shown, actual>>
    BY <1>2 DEF GiveUp
  <2>2. Placed(at')
    BY <1>0, <1>2, <2>1, StartPlaced, AfterIsFunction
  <2> QED BY <1>0, <2>1, <2>2 DEF BootTypeOK, ShownTyped
<1> QED BY <1>1, <1>2

\* The variables app_main's place and results have nothing to do with.
RestTyped ==
    /\ tries \in 0..TOUCH_ATTEMPTS - 1
    /\ up \subseteq Calls \cup {"touch_driver"}
    /\ nvs \in {"good", "no_free_pages", "new_version_found"}
    /\ file \in {"none", "empty", "expected", "garbled"}
    /\ actual \in {"nothing", "expected", "garbled"}
    /\ faults \in Faults /\ cuts \in 0..MaxCuts

LEMMA TypesApart == BootTypeOK /\ at = [fn |-> at.fn, step |-> at.step]
                      <=> Placed(at) /\ ok \subseteq Results /\ ShownTyped /\ RestTyped
<1>1. ASSUME BootTypeOK, at = [fn |-> at.fn, step |-> at.step]
      PROVE  Placed(at) /\ ok \subseteq Results /\ ShownTyped /\ RestTyped
  BY <1>1 DEF BootTypeOK, Placed, ShownTyped, RestTyped
<1>2. ASSUME Placed(at), ok \subseteq Results, ShownTyped, RestTyped
      PROVE  BootTypeOK /\ at = [fn |-> at.fn, step |-> at.step]
  BY <1>2 DEF BootTypeOK, Placed, ShownTyped, RestTyped
<1> QED BY <1>1, <1>2

LEMMA TypesKept ==
    ASSUME BInv, BootNext
    PROVE  Placed(at') /\ ok' \subseteq Results /\ ShownTyped' /\ RestTyped'
<1>0. Placed(at) /\ ok \subseteq Results /\ ShownTyped /\ RestTyped
  BY TypesApart DEF BInv, UsersFindTheirParts
<1>1. Running => Now \in Calls
  BY NowPlaced DEF BInv, UsersFindTheirParts
<1>2. Running => Gains(Now) \subseteq Calls \cup {"touch_driver"}
  BY <1>1 DEF Gains
<1>3. CASE succeeds
  BY <1>0, <1>2, <1>3, AdvanceTyped DEF succeeds, RestTyped, flashVars
<1>4. CASE fails
  BY <1>0, <1>4, GiveUpTyped DEF fails, RestTyped, flashVars
<1>5. CASE fails_tolerated
  BY <1>0, <1>5, AdvanceTyped DEF fails_tolerated, RestTyped, flashVars
<1>6. CASE touch_answers
  BY <1>0, <1>1, <1>6, AdvanceTyped DEF touch_answers, RestTyped, flashVars
<1>7. CASE touch_silent
  <2>1. CASE tries + 1 < TOUCH_ATTEMPTS
    <3>1. tries' \in 0..TOUCH_ATTEMPTS - 1
      BY <1>0, <1>7, <2>1, BootAssumption DEF touch_silent, RestTyped
    <3> QED BY <1>0, <1>7, <2>1, <3>1 DEF touch_silent, RestTyped, flashVars, ShownTyped
  <2>2. CASE ~(tries + 1 < TOUCH_ATTEMPTS)
    BY <1>0, <1>7, <2>2, GiveUpTyped DEF touch_silent, RestTyped, flashVars
  <2> QED BY <2>1, <2>2
<1>8. CASE nvs_init
  BY <1>0, <1>1, <1>8, AdvanceTyped DEF nvs_init, RestTyped, flashVars
<1>9. CASE nvs_fails
  BY <1>0, <1>9, GiveUpTyped DEF nvs_fails, RestTyped, flashVars
<1>10. CASE nvs_erased
  BY <1>0, <1>10 DEF nvs_erased, RestTyped, ramVars, ShownTyped
<1>11. CASE sd_creates
  BY <1>0, <1>11, AdvanceTyped, GiveUpTyped DEF sd_creates, RestTyped
<1>12. CASE sd_writes
  BY <1>0, <1>12, AdvanceTyped, GiveUpTyped DEF sd_writes, RestTyped
<1>13. CASE sd_reads
  <2>1. CASE /\ file # "empty" /\ actual' = file
             /\ Advance /\ UNCHANGED <<tries, up>>
    <3>1. file # "none"
      BY <1>13, NowAt DEF sd_reads, BInv, UsersFindTheirParts, Meant
    <3> QED BY <1>0, <1>13, <2>1, <3>1, AdvanceTyped DEF sd_reads, RestTyped, flashVars
  <2>2. CASE GiveUp
    BY <1>0, <1>13, <2>2, GiveUpTyped DEF sd_reads, RestTyped, flashVars
  <2> QED BY <1>13, <2>1, <2>2 DEF sd_reads
<1>14. CASE sd_verifies
  BY <1>0, <1>14, AdvanceTyped, GiveUpTyped DEF sd_verifies, RestTyped, flashVars
<1>15. CASE power_cut
  <2>1. cuts' \in 0..MaxCuts
    BY <1>0, <1>15, BootAssumption DEF power_cut, RestTyped
  <2> QED BY <1>0, <1>15, <2>1, RestartTyped DEF power_cut, RestTyped, flashVars
<1> QED BY <1>3, <1>4, <1>5, <1>6, <1>7, <1>8, <1>9, <1>10, <1>11, <1>12, <1>13, <1>14, <1>15
        DEF BootNext, app_main

-----------------------------------------------------------------------------
(* The order of things *)

\* What a step that goes on does to app_main's place and to the parts.
Within == at' = [fn |-> at.fn, step |-> at.step + 1] /\ UNCHANGED <<ok, shown>>
Finishes ==
    /\ at' = [fn |-> AfterSuccess(at.fn), step |-> 1]
    /\ ok' = ok \cup Result(at.fn)
    /\ shown' = IF at.fn = "show_status" THEN Screen(ok) ELSE shown

\* The parts the functions leave when they return ESP_OK.
Product ==
    /\ at.fn = "i2c_init" => "i2c_driver" \in up'
    /\ at.fn = "touch_init" => "touch" \in up'
    /\ at.fn = "display_init" => {"lvgl_driver", "lvgl_mux"} \subseteq up'
    /\ at.fn = "sd_init" => "sd_mount" \in up'
    /\ at.fn = "wifi_init" => WifiParts \subseteq up'
    /\ at.fn = "wifi_start" => {"wifi_started", "promiscuous", "channel"} \subseteq up'
    /\ at.fn = "show_status" => "status_label" \in up'

LEMMA SoFar ==
    ASSUME BInv, Proceeds
    PROVE  /\ BootTypeOK /\ at.fn \in Functions /\ at.step \in 1..Count(at.fn)
           /\ up \subseteq up'
           /\ \A i \in 1..at.step : Steps(at.fn)[i] \in up' \cup Loose
           /\ \/ Within /\ at.step < Count(at.fn)
              \/ Finishes /\ at.step = Count(at.fn)
<1>1. BootTypeOK /\ Running /\ Advance /\ at = [fn |-> at.fn, step |-> at.step]
  BY DEF BInv, UsersFindTheirParts, Proceeds
<1>2. at.fn \in Functions /\ at.step \in 1..Count(at.fn) /\ Count(at.fn) \in Nat
      /\ Len(Steps(at.fn)) = Count(at.fn)
  BY <1>1, NowPlaced, StepsCounted
<1>3. up \subseteq up' /\ Now \in up' \cup Loose
  BY DEF Proceeds, Gains
<1>4. ASSUME NEW i \in 1..at.step PROVE Steps(at.fn)[i] \in up' \cup Loose
  <2>1. CASE i = at.step
    BY <1>3, <2>1 DEF Now
  <2>2. CASE i # at.step
    <3>1. i \in 1..at.step - 1
      BY <1>2, <2>2
    <3> QED BY <1>1, <1>3, <3>1 DEF BInv, Behind, Running
  <2> QED BY <2>1, <2>2
<1>5. CASE at.step < Count(at.fn)
  BY <1>1, <1>2, <1>3, <1>4, <1>5 DEF Advance, Within
<1>6. CASE ~(at.step < Count(at.fn))
  <2>1. at.step = Count(at.fn)
    BY <1>2, <1>6
  <2> QED BY <1>1, <1>2, <1>3, <1>4, <1>6, <2>1 DEF Advance, Finishes
<1> QED BY <1>5, <1>6

\* A call before the one app_main is at, looked up by its place.
LEMMA DoneBefore ==
    ASSUME BInv, Proceeds, NEW i \in 1..at.step, NEW c, Steps(at.fn)[i] = c, c \notin Loose
    PROVE  c \in up'
  BY SoFar

LEMMA Produced == ASSUME BInv, Proceeds, at.step = Count(at.fn) PROVE Product
<1> USE SoFar DEF Loose, Tolerated
<1>1. CASE at.fn = "i2c_init"
  <2>1. 2 \in 1..at.step /\ Steps(at.fn)[2] = "i2c_driver"
    BY <1>1 DEF Count, Steps
  <2> QED BY <1>1, <2>1 DEF Product
<1>2. CASE at.fn = "touch_init"
  <2>1. 1 \in 1..at.step /\ Steps(at.fn)[1] = "touch"
    BY <1>2 DEF Count, Steps
  <2> QED BY <1>2, <2>1 DEF Product
<1>3. CASE at.fn = "display_init"
  <2>1. /\ 7 \in 1..at.step /\ Steps(at.fn)[7] = "lvgl_driver"
        /\ 8 \in 1..at.step /\ Steps(at.fn)[8] = "lvgl_mux"
    BY <1>3 DEF Count, Steps
  <2> QED BY <1>3, <2>1 DEF Product
<1>4. CASE at.fn = "sd_init"
  <2>1. 2 \in 1..at.step /\ Steps(at.fn)[2] = "sd_mount"
    BY <1>4 DEF Count, Steps
  <2> QED BY <1>4, <2>1 DEF Product
<1>5. CASE at.fn = "wifi_init"
  <2>1. /\ 7 \in 1..at.step /\ Steps(at.fn)[7] = "queues"
        /\ 8 \in 1..at.step /\ Steps(at.fn)[8] = "world_mux"
        /\ 9 \in 1..at.step /\ Steps(at.fn)[9] = "world"
        /\ 10 \in 1..at.step /\ Steps(at.fn)[10] = "pool"
        /\ 11 \in 1..at.step /\ Steps(at.fn)[11] = "radio_rx_task"
    BY <1>5 DEF Count, Steps
  <2> QED BY <1>5, <2>1 DEF Product, WifiParts
<1>6. CASE at.fn = "wifi_start"
  <2>1. /\ 1 \in 1..at.step /\ Steps(at.fn)[1] = "wifi_started"
        /\ 5 \in 1..at.step /\ Steps(at.fn)[5] = "promiscuous"
        /\ 6 \in 1..at.step /\ Steps(at.fn)[6] = "channel"
    BY <1>6 DEF Count, Steps
  <2> QED BY <1>6, <2>1 DEF Product
<1>7. CASE at.fn = "show_status"
  <2>1. 1 \in 1..at.step /\ Steps(at.fn)[1] = "status_label"
    BY <1>7 DEF Count, Steps
  <2> QED BY <1>7, <2>1 DEF Product
<1> QED BY <1>1, <1>2, <1>3, <1>4, <1>5, <1>6, <1>7 DEF Product

PartsFound == \A x \in Users : x \in up => Uses(x) \subseteq up

LEMMA PartsKept == ASSUME BInv, Proceeds PROVE PartsFound'
<1>0. BootTypeOK /\ Running /\ up \subseteq up' /\ PartsFound /\ Left
  BY SoFar DEF BInv, UsersFindTheirParts, Proceeds, PartsFound
<1> SUFFICES ASSUME NEW x \in Users, x \in up', x \notin up PROVE Uses(x) \subseteq up'
  BY <1>0 DEF PartsFound
<1>1. x = Now \/ (x = "touch_driver" /\ Now = "lvgl_driver" /\ "touch" \in up)
  BY DEF Proceeds, Gains
<1>2. CASE x = "lvgl_task"
  <2>1. at.fn = "display_init" /\ at.step = 11
    BY <1>0, <1>1, <1>2, NowAt
  <2>2. /\ Steps(at.fn)[5] = "panel_init" /\ Steps(at.fn)[6] = "buffers"
        /\ Steps(at.fn)[7] = "lvgl_driver" /\ Steps(at.fn)[8] = "lvgl_mux"
    BY <2>1 DEF Steps
  <2> QED BY <1>2, <2>1, <2>2, SoFar DEF Uses, Loose, Tolerated
<1>3. CASE x = "touch_driver"
  <2>1. Now # "touch_driver"
    BY <1>0, NowAt
  <2> QED BY <1>0, <1>1, <1>3, <2>1 DEF Uses, Left
<1>4. CASE x = "promiscuous"
  <2>1. at.fn = "wifi_start" /\ at.step = 5
    BY <1>0, <1>1, <1>4, NowAt
  <2>2. Steps(at.fn)[1] = "wifi_started" /\ Steps(at.fn)[2] = "rx_cb"
    BY <2>1 DEF Steps
  <2>3. WifiParts \subseteq up'
    BY <1>0, <2>1 DEF Left
  <2> QED BY <1>4, <2>1, <2>2, <2>3, SoFar DEF Uses, Loose, Tolerated, WifiParts
<1>5. CASE x \in {"radio_rx_task", "radio_stats_task"}
  <2>1. at.fn = "wifi_init" /\ at.step \in {11, 12}
    BY <1>0, <1>1, <1>5, NowAt
  <2>2. /\ Steps(at.fn)[7] = "queues" /\ Steps(at.fn)[8] = "world_mux"
        /\ Steps(at.fn)[9] = "world" /\ Steps(at.fn)[10] = "pool"
    BY <2>1 DEF Steps
  <2> QED BY <1>5, <2>1, <2>2, SoFar DEF Uses, Loose, Tolerated
<1>6. CASE x = "hopper_task"
  <2>1. at.fn = "hopper_start" /\ at.step = 2
    BY <1>0, <1>1, <1>6, NowAt
  <2>2. Steps(at.fn)[1] = "channel_list"
    BY <2>1 DEF Steps
  <2>3. "wifi_started" \in up'
    BY <1>0, <2>1 DEF Left
  <2> QED BY <1>6, <2>1, <2>2, <2>3, SoFar DEF Uses, Loose, Tolerated
<1>7. CASE x = "phase1_ui_task"
  <2>1. at.fn = "ui_task"
    BY <1>0, <1>1, <1>7, NowAt
  <2> QED BY <1>0, <1>7, <2>1 DEF Uses, Left, WifiParts, PastStatus, PastDisplay
<1> QED BY <1>2, <1>3, <1>4, <1>5, <1>6, <1>7 DEF Users

LEMMA BehindKept == ASSUME BInv, Proceeds PROVE Behind'
<1>1. CASE Within
  <2>1. at'.fn = at.fn /\ at'.step = at.step + 1 /\ at.step \in Nat
    BY <1>1, SoFar DEF Within
  <2>2. at'.step - 1 = at.step
    BY <2>1
  <2> QED BY <2>1, <2>2, SoFar DEF Behind
<1>2. CASE Finishes
  <2>1. at'.step = 1
    BY <1>2 DEF Finishes
  <2> QED BY <2>1 DEF Behind
<1> QED BY <1>1, <1>2, SoFar

LEMMA LeftKept == ASSUME BInv, Proceeds PROVE Left'
<1>0. BootTypeOK /\ Running /\ up \subseteq up' /\ Left /\ Meant /\ at.fn \in Functions
  BY SoFar DEF BInv, UsersFindTheirParts, Proceeds
<1>1. \A x : x \in up' => x \in up \/ x = Now \/ x = "touch_driver"
  BY DEF Proceeds, Gains
<1>2. "touch" \in up' => "i2c_driver" \in up'
  BY <1>0, <1>1, NowAt DEF Left
<1>3. "lvgl_driver" \in up' => at.fn \notin BeforeDisplay
  BY <1>0, <1>1, NowAt DEF Left, BeforeDisplay
<1>4. CASE Within
  BY <1>0, <1>2, <1>3, <1>4 DEF Within, Left
<1>5. CASE Finishes /\ at.step = Count(at.fn)
  <2>1. Product
    BY <1>5, Produced
  <2>2. at'.fn = AfterSuccess(at.fn) /\ ok' = ok \cup Result(at.fn)
    BY <1>5 DEF Finishes
  <2>3. at'.fn = "touch_init" => "i2c_driver" \in up'
    BY <1>0, <2>1, <2>2 DEF Product, AfterSuccess, Functions
  <2>4. at'.fn \in PastDisplay => {"lvgl_driver", "lvgl_mux"} \subseteq up'
    BY <1>0, <2>1, <2>2 DEF Product, AfterSuccess, Functions, PastDisplay, Left
  <2>5. at'.fn \in BeforeDisplay => "lvgl_driver" \notin up'
    BY <1>0, <1>3, <2>2 DEF AfterSuccess, Functions, BeforeDisplay
  <2>6. at'.fn = "wifi_start" => WifiParts \subseteq up'
    BY <1>0, <2>1, <2>2 DEF Product, AfterSuccess, Functions
  <2>7. "wifi" \in ok' => "wifi" \in ok \/ at.fn = "wifi_start"
    BY <1>0, <2>2 DEF Result, Functions
  <2>8. "wifi" \in ok' => at'.fn \in PastWifi
    BY <1>0, <2>2, <2>7 DEF Left, AfterSuccess, Functions, PastWifi
  <2>9. "wifi" \in ok' =>
           WifiParts \cup {"wifi_started", "promiscuous", "channel"} \subseteq up'
    BY <1>0, <2>1, <2>7 DEF Left, Product
  <2>10. at'.fn \in {"hopper_start", "ui_task"} => "wifi" \in ok'
    BY <1>0, <2>2 DEF AfterSuccess, Functions, Result
  <2>11. at'.fn \in PastStatus => "status_label" \in up'
    BY <1>0, <2>1, <2>2 DEF Product, AfterSuccess, Functions, PastStatus, Left
  <2> QED BY <1>2, <2>3, <2>4, <2>5, <2>6, <2>8, <2>9, <2>10, <2>11 DEF Left
<1> QED BY <1>4, <1>5, SoFar

LEMMA MeantKept == ASSUME BInv, Proceeds, faults' = faults PROVE Meant'
<1>0. BootTypeOK /\ Running /\ up \subseteq up' /\ Left /\ Meant /\ at.fn \in Functions
      /\ at.step \in 1..Count(at.fn) /\ Count(at.fn) \in Nat
  BY SoFar, StepsCounted DEF BInv, UsersFindTheirParts, Proceeds
<1>1. /\ up' = up \cup Gains(Now) \/ (up' = up /\ Now \in Loose)
      /\ \A x : x \in up' => x \in up \/ x \in Gains(Now)
  BY DEF Proceeds
<1>2. at'.fn = at.fn \/ at'.fn = AfterSuccess(at.fn)
  BY SoFar DEF Within, Finishes
<1>3. "touch" \in ok' <=> "touch" \in up'
  <2>1. CASE at.fn = "touch_init"
    <3>1. at.step = Count(at.fn)
      BY <1>0, <2>1 DEF Count
    <3>2. Finishes
      BY <3>1, SoFar, <1>0
    <3> QED BY <2>1, <3>1, <3>2, Produced DEF Product, Finishes, Result
  <2>2. CASE at.fn # "touch_init"
    <3>1. "touch" \in up' => "touch" \in up
      BY <1>0, <1>1, <2>2, NowAt DEF Gains
    <3>2. "touch" \in ok' <=> "touch" \in ok
      BY <1>0, <2>2, SoFar DEF Within, Finishes, Result, Functions
    <3> QED BY <1>0, <3>1, <3>2 DEF Meant
  <2> QED BY <2>1, <2>2
<1>4. "touch_driver" \in up' <=> {"touch", "lvgl_driver"} \subseteq up'
  <2>1. CASE Now = "lvgl_driver"
    <3>1. up' = up \cup Gains(Now)
      BY <1>1, <2>1 DEF Loose, Tolerated
    <3> QED BY <1>0, <2>1, <3>1 DEF Gains, Meant
  <2>2. CASE Now # "lvgl_driver"
    <3>1. Gains(Now) = {Now} /\ Now # "touch_driver"
      BY <1>0, <2>2, NowAt DEF Gains
    <3>2. CASE Now = "touch"
      <4>1. "lvgl_driver" \notin up
        BY <1>0, <3>2, NowAt DEF Left, BeforeDisplay
      <4> QED BY <1>0, <1>1, <3>1, <3>2, <4>1 DEF Meant
    <3>3. CASE Now # "touch"
      BY <1>0, <1>1, <2>2, <3>1, <3>3 DEF Meant
    <3> QED BY <3>2, <3>3
  <2> QED BY <2>1, <2>2
<1>5. at'.fn = "sd_self_test" => "sd_mount" \in up'
  <2>1. CASE Within
    BY <1>0, <2>1 DEF Within, Meant
  <2>2. CASE Finishes /\ at.step = Count(at.fn)
    BY <1>0, <2>2, Produced DEF Product, Finishes, AfterSuccess, Functions
  <2> QED BY <2>1, <2>2, SoFar
<1>6. at'.fn = "sd_self_test" /\ at'.step # 1 =>
         at.fn = "sd_self_test" /\ at'.step = at.step + 1
  BY SoFar DEF Within, Finishes
<1>7. at'.fn = "sd_self_test" /\ at'.step # 1 => file' # "none"
  BY <1>0, <1>6 DEF Proceeds, Meant
<1>8. at'.fn = "sd_self_test" /\ at'.step = 5 => actual' = file'
  <2>1. at'.fn = "sd_self_test" /\ at'.step = 5 => at.fn = "sd_self_test" /\ at.step = 4
    BY <1>0, <1>6
  <2> QED BY <2>1 DEF Proceeds
<1>9. "sd" \in ok' => /\ at'.fn \notin BeforeSd \cup {"sd_self_test"}
                       /\ "sd_mount" \in up' /\ file' = "expected"
  <2> SUFFICES ASSUME "sd" \in ok'
               PROVE  /\ at'.fn \notin BeforeSd \cup {"sd_self_test"}
                      /\ "sd_mount" \in up' /\ file' = "expected"
    OBVIOUS
  <2>1. CASE "sd" \in ok
    <3>1. at.fn \notin BeforeSd \cup {"sd_self_test"}
      BY <1>0, <2>1 DEF Meant
    <3>2. at'.fn \notin BeforeSd \cup {"sd_self_test"}
      BY <1>0, <1>2, <3>1 DEF AfterSuccess, Functions, BeforeSd, BeforeDisplay
    <3> QED BY <1>0, <2>1, <3>1, <3>2 DEF Meant, Proceeds
  <2>2. CASE "sd" \notin ok
    <3>1. Finishes /\ at.fn = "sd_self_test" /\ at.step = 5
      BY <1>0, <2>2, SoFar DEF Within, Finishes, Result, Functions, Count
    <3>2. actual = "expected" /\ file' = file /\ actual = file
      BY <1>0, <3>1 DEF Proceeds, Meant
    <3>3. at'.fn = "wifi_init"
      BY <3>1 DEF Finishes, AfterSuccess
    <3> QED BY <1>0, <3>1, <3>2, <3>3 DEF Meant, BeforeSd, BeforeDisplay
  <2> QED BY <2>1, <2>2
<1>10. "promiscuous" \in up' =>
         /\ at' = [fn |-> "wifi_start", step |-> 6] \/ at'.fn \in PastWifi
         /\ at'.fn \in PastWifi => "wifi" \in ok' \/ "channel" \in faults'
  <2> SUFFICES ASSUME "promiscuous" \in up'
               PROVE  /\ at' = [fn |-> "wifi_start", step |-> 6] \/ at'.fn \in PastWifi
                      /\ at'.fn \in PastWifi => "wifi" \in ok' \/ "channel" \in faults'
    OBVIOUS
  <2>1. CASE Now = "promiscuous"
    <3>1. at.fn = "wifi_start" /\ at.step = 5
      BY <1>0, <2>1, NowAt
    <3>2. Within
      BY <3>1, SoFar DEF Count
    <3> QED BY <3>1, <3>2 DEF Within, PastWifi
  <2>2. CASE Now # "promiscuous"
    <3>1. "promiscuous" \in up
      BY <1>1, <2>2 DEF Gains
    <3>2. CASE at.fn = "wifi_start" /\ at.step = 6
      <4>1. Finishes
        BY <3>2, SoFar DEF Count
      <4> QED BY <3>2, <4>1 DEF Finishes, AfterSuccess, Result, PastWifi
    <3>3. CASE at.fn \in PastWifi
      <4>1. at'.fn \in PastWifi
        BY <1>0, <1>2, <3>3 DEF AfterSuccess, PastWifi, Functions
      <4>2. "wifi" \in ok => "wifi" \in ok'
        BY SoFar DEF Within, Finishes
      <4> QED BY <1>0, <3>1, <3>3, <4>1, <4>2 DEF Meant
    <3> QED BY <1>0, <3>1, <3>2, <3>3 DEF Meant
  <2> QED BY <2>1, <2>2
<1>11. {"hopper_task", "phase1_ui_task"} \cap up' # {} => "wifi" \in ok'
  <2>1. "wifi" \in ok => "wifi" \in ok'
    BY SoFar DEF Within, Finishes
  <2>2. Now \in {"hopper_task", "phase1_ui_task"} => "wifi" \in ok
    BY <1>0, NowAt DEF Left
  <2> QED BY <1>0, <1>1, <2>1, <2>2 DEF Gains, Meant
<1>12. shown' = IF at'.fn \in PastStatus THEN Screen(ok') ELSE Nothing
  <2>1. CASE Within
    BY <1>0, <2>1 DEF Within, Meant
  <2>2. CASE Finishes
    BY <1>0, <2>2 DEF Finishes, Meant, AfterSuccess, Functions, Result, PastStatus
  <2> QED BY <2>1, <2>2, SoFar
<1> QED BY <1>3, <1>4, <1>5, <1>7, <1>8, <1>9, <1>10, <1>11, <1>12 DEF Meant

-----------------------------------------------------------------------------
(* Failures and restarts *)

LEMMA LeavesKeep == ASSUME BInv, Leaves, faults' = faults
                    PROVE  PartsFound' /\ Behind' /\ Left' /\ Meant'
<1>0. /\ BootTypeOK /\ Running /\ PartsFound /\ Left /\ Meant
      /\ at.fn \in Functions \ Fatal /\ at.step \in 1..Count(at.fn)
      /\ at'.fn = AfterFailure(at.fn) /\ at'.step = 1
      /\ up' = up /\ ok' = ok /\ shown' = shown
  BY NowPlaced DEF BInv, UsersFindTheirParts, Leaves, PartsFound
<1>1. PartsFound'
  BY <1>0 DEF PartsFound
<1>2. Behind'
  BY <1>0 DEF Behind
<1> USE DEF AfterFailure, Functions, Fatal, BeforeDisplay, BeforeSd, PastDisplay,
            PastWifi, PastStatus
<1>3. Left'
  <2>1. /\ at'.fn \notin {"touch_init", "wifi_start", "hopper_start", "ui_task"}
        /\ at'.fn \notin BeforeDisplay
        /\ at'.fn \in PastDisplay => at.fn \in PastDisplay
        /\ at'.fn \in PastStatus => at.fn \in PastStatus
        /\ at.fn \in PastWifi => at'.fn \in PastWifi
    BY <1>0
  <2> QED BY <1>0, <2>1 DEF Left
<1>4. Meant'
  <2>1. /\ at'.fn # "sd_self_test"
        /\ at'.fn \in BeforeSd \cup {"sd_self_test"} => at.fn \in BeforeSd \cup {"sd_self_test"}
        /\ at'.fn \in PastStatus <=> at.fn \in PastStatus
        /\ at.fn \in PastWifi => at'.fn \in PastWifi
        /\ at'.fn \in PastWifi => at.fn \in PastWifi \cup {"wifi_start", "wifi_init"}
    BY <1>0
  <2>2. "sd" \in ok => file' = file
    BY <1>0 DEF Leaves, Meant
  <2>3. "promiscuous" \in up =>
          /\ at'.fn \in PastWifi
          /\ "wifi" \in ok \/ "channel" \in faults
    <3>1. CASE at = [fn |-> "wifi_start", step |-> 6]
      <4>1. Now = "channel"
        BY <3>1 DEF Now, Steps
      <4> QED BY <1>0, <3>1, <4>1 DEF Leaves
    <3>2. CASE at.fn \in PastWifi
      BY <1>0, <2>1, <3>2 DEF Meant
    <3> QED BY <1>0, <3>1, <3>2 DEF Meant
  <2> QED BY <1>0, <2>1, <2>2, <2>3 DEF Meant
<1> QED BY <1>1, <1>2, <1>3, <1>4

\* A chip that has just started has done nothing yet.
Fresh ==
    /\ at = [fn |-> "backlight_init", step |-> 1]
    /\ up = {} /\ ok = {} /\ shown = Nothing

LEMMA FreshKeeps == Fresh => PartsFound /\ Behind /\ Left /\ Meant
<1> SUFFICES ASSUME Fresh PROVE PartsFound /\ Behind /\ Left /\ Meant
  OBVIOUS
<1>1. at.fn = "backlight_init" /\ at.step = 1 /\ up = {} /\ ok = {} /\ shown = Nothing
  BY DEF Fresh
<1>2. PartsFound /\ Behind
  BY <1>1 DEF PartsFound, Behind
<1>3. Left
  BY <1>1 DEF Left, PastDisplay, PastWifi, PastStatus
<1>4. Meant
  BY <1>1 DEF Meant, PastWifi, PastStatus
<1> QED BY <1>2, <1>3, <1>4

LEMMA BInit == BootInit => BInv
<1> SUFFICES ASSUME BootInit PROVE BInv
  OBVIOUS
<1>1. Fresh /\ tries = 0 /\ actual = "nothing" /\ cuts = 0
  BY DEF BootInit, Fresh
<1>2. Placed(at)
  BY <1>1, StartPlaced DEF Fresh, Functions
<1>3. ok \subseteq Results /\ ShownTyped /\ RestTyped
  BY <1>1, BootAssumption DEF Fresh, ShownTyped, RestTyped, BootInit
<1> QED BY <1>1, <1>2, <1>3, TypesApart, FreshKeeps DEF BInv, UsersFindTheirParts, PartsFound

LEMMA BNext == BInv /\ [BootNext]_bootVars => BInv'
<1> SUFFICES ASSUME BInv, [BootNext]_bootVars PROVE BInv'
  OBVIOUS
<1>1. CASE BootNext
  <2>1. (BootTypeOK /\ at = [fn |-> at.fn, step |-> at.step])'
    <3>1. (Placed(at) /\ ok \subseteq Results /\ ShownTyped /\ RestTyped)'
      BY <1>1, TypesKept
    <3> QED BY <3>1, TypesApart, PTL
  <2>2. PartsFound' /\ Behind' /\ Left' /\ Meant'
    <3>1. faults' = faults /\ (Proceeds \/ Leaves \/ Restart \/ Stays)
      BY <1>1, StepsKnown
    <3>2. CASE Proceeds
      BY <3>1, <3>2, PartsKept, BehindKept, LeftKept, MeantKept
    <3>3. CASE Leaves
      BY <3>1, <3>3, LeavesKeep
    <3>4. CASE Restart
      <4>1. Fresh'
        BY <3>4 DEF Restart, Fresh
      <4> QED BY <4>1, FreshKeeps, PTL
    <3>5. CASE Stays
      BY <3>1, <3>5 DEF Stays, BInv, UsersFindTheirParts, PartsFound, Behind, Left, Meant
    <3> QED BY <3>1, <3>2, <3>3, <3>4, <3>5
  <2> QED BY <2>1, <2>2 DEF BInv, UsersFindTheirParts, PartsFound
<1>2. CASE UNCHANGED bootVars
  BY <1>2 DEF bootVars, ramVars, flashVars, BInv, UsersFindTheirParts, BootTypeOK,
              Behind, Left, Meant
<1> QED BY <1>1, <1>2

LEMMA BootInvariant == BootSpec => []BInv
  BY BInit, BNext, PTL DEF BootSpec

\* On every board, whatever calls fail and whenever the power is cut: no task,
\* callback or driver of the firmware exists before everything it uses
\* (app_main, wifi_sniffer_init, wifi_sniffer_start, board_display_init).
THEOREM NothingRunsTooSoon == BootSpec => []UsersFindTheirParts
<1>1. BInv => UsersFindTheirParts
  BY DEF BInv
<1> QED BY <1>1, BootInvariant, PTL

\* On every board the status screen says of the touch panel, the card and the
\* radio what is so, and without a radio that works nothing hops or refreshes
\* the screen (app_main, board_sd_self_test).
THEOREM StatusAlwaysTrue == BootSpec => []StatusIsTrue
<1>1. BInv => StatusIsTrue
  <2> SUFFICES ASSUME BInv PROVE StatusIsTrue
    OBVIOUS
  <2>1. Left /\ Meant
    BY DEF BInv
  <2>2. "nothing" \notin Screen(ok) /\ Nothing = {"nothing"}
    BY DEF Screen, Nothing
  <2>3. ASSUME shown # Nothing
        PROVE  /\ "touch" \in shown <=> "touch_driver" \in up
               /\ "sd" \in shown => "sd_mount" \in up /\ file = "expected"
               /\ "wifi" \in shown => Receiving /\ "channel" \in up
    <3>1. at.fn \in PastStatus /\ shown = Screen(ok)
      BY <2>1, <2>3 DEF Meant
    <3>2. "lvgl_driver" \in up
      BY <2>1, <3>1 DEF Left, PastStatus, PastDisplay
    <3> QED BY <2>1, <3>1, <3>2 DEF Left, Meant, Screen, Receiving
  <2>4. ASSUME Booted, "wifi" \notin shown
        PROVE  /\ up \cap {"hopper_task", "phase1_ui_task"} = {}
               /\ Receiving => "channel" \in faults
    <3>1. at.fn \in PastStatus /\ at.fn \in PastWifi /\ shown = Screen(ok)
      BY <2>1, <2>4 DEF Meant, Booted, PastStatus, PastWifi
    <3>2. "wifi" \notin ok
      BY <2>4, <3>1 DEF Screen
    <3> QED BY <2>1, <3>1, <3>2 DEF Meant, Receiving
  <2> QED BY <2>3, <2>4 DEF StatusIsTrue
<1> QED BY <1>1, BootInvariant, PTL

=============================================================================
