------------------------------ MODULE Display -------------------------------
(***************************************************************************)
(* The status screen: board_display.c after board_display_init returned.   *)
(*                                                                         *)
(* app_main shows a status screen and phase1_ui_task updates it, both      *)
(* under s_lvgl_mutex.  lvgl_task takes the same mutex for one call of     *)
(* lv_timer_handler, in which LVGL reads the touch panel and redraws what  *)
(* changed: it renders the screen tile by tile into two buffers in turn,   *)
(* hands each to display_flush, and waits before the next one until the    *)
(* end-of-transfer interrupt has called display_flush_complete.            *)
(*                                                                         *)
(* A text is what a label says, kept as the values it is printed from.     *)
(* lvgl_task has a higher priority than the callers: they run while it     *)
(* sleeps or waits for the mutex.                                          *)
(***************************************************************************)
EXTENDS Integers, Sequences

CONSTANTS
    Caller,      \* the tasks that show and update screens
    Shows,       \* the kinds of screen they show, phase 0 and phase 1 ones
    Ok,          \* the sets of peripherals reported to work
    Counts,      \* the numbers they report
    Label,       \* memory for LVGL's labels
    NoLabel,     \* NULL
    Tiles,       \* how many pieces a redraw is cut into
    LVGL_TASK_MIN_DELAY_MS, LVGL_TASK_MAX_DELAY_MS,
    Delay,       \* what lv_timer_handler may return
    HRES, VRES,  \* the size of the screen
    Raw,         \* coordinates the touch controller may report
    DrawMayFail  \* whether esp_lcd_panel_draw_bitmap may return an error

Phase0 == "phase0"

ASSUME DisplayAssumption ==
    /\ "lvgl" \notin Caller /\ "free" \notin Caller
    /\ "none" \notin Shows /\ NoLabel \notin Label
    /\ Tiles \in Nat \ {0} /\ Counts \subseteq Nat /\ 0 \in Counts
    /\ LVGL_TASK_MIN_DELAY_MS \in Nat \ {0}
    /\ LVGL_TASK_MAX_DELAY_MS \in Nat
    /\ LVGL_TASK_MIN_DELAY_MS <= LVGL_TASK_MAX_DELAY_MS
    /\ Delay \subseteq Nat /\ Raw \subseteq Nat
    /\ HRES \in Nat \ {0} /\ VRES \in Nat \ {0}
    /\ DrawMayFail \in BOOLEAN

VARIABLES
    mux,      \* the holder of s_lvgl_mutex, or "free"
    call,     \* what each caller is calling
    screen,   \* s_status_label, s_screen_kind and the three s_status_*_ok
    label,    \* LVGL's labels: the text of each, or Unused
    lvgl,     \* lvgl_task: its place, and the tile it is at
    dirty,    \* something changed since the last redraw
    buffer,   \* what s_buffer_a and s_buffer_b hold
    active,   \* the buffer LVGL renders into next
    flushing, \* draw_buf->flushing: handed over and not yet taken back
    dma,      \* the transfers under way, oldest first
    panel,    \* what the LCD shows, tile by tile
    pointer,  \* the touch point LVGL sees
    failed    \* history: a draw returned an error
callerVars == <<screen, label>>
drawVars   == <<buffer, active, flushing, dma, panel, failed>>
vars == <<mux, call, callerVars, lvgl, dirty, drawVars, pointer>>

Kind   == Shows \cup {"none"}
Text   == [kind : Shows, ok : Ok, n : Counts]
Unused == [kind |-> "none"]
Blank  == [kind |-> "blank"]
Tile   == 1..Tiles
Buffer == {"a", "b"}

Idle    == [what |-> "nothing"]
Showing == [what : {"show"}, kind : Shows, ok : Ok]
Updating == [what : {"update"}, kind : Shows \ {Phase0}, n : Counts]

\* The active screen has one child at most: every show cleans it first.
Alive     == {l \in Label : label[l] # Unused}
OnScreen  == IF Alive = {} THEN Blank ELSE label[CHOOSE l \in Alive : TRUE]

-----------------------------------------------------------------------------
(* The callers *)

\* A task of a lower priority gets the processor.
LvglAway == \/ lvgl.at = "sleep"
            \/ lvgl.at = "lock" /\ mux # "free"

\* The Phase 0 screen is shown first, if at all, and not beside another call.
InOrder(c) ==
    /\ c.kind = Phase0 => screen.label = NoLabel
    /\ \A u \in Caller : call[u] # Idle => (call[u].kind = Phase0 <=> c.kind = Phase0)

calls(t) ==
    /\ call[t] = Idle /\ LvglAway
    /\ \E c \in Showing \cup Updating : InOrder(c) /\ call' = [call EXCEPT ![t] = c]
    /\ UNCHANGED <<mux, callerVars, lvgl, dirty, drawVars, pointer>>

board_display_lock(t) ==
    /\ call[t] # Idle /\ LvglAway /\ mux = "free"
    /\ mux' = t
    /\ UNCHANGED <<call, callerVars, lvgl, dirty, drawVars, pointer>>

Returns(t) == /\ mux' = "free"
              /\ call' = [call EXCEPT ![t] = Idle]

\* lv_obj_clean destroys every label of the screen; lv_label_create then
\* makes one, or fails.
CleanAndCreate(l, text) ==
    /\ label' = [k \in Label |-> IF k = l THEN text ELSE Unused]
    /\ dirty' = TRUE

\* Faulty variant of show_status: s_status_label still points to the label
\* just destroyed.
show_status_keeps_label(t) ==
    /\ mux = t /\ call[t] \in Showing /\ call[t].kind # Phase0
    /\ \E l \in Label \cup {NoLabel} :
         /\ CleanAndCreate(l, [kind |-> call[t].kind, ok |-> call[t].ok, n |-> 0])
         /\ screen' = [label |-> IF l = NoLabel THEN screen.label ELSE l,
                       ok |-> call[t].ok, kind |-> call[t].kind]
    /\ Returns(t)
    /\ UNCHANGED <<lvgl, drawVars, pointer>>

\* board_display_show_phase1a_status, .._phase1b_.., .._phase1c_.. and
\* .._phase1_status, with status_screen_create_locked and the first refresh.
show_status(t) ==
    /\ mux = t /\ call[t] \in Showing /\ call[t].kind # Phase0
    /\ \E l \in Label \cup {NoLabel} :
         /\ CleanAndCreate(l, [kind |-> call[t].kind, ok |-> call[t].ok, n |-> 0])
         /\ screen' = [label |-> l, ok |-> call[t].ok,
                       kind |-> IF l = NoLabel THEN "none" ELSE call[t].kind]
    /\ Returns(t)
    /\ UNCHANGED <<lvgl, drawVars, pointer>>

\* board_display_show_phase0_status keeps its label to itself.
show_phase0_status(t) ==
    /\ mux = t /\ call[t] \in Showing /\ call[t].kind = Phase0
    /\ \E l \in Label \cup {NoLabel} :
         CleanAndCreate(l, [kind |-> Phase0, ok |-> call[t].ok, n |-> 0])
    /\ Returns(t)
    /\ UNCHANGED <<screen, lvgl, drawVars, pointer>>

\* phase1a_refresh_locked and its siblings write through s_status_label, to
\* whatever is there.
Refreshes(kind) == screen.label # NoLabel /\ screen.kind = kind

update_status(t) ==
    /\ mux = t /\ call[t] \in Updating
    /\ IF Refreshes(call[t].kind)
         THEN /\ label' = [label EXCEPT ![screen.label] =
                        [kind |-> screen.kind, ok |-> screen.ok, n |-> call[t].n]]
              /\ dirty' = TRUE
         ELSE UNCHANGED <<label, dirty>>
    /\ Returns(t)
    /\ UNCHANGED <<screen, lvgl, drawVars, pointer>>

CallerWorks(t) == \/ board_display_lock(t)
                  \/ show_status(t) \/ show_phase0_status(t) \/ update_status(t)

-----------------------------------------------------------------------------
(* lvgl_task and, inside lv_timer_handler, LVGL *)

At(place) == lvgl' = [lvgl EXCEPT !.at = place]

wakes ==
    /\ lvgl.at = "sleep"
    /\ At("lock")
    /\ UNCHANGED <<mux, call, callerVars, dirty, drawVars, pointer>>

\* Faulty variant of lvgl_takes: lv_timer_handler runs without the mutex.
lvgl_takes_nothing ==
    /\ lvgl.at = "lock"
    /\ At("timers")
    /\ UNCHANGED <<mux, call, callerVars, dirty, drawVars, pointer>>

lvgl_takes ==
    /\ lvgl.at = "lock" /\ mux = "free"
    /\ mux' = "lvgl"
    /\ At("timers")
    /\ UNCHANGED <<call, callerVars, dirty, drawVars, pointer>>

Clamped(v, res) == IF v >= res THEN res - 1 ELSE v

\* A read that fails, or finds no finger, is a release and leaves the point.
touch_read ==
    /\ lvgl.at = "timers"
    /\ \/ pointer' = [pointer EXCEPT !.pressed = FALSE]
       \/ \E x, y \in Raw :
            pointer' = [x |-> Clamped(x, HRES), y |-> Clamped(y, VRES), pressed |-> TRUE]
    /\ UNCHANGED <<mux, call, callerVars, lvgl, dirty, drawVars>>

redraw ==
    /\ lvgl.at = "timers" /\ dirty
    /\ dirty' = FALSE
    /\ lvgl' = [at |-> "render", tile |-> 1]
    /\ UNCHANGED <<mux, call, callerVars, drawVars, pointer>>

render ==
    /\ lvgl.at = "render"
    /\ buffer' = [buffer EXCEPT ![active] = [tile |-> lvgl.tile, text |-> OnScreen]]
    /\ At("flush")
    /\ UNCHANGED <<mux, call, callerVars, dirty, active, flushing, dma, panel,
                   pointer, failed>>

NextTile == lvgl' = IF lvgl.tile < Tiles THEN [at |-> "render", tile |-> lvgl.tile + 1]
                                        ELSE [at |-> "unlock", tile |-> 1]

Other(b) == CHOOSE c \in Buffer : c # b

\* Faulty variant of display_flush: the area is ignored.
display_flush_at_origin ==
    /\ lvgl.at = "flush" /\ ~flushing
    /\ flushing' = TRUE
    /\ \/ dma' = Append(dma, [buffer |-> active, tile |-> 1]) /\ UNCHANGED failed
       \/ DrawMayFail /\ failed' = TRUE /\ UNCHANGED dma
    /\ active' = Other(active)
    /\ NextTile
    /\ UNCHANGED <<mux, call, callerVars, dirty, buffer, panel, pointer>>

\* LVGL waits, with the mutex, until the previous tile has been taken back.
\* A draw that fails starts no transfer, and its error is not looked at.
display_flush ==
    /\ lvgl.at = "flush" /\ ~flushing
    /\ flushing' = TRUE
    /\ \/ dma' = Append(dma, [buffer |-> active, tile |-> lvgl.tile]) /\ UNCHANGED failed
       \/ DrawMayFail /\ failed' = TRUE /\ UNCHANGED dma
    /\ active' = Other(active)
    /\ NextTile
    /\ UNCHANGED <<mux, call, callerVars, dirty, buffer, panel, pointer>>

\* The transfer ends: the panel has the buffer's pixels, and the interrupt
\* gives the buffer back.
display_flush_complete ==
    /\ dma # <<>>
    /\ LET sent == Head(dma) IN panel' = [panel EXCEPT ![sent.tile] = buffer[sent.buffer]]
    /\ dma' = Tail(dma)
    /\ flushing' = FALSE
    /\ UNCHANGED <<mux, call, callerVars, lvgl, dirty, buffer, active, pointer, failed>>

\* Faulty variant of ClampedDelay: no lower bound.
DelayUnclamped(d) == IF d > LVGL_TASK_MAX_DELAY_MS THEN LVGL_TASK_MAX_DELAY_MS ELSE d

ClampedDelay(d) == IF d > LVGL_TASK_MAX_DELAY_MS THEN LVGL_TASK_MAX_DELAY_MS
                   ELSE IF d < LVGL_TASK_MIN_DELAY_MS THEN LVGL_TASK_MIN_DELAY_MS
                   ELSE d

\* The handler is done; a delay of no tick is no delay.
lvgl_gives ==
    /\ lvgl.at \in {"timers", "unlock"}
    /\ lvgl.at = "timers" => ~dirty
    /\ mux' = "free"
    /\ \E d \in Delay : At(IF ClampedDelay(d) = 0 THEN "lock" ELSE "sleep")
    /\ UNCHANGED <<call, callerVars, dirty, drawVars, pointer>>

LvglWorks == wakes \/ lvgl_takes \/ redraw \/ render \/ display_flush \/ lvgl_gives

-----------------------------------------------------------------------------
Init ==
    /\ mux = "free"
    /\ call = [t \in Caller |-> Idle]
    /\ screen = [label |-> NoLabel, kind |-> "none", ok |-> {}]
    /\ label = [l \in Label |-> Unused]
    /\ lvgl = [at |-> "lock", tile |-> 1]
    /\ dirty = TRUE
    /\ buffer = [b \in Buffer |-> [tile |-> 1, text |-> Blank]]
    /\ active = "a"
    /\ flushing = FALSE
    /\ dma = <<>>
    /\ panel = [i \in Tile |-> [tile |-> i, text |-> Blank]]
    /\ pointer = [x |-> 0, y |-> 0, pressed |-> FALSE]
    /\ failed = FALSE

Next == \/ \E t \in Caller : calls(t) \/ CallerWorks(t)
        \/ LvglWorks \/ touch_read
        \/ display_flush_complete

(* lvgl_task runs whenever it can, a transfer ends, and a caller gets on   *)
(* whenever lvgl_task leaves it the processor often enough: lvgl_task      *)
(* sleeps one tick at least.                                               *)
Spec == /\ Init /\ [][Next]_vars
        /\ WF_vars(LvglWorks) /\ WF_vars(display_flush_complete)
        /\ \A t \in Caller : SF_vars(CallerWorks(t))

-----------------------------------------------------------------------------
InSection == {"timers", "render", "flush", "unlock"}

\* Every variable has its type; the mutex is lvgl_task's exactly inside
\* lv_timer_handler; a touched point is on the screen.
TypeOK ==
    /\ mux \in Caller \cup {"lvgl", "free"}
    /\ mux = "lvgl" <=> lvgl.at \in InSection
    /\ call \in [Caller -> Showing \cup Updating \cup {Idle}]
    /\ \A t \in Caller : mux = t => call[t] # Idle
    /\ screen \in [label : Label \cup {NoLabel}, kind : Kind, ok : Ok \cup {{}}]
    /\ label \in [Label -> Text \cup {Unused}]
    /\ lvgl \in [at : InSection \cup {"sleep", "lock"}, tile : Tile]
    /\ dirty \in BOOLEAN /\ flushing \in BOOLEAN /\ failed \in BOOLEAN
    /\ buffer \in [Buffer -> [tile : Tile, text : Text \cup {Blank}]]
    /\ active \in Buffer
    /\ dma \in Seq([buffer : Buffer, tile : Tile])
    /\ panel \in [Tile -> [tile : Tile, text : Text \cup {Blank}]]
    /\ pointer \in [x : 0..HRES - 1, y : 0..VRES - 1, pressed : BOOLEAN]

\* s_status_label is NULL when no status screen is up, and otherwise points
\* to a label that exists and belongs to the screen s_screen_kind names:
\* no update writes to memory LVGL has freed or given to another screen
\* (board_display.c:42-43), as long as the Phase 0 screen is not shown late.
StatusLabelAlive ==
    /\ screen.label = NoLabel <=> screen.kind = "none"
    /\ screen.label # NoLabel => label[screen.label].kind = screen.kind

\* The pixels of one tile never end up at the place of another: no buffer
\* is rendered into while it is being sent (display_flush_complete).
TilesInPlace == \A i \in Tile : panel[i].tile = i

\* A redraw shows one moment: once nothing is left to draw or to send, every
\* tile shows the label as it is now, unless a draw has failed.
PanelShowsScreen ==
    mux # "lvgl" /\ ~dirty /\ dma = <<>> /\ ~failed
        => \A i \in Tile : panel[i].text = OnScreen

\* LVGL waits for a buffer only while it is being sent, as long as no draw
\* has failed.
WaitsForTransfer == flushing => dma # <<>> \/ failed

\* Every call of a show or update function returns, although
\* board_display_lock waits for ever: only a draw that failed stops it.
CallsReturn == \A t \in Caller : call[t] # Idle ~> (call[t] = Idle \/ failed)

\* A change of the status text reaches the panel, unless it is overtaken by
\* the next or a draw fails.
ChangesShown ==
    \A text \in Text : OnScreen = text ~>
        (OnScreen # text \/ failed \/ \A i \in Tile : panel[i].text = text)

=============================================================================
