\* The Phase 0 screen, then status screens, shown and updated in any
\* order; draws that may fail, after which LVGL waits for ever with the mutex.
CONSTANTS
    Caller <- MCCaller
    Shows = {"phase0", "phase1"}
    Ok <- MCOk
    Counts = {0, 1}
    Label <- MCLabel
    NoLabel = "NULL"
    Tiles = 2
    LVGL_TASK_MIN_DELAY_MS = 1
    LVGL_TASK_MAX_DELAY_MS = 2
    Delay = {0, 3}
    HRES = 1
    VRES = 1
    Raw = {0}
    DrawMayFail = TRUE
SPECIFICATION Spec
INVARIANTS
    StatusLabelAlive
    PanelShowsScreen
PROPERTIES
    CallsReturn
    ChangesShown
CHECK_DEADLOCK FALSE
