\* Two frames of any kind while a task reports.  No more frames come.
CONSTANTS
    Reader <- MCReader
    Frames <- MCFrames
    MaxReceived = 2
    MaxRecords = 2
SPECIFICATION RxSpec
INVARIANTS
    ReportsAddUp
    FeedsAccounted
PROPERTIES
    ReportsNeverGoBack
CHECK_DEADLOCK FALSE
