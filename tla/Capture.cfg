SPECIFICATION Spec
CONSTANTS
    d1 = d1
    d2 = d2
    Displays = {d1, d2}
    Primary = d1
    Nowhere = Nowhere
    Unknown = "unknown"
    Windows <- MCWindows
    Desktops <- MCDesktops
    Defaults <- MCDefaults
    Files <- MCFiles
    Broken = Broken
    NoFrame = NoFrame
    MaxEvents = 2
CHECK_DEADLOCK FALSE
INVARIANTS
    TypeOK
    DefaultsAlwaysApply
    
    
    AtMostOneAfterPause
    NoSendOnClosed
PROPERTIES
    SeenEventually
    ReloadedEventually
    CaptureEnds
