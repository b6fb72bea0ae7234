SPECIFICATION Spec
CONSTANTS
    d1 = d1
    d2 = d2
    Displays = {d1, d2}
    Primary = d1
    Nowhere = Nowhere
    Unknown = "unknown"
    Windows <- MCWindows
    Desktops <- BehindDesktops
    Defaults <- MCDefaults
    Files <- MCFiles
    Broken = Broken
    NoFrame = NoFrame
    MaxEvents = 0
CHECK_DEADLOCK FALSE
INVARIANTS
    BackgroundAppsBlock
