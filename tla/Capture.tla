------------------------------- MODULE Capture -------------------------------
(***************************************************************************)
(* internal/capture on Windows, from the privacy gate to the frame queue:  *)
(* one goroutine per monitor (capture_windows.go) asks the gate            *)
(* (privacy.go) about the windows on the screen, takes the pixels, masks a *)
(* focused password field and offers the frame to a channel of one place,  *)
(* from which a bridge (main.go) pushes it into the frame queue.  The gate *)
(* reads the compiled blocklist (filter/blocklist.go), which a file        *)
(* watcher replaces while the monitors run.                                *)
(*                                                                         *)
(* The desktop, the user and the blocklist file change at any point of a   *)
(* tick.  Which windows, which entries and which desktops there are is     *)
(* left to the constants.                                                  *)
(***************************************************************************)
EXTENDS Naturals, FiniteSets

CONSTANTS
    Displays,   \* the monitors
    Primary,    \* the monitor at the origin of the virtual screen
    Nowhere,    \* no monitor
    Unknown,    \* the program name and page of a window that cannot be read
    Windows,    \* records: program (an image name without .exe) and page
                \* (what its title and address bar say)
    Desktops,   \* what can be on the screen
    Defaults,   \* hardcodedDefaults: the entries that are always active
    Files,      \* what the blocklist file can hold: sets of entries
    Broken,     \* the file cannot be read, parsed or compiled
    NoFrame,    \* an empty channel
    MaxEvents   \* bound: changes of the environment in a behaviour

\* An entry matches a program, with or without its .exe, or a page.
Entry == [kind : {"app", "auth", "page"}, what : STRING, exe : BOOLEAN]
Window == [program : STRING, page : STRING]
NoWindow == [program |-> Unknown, page |-> Unknown]

\* A desktop: the foreground window, the visible windows, and the monitor on
\* which a password field has the focus.
Desktop == [fore : Windows \cup {NoWindow}, shown : SUBSET Windows,
            secret : Displays \cup {Nowhere}]

ASSUME DesktopsAssumption ==
    /\ Windows \subseteq Window
    /\ Unknown \in STRING
    /\ Desktops \subseteq Desktop
    /\ \A dk \in Desktops : dk.secret # Nowhere => dk.fore # NoWindow
ASSUME DisplaysAssumption ==
    /\ IsFiniteSet(Displays)
    /\ Primary \in Displays
    /\ Nowhere \notin Displays
ASSUME EntriesAssumption ==
    /\ Defaults \subseteq Entry
    /\ Files \subseteq SUBSET Entry
    /\ Broken \notin Files
ASSUME MaxEventsAssumption == MaxEvents \in Nat

\* A frame: who took it, the window context it is labelled with, the pixels,
\* and what went on around it since the tick began (history): the desktop
\* "moved" before the pixels were taken or changed "late", after them; a
\* query of the system was "blind".
Context == [program : STRING, page : STRING, role : BOOLEAN]
Excuses == {"moved", "late", "blind"}
Frame == [by : Displays, label : Context, img : Desktop, excuse : SUBSET Excuses]

\* A monitor inside its tick: where it is, the context it read, the background
\* windows it has yet to look up, its pixels, and the excuse so far.  Between
\* two ticks nothing of it is left.
TickState == [at : {"waiting", "back", "each", "pixels", "mask", "send", "done"},
              label : Context, todo : SUBSET Windows, img : Desktop,
              excuse : SUBSET Excuses]

ASSUME NoFrameAssumption == NoFrame \notin Frame

VARIABLES
    tick,       \* each monitor inside its tick: see Tick
    prev,       \* prevFrame: the pixels of the last frame it sent
    ch,         \* the channel of one place
    finished,   \* Run: how many monitors it has heard from
    closed,     \* is the channel closed?
    bridge,     \* the bridge goroutine: "ranging" or "ended"
    pushed,     \* history: the last pixels of each display that reached the queue
    list,       \* Blocklist.current: the active entries
    file,       \* the blocklist file
    event,      \* has the watcher an event to handle?
    paused,     \* Gate.paused
    sent,       \* history: frames each display sent since the pause
    desk,       \* the desktop
    stop,       \* is stopCh closed?
    events      \* environment changes so far

channel == <<ch, closed, bridge, pushed>>
blocklist == <<list, file, event>>
vars == <<tick, prev, channel, finished, blocklist, paused, sent, desk,
          stop, events>>

-----------------------------------------------------------------------------
\* Blocklist.Check.  An app entry is the whole name, an auth pattern occurs in
\* it; the program of a foreground window is looked up without its .exe.
NameMatches(e, program, exe) ==
    /\ e.what = program
    /\ \/ e.kind = "app" /\ e.exe = exe
       \/ e.kind = "auth" /\ (e.exe => exe)

ForegroundBlocked(entries, c) ==
    \/ c.role
    \/ \E e \in entries : \/ NameMatches(e, c.program, FALSE)
                          \/ e.kind = "page" /\ c.page # Unknown /\ e.what = c.page

\* queryVisibleBackgroundProcessesImpl gives the name with its .exe, and
\* nothing else.
BackgroundBlocked(entries, w) == \E e \in entries : NameMatches(e, w.program, TRUE)

\* mergeWithDefaults.
Merged(entries) == Defaults \cup entries

ContextOf(w, role) == [program |-> w.program, page |-> w.page, role |-> role]

HasPassword(dk) == dk.secret # Nowhere

\* What the picture of monitor d tells of a desktop.
PixelsOf(dk, d) == [dk EXCEPT !.secret = IF @ = d THEN d ELSE Nowhere]

NoTick == [at |-> "waiting", label |-> ContextOf(NoWindow, FALSE), todo |-> {},
           img |-> [fore |-> NoWindow, shown |-> {}, secret |-> Nowhere],
           excuse |-> {}]

-----------------------------------------------------------------------------
Free == UNCHANGED events
Event == events < MaxEvents /\ events' = events + 1

Init ==
    /\ desk \in Desktops
    /\ tick = [d \in Displays |-> NoTick]
    /\ prev = [d \in Displays |-> NoFrame]
    /\ ch = NoFrame /\ closed = FALSE /\ bridge = "ranging"
    /\ pushed = [d \in Displays |-> NoFrame]
    /\ finished = 0
    /\ file \in Files \cup {Broken}
    /\ list = IF file = Broken THEN Defaults ELSE Merged(file)
    /\ event = FALSE
    /\ paused = FALSE
    /\ sent = [d \in Displays |-> 0]
    /\ stop = FALSE /\ events = 0

TypeOK ==
    /\ tick \in [Displays -> TickState]
    /\ prev \in [Displays -> Desktop \cup {NoFrame}]
    /\ ch \in Frame \cup {NoFrame}
    /\ finished \in 0 .. Cardinality(Displays)
    /\ closed \in BOOLEAN /\ bridge \in {"ranging", "ended"}
    /\ pushed \in [Displays -> Desktop \cup {NoFrame}]
    /\ list \subseteq Entry /\ file \in Files \cup {Broken} /\ event \in BOOLEAN
    /\ paused \in BOOLEAN /\ sent \in [Displays -> Nat]
    /\ desk \in Desktops /\ stop \in BOOLEAN /\ events \in Nat

-----------------------------------------------------------------------------
\* A tick of monitor d.  A blocked one ends: captureFrame returns (nil, nil).
At(d, step) == tick[d].at = step
Continue(d, t) == tick' = [tick EXCEPT ![d] = t]
Goto(d, step) == Continue(d, [tick[d] EXCEPT !.at = step])
EndTick(d) == Continue(d, NoTick)

\* queryWindowContext, and the lookup of the foreground window.  The program
\* is "unknown" when the process cannot be opened, the address empty when it
\* cannot be read, the role none when UI Automation fails.
Look(d) ==
    /\ At(d, "waiting")
    /\ \E program \in {desk.fore.program, Unknown}, page \in {desk.fore.page, Unknown},
          role \in {HasPassword(desk), FALSE} :
        LET c == [program |-> program, page |-> page, role |-> role]
            clear == c = ContextOf(desk.fore, HasPassword(desk))
        IN
        /\ IF clear THEN Free ELSE Event
        /\ IF ForegroundBlocked(list, c)
           THEN EndTick(d)
           ELSE Continue(d, [NoTick EXCEPT !.at = "back", !.label = c,
                                           !.excuse = IF clear THEN {} ELSE {"blind"}])
    /\ UNCHANGED <<prev, channel, finished, blocklist, paused, sent, desk, stop>>

\* A bug to catch: only the foreground window counts.
Enumerate_Nothing(d) ==
    /\ At(d, "back")
    /\ Goto(d, "each")
    /\ UNCHANGED <<prev, channel, finished, blocklist, paused, sent, desk, stop, events>>

\* queryVisibleBackgroundProcesses: every visible window but the one that is
\* the foreground window by now.  A process that cannot be opened is skipped.
Enumerate(d) ==
    /\ At(d, "back")
    /\ LET others == desk.shown \ {desk.fore}
           found(ws, excuse) == Continue(d, [tick[d] EXCEPT !.at = "each", !.todo = ws,
                                                            !.excuse = @ \cup excuse])
       IN \/ found(others, {}) /\ Free
          \/ \E w \in others : found(others \ {w}, {"blind"}) /\ Event
    /\ UNCHANGED <<prev, channel, finished, blocklist, paused, sent, desk, stop>>

\* Every background process is looked up in the list as it then is.
LookUp(d) ==
    /\ At(d, "each")
    /\ \E w \in tick[d].todo :
        IF BackgroundBlocked(list, w)
        THEN EndTick(d)
        ELSE Continue(d, [tick[d] EXCEPT !.todo = @ \ {w}])
    /\ UNCHANGED <<prev, channel, finished, blocklist, paused, sent, desk, stop, events>>

\* A bug to catch: the pause is not looked at.
Pass_IgnoresPause(d) ==
    /\ At(d, "each") /\ tick[d].todo = {}
    /\ Goto(d, "pixels")
    /\ UNCHANGED <<prev, channel, finished, blocklist, paused, sent, desk, stop, events>>

\* The end of Check: the pause is looked at last.
Pass(d) ==
    /\ At(d, "each") /\ tick[d].todo = {}
    /\ IF paused THEN EndTick(d) ELSE Goto(d, "pixels")
    /\ UNCHANGED <<prev, channel, finished, blocklist, paused, sent, desk, stop, events>>

\* DXGI, or GDI when it has no picture; an error of GDI ends the tick.
TakePixels(d) ==
    /\ At(d, "pixels")
    /\ \/ Continue(d, [tick[d] EXCEPT !.at = "mask", !.img = PixelsOf(desk, d)]) /\ Free
       \/ EndTick(d) /\ Event
    /\ UNCHANGED <<prev, channel, finished, blocklist, paused, sent, desk, stop>>

\* maskRect takes a rectangle of the virtual screen for one of the picture:
\* the picture of the monitor at the origin is the only one it fits.
Blackened(d) ==
    IF d = Primary /\ desk.secret = d THEN [tick[d].img EXCEPT !.secret = Nowhere]
                                      ELSE tick[d].img

\* A bug to catch: the mask is left out.
Mask_Nothing(d) ==
    /\ At(d, "mask")
    /\ Goto(d, "send")
    /\ UNCHANGED <<prev, channel, finished, blocklist, paused, sent, desk, stop, events>>

\* The mask goes over a field that has the focus now; when UI Automation
\* fails, over none.
Mask(d) ==
    /\ At(d, "mask")
    /\ \/ /\ Continue(d, [tick[d] EXCEPT !.at = "send", !.img = Blackened(d)])
          /\ Free
       \/ /\ Continue(d, [tick[d] EXCEPT !.at = "send", !.excuse = @ \cup {"blind"}])
          /\ Event
    /\ UNCHANGED <<prev, channel, finished, blocklist, paused, sent, desk, stop>>

FrameOf(d) == [by |-> d, label |-> tick[d].label, img |-> tick[d].img,
               excuse |-> tick[d].excuse]
IsNew(d) == prev[d] # tick[d].img
Offer(d) ==
    /\ ch' = FrameOf(d)
    /\ sent' = [sent EXCEPT ![d] = IF paused THEN @ + 1 ELSE @]

\* A bug to catch: a frame the channel had no room for counts as sent.
Send_RemembersDropped(d) ==
    /\ At(d, "send")
    /\ IF IsNew(d) /\ ch = NoFrame THEN Offer(d) ELSE UNCHANGED <<ch, sent>>
    /\ prev' = [prev EXCEPT ![d] = tick[d].img]
    /\ EndTick(d)
    /\ UNCHANGED <<closed, bridge, pushed, finished, blocklist, paused, desk, stop, events>>

\* The rest of run's loop: a duplicate of the last frame sent is dropped, and
\* so is a frame the channel has no room for.
Send(d) ==
    /\ At(d, "send")
    /\ IF IsNew(d) /\ ch = NoFrame
       THEN Offer(d) /\ prev' = [prev EXCEPT ![d] = tick[d].img]
       ELSE UNCHANGED <<ch, sent, prev>>
    /\ EndTick(d)
    /\ UNCHANGED <<closed, bridge, pushed, finished, blocklist, paused, desk, stop, events>>

-----------------------------------------------------------------------------
\* Bugs to catch: a monitor that returns without reporting to Run, or that
\* reports and goes on.
Finish_Silent(d) ==
    /\ At(d, "waiting")
    /\ stop
    /\ Goto(d, "done")
    /\ UNCHANGED <<prev, channel, finished, blocklist, paused, sent, desk, stop, events>>

Finish_GoesOn(d) ==
    /\ At(d, "waiting")
    /\ stop
    /\ Goto(d, "waiting")
    /\ finished' = finished + 1
    /\ UNCHANGED <<prev, channel, blocklist, paused, sent, desk, stop, events>>

\* A monitor sees stopCh between two ticks and reports to Run.
Finish(d) ==
    /\ At(d, "waiting")
    /\ stop
    /\ Goto(d, "done")
    /\ finished' = finished + 1
    /\ UNCHANGED <<prev, channel, blocklist, paused, sent, desk, stop, events>>

\* A bug to catch: Run returns when the first monitor has.
CloseChannel_AfterFirst ==
    /\ finished > 0 /\ ~closed
    /\ closed' = TRUE
    /\ UNCHANGED <<tick, prev, ch, bridge, pushed, finished, blocklist, paused, sent, desk, stop, events>>

\* Run has heard from every monitor, and runCaptureLoop closes the channel.
CloseChannel ==
    /\ finished = Cardinality(Displays) /\ ~closed
    /\ closed' = TRUE
    /\ UNCHANGED <<tick, prev, ch, bridge, pushed, finished, blocklist, paused, sent, desk, stop, events>>

\* The bridge: for f := range ch { q.Push(f) }.
Forward ==
    /\ bridge = "ranging" /\ ch # NoFrame
    /\ pushed' = [pushed EXCEPT ![ch.by] = ch.img]
    /\ ch' = NoFrame
    /\ UNCHANGED <<tick, prev, closed, bridge, finished, blocklist, paused, sent, desk, stop, events>>

BridgeEnds ==
    /\ bridge = "ranging" /\ ch = NoFrame /\ closed
    /\ bridge' = "ended"
    /\ UNCHANGED <<tick, prev, ch, closed, pushed, finished, blocklist, paused, sent, desk, stop, events>>

\* Bugs to catch: a file that cannot be loaded leaves no entries; what the
\* file no longer holds stays active.
Reload_FailsOpen ==
    /\ event
    /\ event' = FALSE
    /\ list' = IF file = Broken THEN {} ELSE Merged(file)
    /\ UNCHANGED <<tick, prev, channel, finished, file, paused, sent, desk, stop, events>>

Reload_Accumulates ==
    /\ event
    /\ event' = FALSE
    /\ list' = IF file = Broken THEN list ELSE list \cup file
    /\ UNCHANGED <<tick, prev, channel, finished, file, paused, sent, desk, stop, events>>

\* The watcher's loadFromFile: on an error the old list stays.
Reload ==
    /\ event
    /\ event' = FALSE
    /\ list' = IF file = Broken THEN list ELSE Merged(file)
    /\ UNCHANGED <<tick, prev, channel, finished, file, paused, sent, desk, stop, events>>

-----------------------------------------------------------------------------
\* The user: another desktop, the tray's pause and resume, an edit of the
\* blocklist file (each write makes an event), and the end of the daemon.
Move ==
    /\ Event
    /\ desk' \in Desktops \ {desk}
    /\ tick' = [d \in Displays |-> [tick[d] EXCEPT !.excuse = @ \cup
                    CASE tick[d].at \in {"back", "each", "pixels"} -> {"moved"}
                      [] tick[d].at = "mask" -> {"late"}
                      [] OTHER -> {}]]
    /\ UNCHANGED <<prev, channel, finished, blocklist, paused, sent, stop>>

Pause ==
    /\ Event
    /\ ~paused /\ paused' = TRUE
    /\ sent' = [d \in Displays |-> 0]
    /\ UNCHANGED <<tick, prev, channel, finished, blocklist, desk, stop>>

Resume ==
    /\ Event
    /\ paused /\ paused' = FALSE
    /\ UNCHANGED <<tick, prev, channel, finished, blocklist, sent, desk, stop>>

Edit ==
    /\ Event
    /\ file' \in (Files \cup {Broken}) \ {file}
    /\ event' = TRUE
    /\ UNCHANGED <<tick, prev, channel, finished, list, paused, sent, desk, stop>>

StopDaemon ==
    /\ ~stop /\ stop' = TRUE
    /\ UNCHANGED <<tick, prev, channel, finished, blocklist, paused, sent, desk, events>>

Tick(d) == \/ Look(d) \/ Enumerate(d) \/ LookUp(d) \/ Pass(d)
           \/ TakePixels(d) \/ Mask(d) \/ Send(d)

Environment == Move \/ Pause \/ Resume \/ Edit \/ StopDaemon

Next ==
    \/ \E d \in Displays : Tick(d) \/ Finish(d)
    \/ CloseChannel \/ Forward \/ BridgeEnds \/ Reload
    \/ Environment

\* A ticker goes on ticking and a goroutine that can run runs.  A monitor with
\* both a tick and a closed stopCh before it chooses at random: it does not
\* choose the tick for ever.
Fairness ==
    /\ \A d \in Displays : WF_vars(Tick(d)) /\ SF_vars(Finish(d))
    /\ WF_vars(CloseChannel) /\ WF_vars(Forward) /\ WF_vars(BridgeEnds)
    /\ WF_vars(Reload)

Spec == Init /\ [][Next]_vars /\ Fairness

-----------------------------------------------------------------------------
\* No frame is labelled with a window the hardcoded entries block, whatever
\* the file holds or has held and however its reloads ended (mergeWithDefaults,
\* loadFromFile).
DefaultsAlwaysApply == ch # NoFrame => ~ForegroundBlocked(Defaults, ch.label)

\* What the gate looks at before the pixels is all that stands between a
\* blocked window and a frame: a frame shows one only if the desktop changed
\* between the two, or a query failed (captureFrame takes the pixels later).
BlockedShownOnlyAfterChange ==
    (ch # NoFrame /\ ch.excuse \cap {"moved", "blind"} = {}) =>
        /\ ~ForegroundBlocked(Defaults, ContextOf(ch.img.fore, HasPassword(ch.img)))
        /\ \A w \in ch.img.shown \ {ch.img.fore} : ~BackgroundBlocked(Defaults, w)

\* A password field that got the focus after the gate had passed is black in
\* the frames of the primary monitor if it keeps the focus until the mask
\* (captureFrame masks before it hashes and sends).
MaskedOnPrimary ==
    (ch # NoFrame /\ ch.by = Primary /\ ch.excuse \cap {"late", "blind"} = {}) =>
        ~HasPassword(ch.img)

\* Once the user has paused, each monitor sends at most the one frame whose
\* tick was past the gate already (Gate.Pause against Check).
AtMostOneAfterPause == paused => \A d \in Displays : sent[d] <= 1

\* No monitor sends on the channel that runCaptureLoop has closed: that would
\* end the daemon with a panic.
NoSendOnClosed == closed => \A d \in Displays : At(d, "done")

\* What privacy.go:104 says of background windows: a visible program of the
\* list blocks the frame though another window is in the foreground.
BackgroundAppsBlock ==
    (ch # NoFrame /\ ch.excuse = {}) =>
        \A w \in ch.img.shown, e \in Defaults : e.kind = "app" => e.what # w.program

Permitted ==
    /\ ~ForegroundBlocked(list, ContextOf(desk.fore, HasPassword(desk)))
    /\ \A w \in desk.shown \ {desk.fore} : ~BackgroundBlocked(list, w)

\* A permitted screen that stays as it is reaches the queue from every
\* monitor, though a monitor drops what the channel has no room for and
\* compares with what it sent last (run).
SeenEventually ==
    \A d \in Displays :
        <>[](Permitted /\ ~paused /\ ~stop) => <>[](pushed[d] = PixelsOf(desk, d))

\* The active list follows the file: what a loadable file ends up holding is
\* what is active, on top of the hardcoded entries (watchFile).
ReloadedEventually == <>[](file # Broken) => <>[](file # Broken /\ list = Merged(file))

\* After a stop the monitors end, the channel is closed and the bridge has
\* pushed all it held (Run, runCaptureLoop).
CaptureEnds == stop ~> bridge = "ended" /\ ch = NoFrame
=============================================================================
