--------------------------- MODULE CaptureProofs ---------------------------
(***************************************************************************)
(* What Capture promises for any monitors, windows, entries and files: the *)
(* frames it sends passed the hardcoded entries, show a blocked window     *)
(* only when the desktop changed behind the gate's back, hide a focused    *)
(* password field on the primary monitor, stop with the pause but for one, *)
(* and are never sent on a closed channel.                                 *)
(***************************************************************************)
EXTENDS Capture, FiniteSetTheorems, TLAPS

Done == {d \in Displays : At(d, "done")}

\* Run has counted the monitors that are done.
Counted == finished = Cardinality(Done)

\* TypeOK but for the bound on finished, which follows from the count.
Typed ==
    /\ tick \in [Displays -> TickState]
    /\ prev \in [Displays -> Desktop \cup {NoFrame}]
    /\ ch \in Frame \cup {NoFrame}
    /\ finished \in Nat
    /\ closed \in BOOLEAN /\ bridge \in {"ranging", "ended"}
    /\ pushed \in [Displays -> Desktop \cup {NoFrame}]
    /\ list \subseteq Entry /\ file \in Files \cup {Broken} /\ event \in BOOLEAN
    /\ paused \in BOOLEAN /\ sent \in [Displays -> Nat]
    /\ desk \in Desktops /\ stop \in BOOLEAN /\ events \in Nat

\* A tick begins and ends with nothing in hand.
LEMMA NoTickType == NoTick \in TickState /\ NoTick.at = "waiting"
<1>1. ContextOf(NoWindow, FALSE) \in Context
  BY DesktopsAssumption DEF ContextOf, NoWindow, Context
<1>2. [fore |-> NoWindow, shown |-> {}, secret |-> Nowhere] \in Desktop
  BY DEF Desktop
<1>. QED
  BY <1>1, <1>2 DEF NoTick, TickState

\* A picture of a desktop is a desktop.
LEMMA PixelsType ==
    ASSUME NEW d \in Displays, NEW dk \in Desktops
    PROVE  /\ PixelsOf(dk, d) \in Desktop
           /\ PixelsOf(dk, d).fore = dk.fore
           /\ PixelsOf(dk, d).shown = dk.shown
           /\ PixelsOf(dk, d).secret = IF dk.secret = d THEN d ELSE Nowhere
<1>1. dk \in Desktop
  BY DesktopsAssumption
<1>. QED
  BY <1>1 DEF PixelsOf, Desktop

\* One monitor's tick changes, the others' do not.
LEMMA ContinueType ==
    ASSUME tick \in [Displays -> TickState], NEW d \in Displays,
           NEW t \in TickState, Continue(d, t)
    PROVE  /\ tick' \in [Displays -> TickState]
           /\ tick'[d] = t
           /\ \A e \in Displays : e # d => tick'[e] = tick[e]
BY DEF Continue

\* What each step of a tick makes of the monitor's state.
Stepped(d, t) == /\ t \in TickState
                 /\ tick'[d] = t
                 /\ tick' \in [Displays -> TickState]
                 /\ \A e \in Displays : e # d => tick'[e] = tick[e]

LEMMA LookStep ==
    ASSUME Typed, NEW d \in Displays, Look(d)
    PROVE  \/ Stepped(d, NoTick)
           \/ \E c \in Context, blind \in {{}, {"blind"}} :
                /\ Stepped(d, [NoTick EXCEPT !.at = "back", !.label = c, !.excuse = blind])
                /\ ~ForegroundBlocked(list, c)
                /\ blind = {} => c = ContextOf(desk.fore, HasPassword(desk))
<1>. USE DEF Typed
<1>0. desk \in Desktop
  BY DesktopsAssumption
<1>1. /\ desk.fore \in Windows \cup {NoWindow}
      /\ desk.fore.program \in STRING /\ desk.fore.page \in STRING
  BY <1>0, DesktopsAssumption DEF Desktop, Window, NoWindow
<1>2. HasPassword(desk) \in BOOLEAN
  BY DEF HasPassword
<1>3. PICK program \in {desk.fore.program, Unknown}, page \in {desk.fore.page, Unknown},
           role \in {HasPassword(desk), FALSE} :
        LET c == [program |-> program, page |-> page, role |-> role]
            clear == c = ContextOf(desk.fore, HasPassword(desk))
        IN IF ForegroundBlocked(list, c)
           THEN EndTick(d)
           ELSE Continue(d, [NoTick EXCEPT !.at = "back", !.label = c,
                                           !.excuse = IF clear THEN {} ELSE {"blind"}])
  BY DEF Look
<1>. DEFINE c == [program |-> program, page |-> page, role |-> role]
            blind == IF c = ContextOf(desk.fore, HasPassword(desk)) THEN {} ELSE {"blind"}
            t == [NoTick EXCEPT !.at = "back", !.label = c, !.excuse = blind]
<1>4. c \in Context
  BY <1>1, <1>2, DesktopsAssumption DEF Context
<1>5. blind \in {{}, {"blind"}} /\ (blind = {} => c = ContextOf(desk.fore, HasPassword(desk)))
  OBVIOUS
<1>6. t \in TickState
  BY <1>4, <1>5, NoTickType DEF TickState, Excuses
<1>. HIDE DEF c, blind, t
<1>7. CASE ForegroundBlocked(list, c)
  <2>1. Continue(d, NoTick)
    BY <1>3, <1>7 DEF c, EndTick
  <2>. QED
    BY <2>1, ContinueType, NoTickType DEF Stepped
<1>8. CASE ~ForegroundBlocked(list, c)
  <2>1. Continue(d, t)
    BY <1>3, <1>8 DEF c, blind, t
  <2>2. Stepped(d, t)
    BY <2>1, <1>6, ContinueType DEF Stepped
  <2>. QED
    BY <2>2, <1>4, <1>5, <1>8 DEF t
<1>. QED
  BY <1>7, <1>8

LEMMA EnumerateStep ==
    ASSUME Typed, NEW d \in Displays, Enumerate(d)
    PROVE  \E ws \in SUBSET Windows, blind \in {{}, {"blind"}} :
            /\ Stepped(d, [tick[d] EXCEPT !.at = "each", !.todo = ws,
                                          !.excuse = @ \cup blind])
            /\ blind = {} => ws = desk.shown \ {desk.fore}
<1>. USE DEF Typed
<1>1. desk.shown \subseteq Windows
  BY DesktopsAssumption DEF Desktop
<1>2. PICK ws \in SUBSET Windows, blind \in {{}, {"blind"}} :
        /\ Continue(d, [tick[d] EXCEPT !.at = "each", !.todo = ws, !.excuse = @ \cup blind])
        /\ blind = {} => ws = desk.shown \ {desk.fore}
  BY <1>1 DEF Enumerate
<1>. DEFINE t == [tick[d] EXCEPT !.at = "each", !.todo = ws, !.excuse = @ \cup blind]
<1>3. t \in TickState
  BY DEF TickState, Excuses
<1>4. Stepped(d, t)
  BY <1>2, <1>3, ContinueType DEF Stepped
<1>. QED
  BY <1>2, <1>4

LEMMA LookUpStep ==
    ASSUME Typed, NEW d \in Displays, LookUp(d)
    PROVE  \/ Stepped(d, NoTick)
           \/ \E w \in tick[d].todo :
                /\ ~BackgroundBlocked(list, w)
                /\ Stepped(d, [tick[d] EXCEPT !.todo = @ \ {w}])
<1>. USE DEF Typed
<1>1. PICK w \in tick[d].todo :
        IF BackgroundBlocked(list, w)
        THEN Continue(d, NoTick)
        ELSE Continue(d, [tick[d] EXCEPT !.todo = @ \ {w}])
  BY DEF LookUp, EndTick
<1>2. [tick[d] EXCEPT !.todo = @ \ {w}] \in TickState
  BY DEF TickState
<1>. QED
  BY <1>1, <1>2, ContinueType, NoTickType DEF Stepped

LEMMA PassStep ==
    ASSUME Typed, NEW d \in Displays, Pass(d)
    PROVE  /\ tick[d].at = "each" /\ tick[d].todo = {}
           /\ \/ Stepped(d, NoTick)
              \/ ~paused /\ Stepped(d, [tick[d] EXCEPT !.at = "pixels"])
<1>1. [tick[d] EXCEPT !.at = "pixels"] \in TickState
  BY DEF Typed, TickState
<1>. QED
  BY <1>1, ContinueType, NoTickType DEF Typed, Pass, At, EndTick, Goto, Stepped

LEMMA TakePixelsStep ==
    ASSUME Typed, NEW d \in Displays, TakePixels(d)
    PROVE  \/ Stepped(d, NoTick)
           \/ Stepped(d, [tick[d] EXCEPT !.at = "mask", !.img = PixelsOf(desk, d)])
<1>0. tick[d] \in TickState /\ PixelsOf(desk, d) \in Desktop
  BY PixelsType DEF Typed
<1>1. [tick[d] EXCEPT !.at = "mask", !.img = PixelsOf(desk, d)] \in TickState
  BY <1>0 DEF TickState
<1>. QED
  BY <1>1, ContinueType, NoTickType DEF Typed, TakePixels, EndTick, Stepped

LEMMA BlackenedType ==
    ASSUME Typed, NEW d \in Displays
    PROVE  /\ Blackened(d) \in Desktop
           /\ Blackened(d).fore = tick[d].img.fore
           /\ Blackened(d).shown = tick[d].img.shown
           /\ Blackened(d).secret = IF d = Primary /\ desk.secret = d THEN Nowhere
                                    ELSE tick[d].img.secret
<1>1. tick[d].img \in Desktop
  BY DEF Typed, TickState
<1>. QED
  BY <1>1 DEF Blackened, Desktop

LEMMA MaskStep ==
    ASSUME Typed, NEW d \in Displays, Mask(d)
    PROVE  \/ Stepped(d, [tick[d] EXCEPT !.at = "send", !.img = Blackened(d)])
           \/ Stepped(d, [tick[d] EXCEPT !.at = "send", !.excuse = @ \cup {"blind"}])
<1>0. tick[d] \in TickState /\ Blackened(d) \in Desktop
  BY BlackenedType DEF Typed
<1>1. /\ [tick[d] EXCEPT !.at = "send", !.img = Blackened(d)] \in TickState
      /\ [tick[d] EXCEPT !.at = "send", !.excuse = @ \cup {"blind"}] \in TickState
  BY <1>0 DEF TickState, Excuses
<1>. QED
  BY <1>1, ContinueType DEF Typed, Mask, Stepped

LEMMA SendStep ==
    ASSUME Typed, NEW d \in Displays, Send(d)
    PROVE  /\ Stepped(d, NoTick)
           /\ FrameOf(d) \in Frame
           /\ \/ UNCHANGED <<ch, sent, prev>>
              \/ /\ ch' = FrameOf(d)
                 /\ sent' = [sent EXCEPT ![d] = IF paused THEN @ + 1 ELSE @]
                 /\ prev' = [prev EXCEPT ![d] = tick[d].img]
<1>1. FrameOf(d) \in Frame
  BY DEF Typed, FrameOf, Frame, TickState
<1>2. Stepped(d, NoTick)
  BY ContinueType, NoTickType DEF Typed, Send, EndTick, Stepped
<1>. QED
  BY <1>1, <1>2 DEF Send, Offer

LEMMA FinishStep ==
    ASSUME Typed, NEW d \in Displays, Finish(d)
    PROVE  Stepped(d, [tick[d] EXCEPT !.at = "done"])
<1>1. [tick[d] EXCEPT !.at = "done"] \in TickState
  BY DEF Typed, TickState
<1>. QED
  BY <1>1, ContinueType DEF Typed, Finish, Goto, Stepped

\* A change of the desktop leaves every monitor where it is, with an excuse
\* that tells when the change came.
LEMMA MoveStep ==
    ASSUME Typed, Move
    PROVE  \A d \in Displays : \E more \in SUBSET Excuses :
            /\ tick' \in [Displays -> TickState]
            /\ tick'[d] = [tick[d] EXCEPT !.excuse = @ \cup more]
            /\ tick[d].at \in {"back", "each", "pixels"} => "moved" \in more
            /\ tick[d].at = "mask" => "late" \in more
<1>. DEFINE more(d) == CASE tick[d].at \in {"back", "each", "pixels"} -> {"moved"}
                         [] tick[d].at = "mask" -> {"late"}
                         [] OTHER -> {}
<1>1. \A d \in Displays :
        /\ more(d) \in SUBSET Excuses
        /\ tick[d].at \in {"back", "each", "pixels"} => "moved" \in more(d)
        /\ tick[d].at = "mask" => "late" \in more(d)
  BY DEF Excuses
<1>2. tick' = [d \in Displays |-> [tick[d] EXCEPT !.excuse = @ \cup more(d)]]
  BY DEF Move
<1>. HIDE DEF more
<1>3. \A d \in Displays : [tick[d] EXCEPT !.excuse = @ \cup more(d)] \in TickState
  BY <1>1 DEF Typed, TickState
<1>. QED
  BY <1>1, <1>2, <1>3

-----------------------------------------------------------------------------
LEMMA TypedInvariant == Typed /\ [Next]_vars => Typed'
<1>. SUFFICES ASSUME Typed, [Next]_vars PROVE Typed'
  OBVIOUS
<1>. USE DEF Typed
<1>1. ASSUME NEW d \in Displays, Look(d) PROVE Typed'
  <2>1. tick' \in [Displays -> TickState]
    BY <1>1, LookStep DEF Stepped
  <2>. QED
    BY <1>1, <2>1 DEF Look, Free, Event, channel, blocklist
<1>2. ASSUME NEW d \in Displays, Enumerate(d) PROVE Typed'
  <2>1. tick' \in [Displays -> TickState]
    BY <1>2, EnumerateStep DEF Stepped
  <2>2. events' \in {events, events + 1}
    BY <1>2, Zenon DEF Enumerate, Free, Event
  <2>3. UNCHANGED <<prev, channel, finished, blocklist, paused, sent, desk, stop>>
    BY <1>2 DEF Enumerate
  <2>. QED
    BY <2>1, <2>2, <2>3 DEF channel, blocklist
<1>3. ASSUME NEW d \in Displays, LookUp(d) PROVE Typed'
  <2>1. tick' \in [Displays -> TickState]
    BY <1>3, LookUpStep DEF Stepped
  <2>. QED
    BY <1>3, <2>1 DEF LookUp, channel, blocklist
<1>4. ASSUME NEW d \in Displays, Pass(d) PROVE Typed'
  <2>1. tick' \in [Displays -> TickState]
    BY <1>4, PassStep DEF Stepped
  <2>. QED
    BY <1>4, <2>1 DEF Pass, channel, blocklist
<1>5. ASSUME NEW d \in Displays, TakePixels(d) PROVE Typed'
  <2>1. tick' \in [Displays -> TickState]
    BY <1>5, TakePixelsStep DEF Stepped
  <2>. QED
    BY <1>5, <2>1 DEF TakePixels, Free, Event, channel, blocklist
<1>6. ASSUME NEW d \in Displays, Mask(d) PROVE Typed'
  <2>1. tick' \in [Displays -> TickState]
    BY <1>6, MaskStep DEF Stepped
  <2>. QED
    BY <1>6, <2>1 DEF Mask, Free, Event, channel, blocklist
<1>7. ASSUME NEW d \in Displays, Send(d) PROVE Typed'
  <2>1. tick' \in [Displays -> TickState]
    BY <1>7, SendStep DEF Stepped
  <2>2. tick[d].img \in Desktop
    BY DEF TickState
  <2>. QED
    BY <1>7, <2>1, <2>2, SendStep DEF Send, blocklist
<1>8. ASSUME NEW d \in Displays, Finish(d) PROVE Typed'
  <2>1. tick' \in [Displays -> TickState]
    BY <1>8, FinishStep DEF Stepped
  <2>. QED
    BY <1>8, <2>1 DEF Finish, channel, blocklist
<1>9. CASE Move
  <2>1. tick' \in [Displays -> TickState]
    BY <1>9, MoveStep, DisplaysAssumption
  <2>. QED
    BY <1>9, <2>1 DEF Move, Event, channel, blocklist
<1>10. CASE Forward
  <2>1. ch.by \in Displays /\ ch.img \in Desktop
    BY <1>10 DEF Forward, Frame
  <2>. QED
    BY <1>10, <2>1 DEF Forward, blocklist
<1>11. CASE CloseChannel \/ BridgeEnds
  BY <1>11 DEF CloseChannel, BridgeEnds, blocklist
<1>14. CASE Pause \/ Resume
  <2>1. sent' = [d \in Displays |-> 0] \/ sent' = sent
    BY <1>14 DEF Pause, Resume
  <2>4. paused' \in BOOLEAN
    BY <1>14, Zenon DEF Pause, Resume
  <2>2. events' = events + 1
    BY <1>14 DEF Pause, Resume, Event
  <2>3. UNCHANGED <<tick, prev, channel, finished, blocklist, desk, stop>>
    BY <1>14 DEF Pause, Resume
  <2>. QED
    BY <2>1, <2>2, <2>3, <2>4 DEF channel, blocklist
<1>15. CASE StopDaemon
  BY <1>15 DEF StopDaemon, channel, blocklist
<1>16. CASE UNCHANGED vars
  BY <1>16 DEF vars, channel, blocklist
<1>12. CASE Reload
  <2>1. file # Broken => Merged(file) \subseteq Entry
    BY EntriesAssumption DEF Merged
  <2>. QED
    BY <1>12, <2>1 DEF Reload, channel
<1>13. CASE Edit
  BY <1>13 DEF Edit, Event, channel
<1>. QED
  BY <1>1, <1>2, <1>3, <1>4, <1>5, <1>6, <1>7, <1>8, <1>9, <1>10, <1>11, <1>12, <1>13,
     <1>14, <1>15, <1>16
  DEF Next, Tick, Environment

\* The variables of Capture keep their types.
THEOREM TypedAlways == Spec => []Typed
<1>1. Init => Typed
  <2>1. [d \in Displays |-> NoTick] \in [Displays -> TickState]
    BY NoTickType
  <2>2. file \in Files \cup {Broken} =>
          (IF file = Broken THEN Defaults ELSE Merged(file)) \subseteq Entry
    BY EntriesAssumption DEF Merged
  <2>. SUFFICES ASSUME Init PROVE Typed
    OBVIOUS
  <2>3. /\ tick \in [Displays -> TickState]
        /\ list \subseteq Entry /\ file \in Files \cup {Broken}
    BY <2>1, <2>2 DEF Init
  <2>4. closed \in BOOLEAN /\ event \in BOOLEAN /\ paused \in BOOLEAN /\ stop \in BOOLEAN
    BY Zenon DEF Init
  <2>5. /\ prev \in [Displays -> Desktop \cup {NoFrame}]
        /\ pushed \in [Displays -> Desktop \cup {NoFrame}]
        /\ sent \in [Displays -> Nat]
        /\ ch \in Frame \cup {NoFrame} /\ bridge \in {"ranging", "ended"}
        /\ desk \in Desktops /\ finished \in Nat /\ events \in Nat
    BY DEF Init
  <2>. QED
    BY <2>3, <2>4, <2>5, Zenon DEF Typed
<1>. QED
  BY <1>1, TypedInvariant, PTL DEF Spec

-----------------------------------------------------------------------------
\* The count of Run, and what follows from it.
CountInv == Counted /\ NoSendOnClosed

LEMMA TickKeepsDone ==
    ASSUME Typed, NEW d \in Displays, Tick(d)
    PROVE  Done' = Done /\ UNCHANGED <<finished, closed>>
<1>. DEFINE Alone == \A e \in Displays : e # d => tick'[e] = tick[e]
<1>1. (Alone /\ tick[d].at # "done" /\ tick'[d].at # "done") => Done' = Done
  BY DEF Done, At
<1>0. tick[d] \in TickState /\ NoTick \in TickState /\ NoTick.at = "waiting"
  BY NoTickType DEF Typed
<1>2. CASE Look(d)
  <2>1. Alone /\ tick'[d].at # "done"
    BY <1>0, <1>2, LookStep DEF Stepped, TickState
  <2>2. tick[d].at # "done" /\ UNCHANGED <<finished, closed>>
    BY <1>2 DEF Look, At, channel
  <2>. QED
    BY <1>1, <2>1, <2>2
<1>3. CASE Enumerate(d)
  <2>1. Alone /\ tick'[d].at # "done"
    BY <1>0, <1>3, EnumerateStep DEF Stepped, TickState
  <2>2. tick[d].at # "done" /\ UNCHANGED <<finished, closed>>
    BY <1>3 DEF Enumerate, At, channel
  <2>. QED
    BY <1>1, <2>1, <2>2
<1>4. CASE LookUp(d)
  <2>1. Alone /\ tick'[d].at # "done"
    BY <1>0, <1>4, LookUpStep DEF Stepped, TickState, LookUp, At
  <2>2. tick[d].at # "done" /\ UNCHANGED <<finished, closed>>
    BY <1>4 DEF LookUp, At, channel
  <2>. QED
    BY <1>1, <2>1, <2>2
<1>5. CASE Pass(d)
  <2>1. Alone /\ tick'[d].at # "done"
    BY <1>0, <1>5, PassStep DEF Stepped, TickState
  <2>2. tick[d].at # "done" /\ UNCHANGED <<finished, closed>>
    BY <1>5 DEF Pass, At, channel
  <2>. QED
    BY <1>1, <2>1, <2>2
<1>6. CASE TakePixels(d)
  <2>1. Alone /\ tick'[d].at # "done"
    BY <1>0, <1>6, TakePixelsStep DEF Stepped, TickState
  <2>2. tick[d].at # "done" /\ UNCHANGED <<finished, closed>>
    BY <1>6 DEF TakePixels, At, channel
  <2>. QED
    BY <1>1, <2>1, <2>2
<1>7. CASE Mask(d)
  <2>1. Alone /\ tick'[d].at # "done"
    BY <1>0, <1>7, MaskStep DEF Stepped, TickState
  <2>2. tick[d].at # "done" /\ UNCHANGED <<finished, closed>>
    BY <1>7 DEF Mask, At, channel
  <2>. QED
    BY <1>1, <2>1, <2>2
<1>8. CASE Send(d)
  BY <1>0, <1>1, <1>8, SendStep DEF Send, At, Stepped
<1>. QED
  BY <1>2, <1>3, <1>4, <1>5, <1>6, <1>7, <1>8 DEF Tick

LEMMA CountInvariant == Typed /\ CountInv /\ [Next]_vars => CountInv'
<1>. SUFFICES ASSUME Typed, CountInv, [Next]_vars PROVE CountInv'
  OBVIOUS
<1>. USE DEF CountInv
<1>0. /\ IsFiniteSet(Done) /\ Done \in SUBSET Displays
      /\ closed <=> closed = TRUE
      /\ NoSendOnClosed <=> (closed => Done = Displays)
      /\ NoSendOnClosed' <=> (closed' => Done' = Displays)
  BY DisplaysAssumption, FS_Subset DEF Done, NoSendOnClosed, Typed
<1>1. ASSUME NEW d \in Displays, Tick(d) PROVE CountInv'
  BY <1>0, <1>1, TickKeepsDone DEF Counted
<1>2. ASSUME NEW d \in Displays, Finish(d) PROVE CountInv'
  <2>1. d \notin Done
    BY <1>2 DEF Finish, Done, At
  <2>2. Done' = Done \cup {d}
    <3>1. Stepped(d, [tick[d] EXCEPT !.at = "done"]) /\ tick[d] \in TickState
      BY <1>2, FinishStep DEF Typed
    <3>. QED
      BY <3>1 DEF Stepped, Done, At, TickState
  <2>3. Cardinality(Done') = Cardinality(Done) + 1
    BY <1>0, <2>1, <2>2, FS_AddElement
  <2>4. finished' = finished + 1 /\ closed' = closed
    BY <1>2 DEF Finish, channel
  <2>5. ~closed
    BY <1>0, <2>1
  <2>. QED
    BY <1>0, <2>3, <2>4, <2>5 DEF Counted
<1>3. CASE CloseChannel
  <2>1. Done' = Done /\ finished' = finished /\ finished = Cardinality(Displays)
    BY <1>3 DEF CloseChannel, Done, At
  <2>2. Done = Displays
    BY <1>0, <2>1, DisplaysAssumption, FS_Subset DEF Counted
  <2>. QED
    BY <1>0, <2>1, <2>2 DEF Counted
<1>4. CASE Move
  <2>1. \A d \in Displays : tick'[d].at = tick[d].at
    BY <1>4, MoveStep DEF Typed, TickState
  <2>2. Done' = Done
    BY <2>1 DEF Done, At
  <2>. QED
    BY <1>0, <1>4, <2>2 DEF Move, Counted, channel
<1>5. CASE Forward \/ BridgeEnds \/ Reload
  BY <1>0, <1>5 DEF Forward, BridgeEnds, Reload, channel, Counted, Done, At
<1>6. CASE Pause \/ Resume \/ Edit \/ StopDaemon
  BY <1>0, <1>6 DEF Pause, Resume, Edit, StopDaemon, channel, Counted, Done, At
<1>7. CASE UNCHANGED vars
  BY <1>0, <1>7 DEF vars, channel, Counted, Done, At
<1>. QED
  BY <1>1, <1>2, <1>3, <1>4, <1>5, <1>6, <1>7 DEF Next, Environment

\* No monitor sends on a closed channel: Run waits for as many reports as
\* there are monitors, and each monitor reports once, when it is done.
THEOREM ChannelSafe == Spec => []NoSendOnClosed
<1>1. Init => CountInv
  <2>. SUFFICES ASSUME Init PROVE CountInv
    OBVIOUS
  <2>1. Done = {}
    BY NoTickType DEF Init, Done, At
  <2>. QED
    BY <2>1, FS_EmptySet DEF Init, CountInv, Counted, NoSendOnClosed
<1>2. CountInv => NoSendOnClosed
  BY DEF CountInv
<1>. QED
  BY <1>1, <1>2, CountInvariant, TypedAlways, PTL DEF Spec

\* The variables of Capture keep their types, and Run never counts more
\* reports than there are monitors.
THEOREM TypeCorrect == Spec => []TypeOK
<1>1. Init => CountInv
  <2>. SUFFICES ASSUME Init PROVE CountInv
    OBVIOUS
  <2>1. Done = {}
    BY NoTickType DEF Init, Done, At
  <2>. QED
    BY <2>1, FS_EmptySet DEF Init, CountInv, Counted, NoSendOnClosed
<1>2. Typed /\ CountInv => TypeOK
  <2>. SUFFICES ASSUME Typed, CountInv PROVE TypeOK
    OBVIOUS
  <2>1. Done \in SUBSET Displays
    BY DEF Done
  <2>2. Cardinality(Done) <= Cardinality(Displays) /\ Cardinality(Displays) \in Nat
    BY <2>1, DisplaysAssumption, FS_Subset, FS_CardinalityType
  <2>3. finished \in 0 .. Cardinality(Displays)
    BY <2>2 DEF Typed, CountInv, Counted
  <2>. QED
    BY <2>3, Zenon DEF Typed, TypeOK
<1>. QED
  BY <1>1, <1>2, CountInvariant, TypedAlways, PTL DEF Spec

-----------------------------------------------------------------------------
\* At most one frame of each monitor follows a pause: the one whose tick was
\* past the gate.  A monitor that has sent it is before the gate again.
PauseInv ==
    paused => \A d \in Displays :
        \/ sent[d] = 0
        \/ sent[d] = 1 /\ tick[d].at \notin {"pixels", "mask", "send"}

LEMMA PauseTick ==
    ASSUME Typed, PauseInv, NEW d \in Displays, Tick(d)
    PROVE  PauseInv'
<1>. DEFINE Alone == \A e \in Displays : e # d => tick'[e] = tick[e]
            After(steps) == tick'[d].at \in steps
<1>0. tick[d] \in TickState /\ NoTick \in TickState /\ NoTick.at = "waiting"
  BY NoTickType DEF Typed
<1>1. ASSUME Alone, UNCHANGED <<paused, sent>>,
             \/ tick'[d].at \notin {"pixels", "mask", "send"}
             \/ tick[d].at \in {"pixels", "mask", "send"}
             \/ ~paused
      PROVE  PauseInv'
  BY <1>1 DEF PauseInv
<1>2. CASE Look(d)
  BY <1>0, <1>1, <1>2, LookStep DEF Stepped, TickState, Look
<1>3. CASE Enumerate(d)
  <2>1. Alone /\ After({"each"})
    BY <1>0, <1>3, EnumerateStep DEF Stepped, TickState
  <2>. QED
    BY <1>1, <1>3, <2>1 DEF Enumerate
<1>4. CASE LookUp(d)
  <2>1. Alone /\ After({"waiting", "each"})
    BY <1>0, <1>4, LookUpStep DEF Stepped, TickState, LookUp, At
  <2>. QED
    BY <1>1, <1>4, <2>1 DEF LookUp
<1>5. CASE Pass(d)
  <2>1. Alone /\ (After({"waiting"}) \/ ~paused)
    BY <1>0, <1>5, PassStep DEF Stepped
  <2>. QED
    BY <1>1, <1>5, <2>1 DEF Pass
<1>6. CASE TakePixels(d)
  <2>1. Alone
    BY <1>6, TakePixelsStep DEF Stepped
  <2>. QED
    BY <1>1, <1>6, <2>1 DEF TakePixels, At
<1>7. CASE Mask(d)
  <2>1. Alone
    BY <1>7, MaskStep DEF Stepped
  <2>. QED
    BY <1>1, <1>7, <2>1 DEF Mask, At
<1>8. CASE Send(d)
  <2>1. Alone /\ tick'[d].at = "waiting" /\ tick[d].at = "send" /\ paused' = paused
    BY <1>0, <1>8, SendStep DEF Stepped, Send, At
  <2>2. sent' = sent \/ sent' = [sent EXCEPT ![d] = IF paused THEN @ + 1 ELSE @]
    BY <1>8, SendStep
  <2>3. sent \in [Displays -> Nat]
    BY DEF Typed
  <2>. QED
    BY <2>1, <2>2, <2>3 DEF PauseInv
<1>. QED
  BY <1>2, <1>3, <1>4, <1>5, <1>6, <1>7, <1>8 DEF Tick

LEMMA PauseInvariant == Typed /\ PauseInv /\ [Next]_vars => PauseInv'
<1>. SUFFICES ASSUME Typed, PauseInv, [Next]_vars PROVE PauseInv'
  OBVIOUS
<1>1. ASSUME NEW d \in Displays, Tick(d) PROVE PauseInv'
  BY <1>1, PauseTick
<1>2. ASSUME NEW d \in Displays, Finish(d) PROVE PauseInv'
  <2>1. tick[d] \in TickState
    BY DEF Typed
  <2>. QED
    BY <1>2, <2>1, FinishStep DEF Finish, PauseInv, Stepped, TickState
<1>3. CASE Move
  <2>1. \A d \in Displays : tick'[d].at = tick[d].at
    BY <1>3, MoveStep DEF Typed, TickState
  <2>. QED
    BY <1>3, <2>1 DEF Move, PauseInv
<1>4. CASE Pause
  BY <1>4 DEF Pause, PauseInv
<1>5. CASE Resume
  BY <1>5 DEF Resume, PauseInv
<1>6. CASE CloseChannel \/ Forward \/ BridgeEnds \/ Reload
  BY <1>6 DEF CloseChannel, Forward, BridgeEnds, Reload, PauseInv
<1>7. CASE Edit \/ StopDaemon \/ UNCHANGED vars
  BY <1>7 DEF Edit, StopDaemon, vars, PauseInv
<1>. QED
  BY <1>1, <1>2, <1>3, <1>4, <1>5, <1>6, <1>7 DEF Next, Environment

\* Once the user has paused, each monitor sends at most one frame more.
THEOREM PauseHolds == Spec => []AtMostOneAfterPause
<1>1. Init => PauseInv
  BY DEF Init, PauseInv
<1>2. PauseInv => AtMostOneAfterPause
  BY DEF PauseInv, AtMostOneAfterPause
<1>. QED
  BY <1>1, <1>2, PauseInvariant, TypedAlways, PTL DEF Spec

-----------------------------------------------------------------------------
\* A picture that shows no window the hardcoded entries block.
Clean(dk) ==
    /\ ~ForegroundBlocked(Defaults, ContextOf(dk.fore, HasPassword(dk)))
    /\ \A w \in dk.shown \ {dk.fore} : ~BackgroundBlocked(Defaults, w)

\* What a tick knows of the desktop, as far as nothing excuses it: step by
\* step it has looked up more of what is still on the screen.
Looked(t) ==
    t.excuse \cap {"moved", "blind"} = {} =>
        /\ t.at \in {"back", "each", "pixels"} =>
            t.label = ContextOf(desk.fore, HasPassword(desk))
        /\ t.at = "each" =>
            \A w \in desk.shown \ {desk.fore} :
                w \in t.todo \/ ~BackgroundBlocked(Defaults, w)
        /\ t.at = "pixels" =>
            \A w \in desk.shown \ {desk.fore} : ~BackgroundBlocked(Defaults, w)
        /\ t.at \in {"mask", "send"} => Clean(t.img)

Masked(d, t) ==
    t.excuse \cap {"late", "blind"} = {} =>
        /\ t.at = "mask" => t.img.secret = IF desk.secret = d THEN d ELSE Nowhere
        /\ t.at = "send" /\ d = Primary => t.img.secret = Nowhere

Labelled(t) ==
    t.at \in {"back", "each", "pixels", "mask", "send"} =>
        ~ForegroundBlocked(Defaults, t.label)

Sound(d, t) == Looked(t) /\ Masked(d, t) /\ Labelled(t)

\* What a frame in the channel has of the tick that sent it.
FrameSound(f) ==
    f # NoFrame =>
        /\ ~ForegroundBlocked(Defaults, f.label)
        /\ f.excuse \cap {"moved", "blind"} = {} => Clean(f.img)
        /\ (f.by = Primary /\ f.excuse \cap {"late", "blind"} = {}) => f.img.secret = Nowhere

GateInv ==
    /\ Defaults \subseteq list
    /\ \A d \in Displays : Sound(d, tick[d])
    /\ FrameSound(ch)

\* What a longer list lets pass, the hardcoded entries let pass.
LEMMA ListIsMore ==
    ASSUME Defaults \subseteq list
    PROVE  /\ \A c : ~ForegroundBlocked(list, c) => ~ForegroundBlocked(Defaults, c)
           /\ \A w : ~BackgroundBlocked(list, w) => ~BackgroundBlocked(Defaults, w)
BY DEF ForegroundBlocked, BackgroundBlocked

LEMMA IdleSound ==
    ASSUME NEW d \in Displays PROVE Sound(d, NoTick)
BY NoTickType DEF Sound, Looked, Masked, Labelled

LEMMA LookSound ==
    ASSUME Typed, GateInv, NEW d \in Displays, Look(d)
    PROVE  Sound(d, tick'[d])
<1>1. ASSUME NEW c \in Context, NEW blind \in {{}, {"blind"}},
             tick'[d] = [NoTick EXCEPT !.at = "back", !.label = c, !.excuse = blind],
             ~ForegroundBlocked(list, c),
             blind = {} => c = ContextOf(desk.fore, HasPassword(desk))
      PROVE  Sound(d, tick'[d])
  <2>1. /\ tick'[d].at = "back" /\ tick'[d].label = c /\ tick'[d].excuse = blind
    BY <1>1, NoTickType DEF TickState
  <2>2. ~ForegroundBlocked(Defaults, c)
    BY <1>1, ListIsMore DEF GateInv
  <2>. QED
    BY <1>1, <2>1, <2>2 DEF Sound, Looked, Masked, Labelled
<1>. QED
  BY <1>1, LookStep, IdleSound DEF Stepped

LEMMA EnumerateSound ==
    ASSUME Typed, GateInv, NEW d \in Displays, Enumerate(d)
    PROVE  Sound(d, tick'[d])
<1>1. PICK ws \in SUBSET Windows, blind \in {{}, {"blind"}} :
        /\ tick'[d] = [tick[d] EXCEPT !.at = "each", !.todo = ws, !.excuse = @ \cup blind]
        /\ blind = {} => ws = desk.shown \ {desk.fore}
  BY EnumerateStep DEF Stepped
<1>2. /\ tick'[d].at = "each" /\ tick'[d].label = tick[d].label
      /\ tick'[d].todo = ws /\ tick'[d].excuse = tick[d].excuse \cup blind
  BY <1>1 DEF Typed, TickState
<1>3. tick[d].at = "back" /\ Sound(d, tick[d])
  BY DEF Enumerate, At, GateInv
<1>. QED
  BY <1>1, <1>2, <1>3 DEF Sound, Looked, Masked, Labelled

LEMMA LookUpSound ==
    ASSUME Typed, GateInv, NEW d \in Displays, LookUp(d)
    PROVE  Sound(d, tick'[d])
<1>1. ASSUME NEW w \in tick[d].todo, ~BackgroundBlocked(list, w),
             tick'[d] = [tick[d] EXCEPT !.todo = @ \ {w}]
      PROVE  Sound(d, tick'[d])
  <2>1. /\ tick'[d].at = "each" /\ tick'[d].label = tick[d].label
        /\ tick'[d].todo = tick[d].todo \ {w} /\ tick'[d].excuse = tick[d].excuse
    BY <1>1 DEF Typed, TickState, LookUp, At
  <2>2. ~BackgroundBlocked(Defaults, w)
    BY <1>1, ListIsMore DEF GateInv
  <2>3. tick[d].at = "each" /\ Sound(d, tick[d])
    BY DEF LookUp, At, GateInv
  <2>. QED
    BY <2>1, <2>2, <2>3 DEF Sound, Looked, Masked, Labelled
<1>. QED
  BY <1>1, LookUpStep, IdleSound DEF Stepped

LEMMA PassSound ==
    ASSUME Typed, GateInv, NEW d \in Displays, Pass(d)
    PROVE  Sound(d, tick'[d])
<1>1. ASSUME tick'[d] = [tick[d] EXCEPT !.at = "pixels"]
      PROVE  Sound(d, tick'[d])
  <2>1. /\ tick'[d].at = "pixels" /\ tick'[d].label = tick[d].label
        /\ tick'[d].excuse = tick[d].excuse
    BY <1>1 DEF Typed, TickState
  <2>2. tick[d].at = "each" /\ tick[d].todo = {} /\ Sound(d, tick[d])
    BY DEF Pass, At, GateInv
  <2>. QED
    BY <2>1, <2>2 DEF Sound, Looked, Masked, Labelled
<1>. QED
  BY <1>1, PassStep, IdleSound DEF Stepped

LEMMA TakePixelsSound ==
    ASSUME Typed, GateInv, NEW d \in Displays, TakePixels(d)
    PROVE  Sound(d, tick'[d])
<1>1. ASSUME tick'[d] = [tick[d] EXCEPT !.at = "mask", !.img = PixelsOf(desk, d)]
      PROVE  Sound(d, tick'[d])
  <2>1. /\ tick'[d].at = "mask" /\ tick'[d].label = tick[d].label
        /\ tick'[d].excuse = tick[d].excuse /\ tick'[d].img = PixelsOf(desk, d)
    BY <1>1 DEF Typed, TickState
  <2>2. tick[d].at = "pixels" /\ Sound(d, tick[d])
    BY DEF TakePixels, At, GateInv
  <2>3. /\ PixelsOf(desk, d).fore = desk.fore /\ PixelsOf(desk, d).shown = desk.shown
        /\ PixelsOf(desk, d).secret = IF desk.secret = d THEN d ELSE Nowhere
    BY PixelsType DEF Typed
  <2>4. ASSUME tick[d].excuse \cap {"moved", "blind"} = {} PROVE Clean(PixelsOf(desk, d))
    <3>1. /\ ~ForegroundBlocked(Defaults, ContextOf(desk.fore, HasPassword(desk)))
          /\ \A w \in desk.shown \ {desk.fore} : ~BackgroundBlocked(Defaults, w)
      BY <2>2, <2>4 DEF Sound, Looked, Labelled
    <3>2. ~HasPassword(desk)
      BY <3>1 DEF ForegroundBlocked, ContextOf
    <3>3. HasPassword(PixelsOf(desk, d)) = HasPassword(desk)
      BY <2>3, <3>2, DisplaysAssumption DEF HasPassword
    <3>. QED
      BY <2>3, <3>1, <3>3 DEF Clean
  <2>. QED
    BY <2>1, <2>2, <2>3, <2>4 DEF Sound, Looked, Masked, Labelled
<1>. QED
  BY <1>1, TakePixelsStep, IdleSound DEF Stepped

LEMMA MaskSound ==
    ASSUME Typed, GateInv, NEW d \in Displays, Mask(d)
    PROVE  Sound(d, tick'[d])
<1>0. tick[d].at = "mask" /\ Sound(d, tick[d])
  BY DEF Mask, At, GateInv
<1>1. ASSUME tick'[d] = [tick[d] EXCEPT !.at = "send", !.img = Blackened(d)]
      PROVE  Sound(d, tick'[d])
  <2>1. /\ tick'[d].at = "send" /\ tick'[d].label = tick[d].label
        /\ tick'[d].excuse = tick[d].excuse /\ tick'[d].img = Blackened(d)
    BY <1>1 DEF Typed, TickState
  <2>2. /\ Blackened(d).fore = tick[d].img.fore /\ Blackened(d).shown = tick[d].img.shown
        /\ Blackened(d).secret = IF d = Primary /\ desk.secret = d THEN Nowhere
                                 ELSE tick[d].img.secret
    BY BlackenedType
  <2>3. ASSUME Clean(tick[d].img) PROVE Clean(Blackened(d))
    <3>1. ~HasPassword(tick[d].img)
      BY <2>3 DEF Clean, ForegroundBlocked, ContextOf
    <3>2. HasPassword(Blackened(d)) = HasPassword(tick[d].img)
      BY <2>2, <3>1 DEF HasPassword
    <3>. QED
      BY <2>2, <2>3, <3>2 DEF Clean
  <2>. QED
    BY <1>0, <2>1, <2>2, <2>3 DEF Sound, Looked, Masked, Labelled
<1>2. ASSUME tick'[d] = [tick[d] EXCEPT !.at = "send", !.excuse = @ \cup {"blind"}]
      PROVE  Sound(d, tick'[d])
  <2>1. /\ tick'[d].at = "send" /\ tick'[d].label = tick[d].label
        /\ "blind" \in tick'[d].excuse
    BY <1>2 DEF Typed, TickState
  <2>. QED
    BY <1>0, <2>1 DEF Sound, Looked, Masked, Labelled
<1>. QED
  BY <1>1, <1>2, MaskStep DEF Stepped

\* A frame in the channel is as sound as the tick that sent it.
LEMMA SendSound ==
    ASSUME Typed, GateInv, NEW d \in Displays, Send(d)
    PROVE  Sound(d, tick'[d]) /\ FrameSound(ch')
<1>1. Sound(d, tick'[d])
  BY SendStep, IdleSound DEF Stepped
<1>2. tick[d].at = "send" /\ Sound(d, tick[d])
  BY DEF Send, At, GateInv
<1>3. CASE ch' = ch
  BY <1>1, <1>3 DEF GateInv
<1>4. CASE ch' = FrameOf(d)
  <2>1. /\ ch'.by = d /\ ch'.label = tick[d].label /\ ch'.img = tick[d].img
        /\ ch'.excuse = tick[d].excuse
    BY <1>4 DEF FrameOf
  <2>. QED
    BY <1>1, <1>2, <2>1 DEF Sound, Labelled, Looked, Masked, FrameSound
<1>. QED
  BY <1>3, <1>4, SendStep

LEMMA MoveSound ==
    ASSUME Typed, GateInv, Move, NEW d \in Displays
    PROVE  Sound(d, tick[d])'
<1>1. PICK more \in SUBSET Excuses :
        /\ tick'[d] = [tick[d] EXCEPT !.excuse = @ \cup more]
        /\ tick[d].at \in {"back", "each", "pixels"} => "moved" \in more
        /\ tick[d].at = "mask" => "late" \in more
  BY MoveStep
<1>2. /\ tick'[d].at = tick[d].at /\ tick'[d].label = tick[d].label
      /\ tick'[d].img = tick[d].img /\ tick'[d].excuse = tick[d].excuse \cup more
  BY <1>1 DEF Typed, TickState
<1>3. Sound(d, tick[d])
  BY DEF GateInv
<1>4. Looked(tick[d])'
  BY <1>1, <1>2, <1>3 DEF Sound, Looked
<1>5. Masked(d, tick[d])'
  BY <1>1, <1>2, <1>3 DEF Sound, Masked
<1>6. Labelled(tick[d])'
  BY <1>2, <1>3 DEF Sound, Labelled
<1>. QED
  BY <1>4, <1>5, <1>6 DEF Sound

LEMMA GateInvariant == Typed /\ GateInv /\ [Next]_vars => GateInv'
<1>. SUFFICES ASSUME Typed, GateInv, [Next]_vars PROVE GateInv'
  OBVIOUS
<1>1. ASSUME NEW d \in Displays, Sound(d, tick'[d]), FrameSound(ch'),
             \A e \in Displays : e # d => tick'[e] = tick[e],
             UNCHANGED <<list, desk>>
      PROVE  GateInv'
  <2>1. \A e \in Displays : Sound(e, tick'[e])
    BY <1>1 DEF GateInv
  <2>2. \A e \in Displays : Sound(e, tick[e])'
    BY <1>1, <2>1 DEF Sound, Looked, Masked, Labelled
  <2>. QED
    BY <1>1, <2>2 DEF GateInv
<1>2. ASSUME NEW d \in Displays, Tick(d) PROVE GateInv'
  <2>1. CASE Look(d)
    BY <1>1, <2>1, LookSound, LookStep DEF Look, channel, blocklist, GateInv, Stepped
  <2>2. CASE Enumerate(d)
    <3>1. UNCHANGED <<list, desk, ch>>
      BY <2>2 DEF Enumerate, channel, blocklist
    <3>2. \A e \in Displays : e # d => tick'[e] = tick[e]
      BY <2>2, EnumerateStep DEF Stepped
    <3>. QED
      BY <1>1, <2>2, <3>1, <3>2, EnumerateSound DEF GateInv
  <2>3. CASE LookUp(d)
    BY <1>1, <2>3, LookUpSound, LookUpStep DEF LookUp, channel, blocklist, GateInv, Stepped
  <2>4. CASE Pass(d)
    BY <1>1, <2>4, PassSound, PassStep DEF Pass, channel, blocklist, GateInv, Stepped
  <2>5. CASE TakePixels(d)
    BY <1>1, <2>5, TakePixelsSound, TakePixelsStep
    DEF TakePixels, channel, blocklist, GateInv, Stepped
  <2>6. CASE Mask(d)
    BY <1>1, <2>6, MaskSound, MaskStep DEF Mask, channel, blocklist, GateInv, Stepped
  <2>7. CASE Send(d)
    BY <1>1, <2>7, SendSound, SendStep DEF Send, blocklist, Stepped
  <2>. QED
    BY <1>2, <2>1, <2>2, <2>3, <2>4, <2>5, <2>6, <2>7 DEF Tick
<1>3. ASSUME NEW d \in Displays, Finish(d) PROVE GateInv'
  <2>1. tick'[d].at = "done"
    BY <1>3, FinishStep DEF Stepped, Typed, TickState
  <2>2. Sound(d, tick'[d])
    BY <2>1 DEF Sound, Looked, Masked, Labelled
  <2>. QED
    BY <1>1, <1>3, <2>2, FinishStep DEF Finish, channel, blocklist, GateInv, Stepped
<1>4. CASE Move
  <2>1. \A d \in Displays : Sound(d, tick[d])'
    BY <1>4, MoveSound
  <2>. QED
    BY <1>4, <2>1 DEF Move, channel, blocklist, GateInv
<1>5. ASSUME UNCHANGED <<tick, desk>>, Defaults \subseteq list', FrameSound(ch')
      PROVE  GateInv'
  BY <1>5 DEF GateInv, Sound, Looked, Masked, Labelled
<1>6. CASE Reload
  <2>1. Defaults \subseteq list'
    BY <1>6 DEF Reload, Merged, GateInv
  <2>. QED
    BY <1>5, <1>6, <2>1 DEF Reload, channel, GateInv
<1>7. CASE Forward
  <2>1. FrameSound(ch')
    BY <1>7 DEF Forward, FrameSound
  <2>. QED
    BY <1>5, <1>7, <2>1 DEF Forward, blocklist, GateInv
<1>8. CASE CloseChannel \/ BridgeEnds \/ StopDaemon
  BY <1>5, <1>8 DEF CloseChannel, BridgeEnds, StopDaemon, channel, blocklist, GateInv
<1>9. CASE Pause \/ Resume \/ Edit
  BY <1>5, <1>9 DEF Pause, Resume, Edit, channel, blocklist, GateInv
<1>10. CASE UNCHANGED vars
  BY <1>5, <1>10 DEF vars, channel, blocklist, GateInv
<1>. QED
  BY <1>2, <1>3, <1>4, <1>6, <1>7, <1>8, <1>9, <1>10 DEF Next, Environment

LEMMA GateHolds == Spec => []GateInv
<1>1. Init => GateInv
  <2>. SUFFICES ASSUME Init PROVE GateInv
    OBVIOUS
  <2>1. Defaults \subseteq list
    BY DEF Init, Merged
  <2>2. \A d \in Displays : Sound(d, tick[d])
    BY IdleSound DEF Init
  <2>. QED
    BY <2>1, <2>2 DEF Init, GateInv, FrameSound
<1>. QED
  BY <1>1, GateInvariant, TypedAlways, PTL DEF Spec

\* No frame is labelled with a window the hardcoded entries block.
THEOREM DefaultsHold == Spec => []DefaultsAlwaysApply
<1>1. GateInv => DefaultsAlwaysApply
  BY DEF GateInv, FrameSound, DefaultsAlwaysApply
<1>. QED
  BY <1>1, GateHolds, PTL

\* A frame shows a blocked window only if the desktop changed after the gate
\* had looked, or the system did not answer one of its questions.
THEOREM BlockedShownHolds == Spec => []BlockedShownOnlyAfterChange
<1>1. GateInv => BlockedShownOnlyAfterChange
  BY DEF GateInv, FrameSound, Clean, BlockedShownOnlyAfterChange
<1>. QED
  BY <1>1, GateHolds, PTL

\* On the primary monitor a password field that has the focus when the mask
\* is drawn is black in the frame.
THEOREM MaskHolds == Spec => []MaskedOnPrimary
<1>1. GateInv => MaskedOnPrimary
  BY DEF GateInv, FrameSound, HasPassword, MaskedOnPrimary
<1>. QED
  BY <1>1, GateHolds, PTL
=============================================================================
