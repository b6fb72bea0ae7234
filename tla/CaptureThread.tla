---------------------------- MODULE CaptureThread ----------------------------
(***************************************************************************)
(* What capture on Windows borrows from the system: the COM references of  *)
(* UI Automation (uia_windows.go) and of the desktop duplication           *)
(* (dxgi_windows.go), the GDI handles, the process handles and the         *)
(* callback slots (capture_windows.go).  One thread of control: the        *)
(* capture goroutine opens the DXGI session, the goroutine of display 0    *)
(* ticks until the stop, the capture goroutine closes the session.         *)
(*                                                                         *)
(* Any call may fail, at every tick.  A function is a list of calls; what  *)
(* a call gives is put on a stack that says who owes its release: got for  *)
(* the deferred calls of the function, session and handles for the fields  *)
(* of DXGISession and monitorLoop.  What the frames show is left out.      *)
(***************************************************************************)
EXTENDS Naturals, Sequences, SequencesExt

CONSTANTS
    Slots,      \* how many callbacks a Go program can make for Windows
    WithDXGI    \* is cfg.Capture.Backend "dxgi"?

ASSUME SlotsAssumption == Slots \in Nat
ASSUME WithDXGIAssumption == WithDXGI \in BOOLEAN

VARIABLES
    at,         \* the function being run, or where the thread is between two
    n,          \* how many calls of the function have succeeded
    result,     \* "calling" while it calls, then what it returns
    got,        \* what the deferred calls have to release, innermost last
    session,    \* DXGISession.pDevice, pCtx, pDupl, as far as not zero
    handles,    \* monitorLoop.screenDC, memDC, bitmap, as far as not zero
    dxgi,       \* is WindowsCapturer.dxgi set?
    tried,      \* automation ids tried so far in one query
    slots,      \* callback slots in use: they are never given back
    alive,      \* Windows: how many references of each kind it counts
    stop        \* is stopCh closed?

vars == <<at, n, result, got, session, handles, dxgi, tried, slots, alive, stop>>

-----------------------------------------------------------------------------
\* What a success of each call gives, in the order of the calls, function by
\* function.  BitBlt and GetDIBits give nothing.
Focused == <<<<"com">>, <<"uia">>, <<"focused">>, <<"isPassword">>>>
OpenSession == <<<<"device", "ctx">>, <<"dxgiDevice">>, <<"adapter">>, <<"output">>,
                 <<"output1">>, <<"dupl">>>>
Calls == [
    process |-> <<<<"process">>>>,
    other   |-> <<<<"process">>>>,
    url     |-> <<<<"com">>, <<"uia">>, <<"root">>>>,
    find    |-> <<<<"bstr">>, <<"cond">>, <<"found">>, <<"text">>>>,
    field   |-> Focused,
    rect    |-> Append(Focused, <<"rectangle">>),
    open    |-> OpenSession,
    reopen  |-> OpenSession,
    frame   |-> <<<<"resource", "frame">>, <<"src">>, <<"staging">>, <<"mapped">>>>,
    gdi     |-> <<<<"screenDC">>, <<"memDC">>, <<"bitmap">>, <<>>, <<>>>>]

Functions == DOMAIN Calls
Between == {"waiting", "enumerate", "windows", "lost", "stopping", "returned", "closed", "crashed"}

\* Who owes the release: the fields of DXGISession, those of monitorLoop, or a
\* deferred call of the function.
SessionKinds == {"device", "ctx", "dupl"}
HandleKinds == {"screenDC", "memDC", "bitmap"}
Deferred == {"process", "com", "uia", "root", "bstr", "cond", "found", "text", "focused",
             "isPassword", "rectangle", "dxgiDevice", "adapter", "output", "output1",
             "resource", "frame", "src", "staging", "mapped"}
Kinds == Deferred \cup SessionKinds \cup HandleKinds

Count(k, s) == Cardinality({i \in DOMAIN s : s[i] = k})

-----------------------------------------------------------------------------
Init ==
    /\ at = IF WithDXGI THEN "open" ELSE "waiting"
    /\ n = 0 /\ result = "calling"
    /\ got = <<>> /\ session = <<>> /\ handles = <<>>
    /\ dxgi = FALSE /\ tried = 0 /\ slots = 0
    /\ alive = [k \in Kinds |-> 0]
    /\ stop = FALSE

TypeOK ==
    /\ at \in Functions \cup Between
    /\ n \in 0 .. 6 /\ result \in {"calling", "ok", "failed", "lost"}
    /\ got \in Seq(Deferred) /\ session \in Seq(SessionKinds) /\ handles \in Seq(HandleKinds)
    /\ dxgi \in BOOLEAN /\ tried \in 0 .. 2 /\ slots \in 0 .. Slots
    /\ alive \in [Kinds -> Nat]
    /\ stop \in BOOLEAN

\* captureGDI creates nothing while the handles of an earlier tick are there.
Enter(place) ==
    /\ at' = place
    /\ n' = IF place = "gdi" THEN Len(handles) ELSE 0
    /\ result' = "calling"

\* The stack of a function starts above what its caller has on it.
Floor == IF at = "find" THEN Len(Calls.url) ELSE 0

\* Windows gives references, all of them to one owner, ...
Pushed(stack, new, kinds) == IF Range(new) \subseteq kinds THEN stack \o new ELSE stack
Give(new) ==
    /\ got' = Pushed(got, new, Deferred)
    /\ session' = Pushed(session, new, SessionKinds)
    /\ handles' = Pushed(handles, new, HandleKinds)
    /\ alive' = [k \in Kinds |-> alive[k] + Count(k, new)]

\* ... and takes one back: Release, CloseHandle, DeleteDC, ...
TakeBack(k) == alive' = [alive EXCEPT ![k] = @ - 1]
PopGot == got' = Front(got) /\ TakeBack(Last(got))
PopSession == session' = Front(session) /\ TakeBack(Last(session))
PopHandles == handles' = Front(handles) /\ TakeBack(Last(handles))

-----------------------------------------------------------------------------
\* A call succeeds, and its release is deferred or becomes a field's.  A zero
\* pDupl cannot be called: see NullCall.
Acquire ==
    /\ at \in Functions /\ result = "calling" /\ n < Len(Calls[at])
    /\ ~(at = "frame" /\ session = <<>>)
    /\ Give(Calls[at][n + 1])
    /\ n' = n + 1
    /\ UNCHANGED <<at, result, dxgi, tried, slots, stop>>

\* The last call has succeeded.  The url query goes on by the ids it knows.
Complete ==
    /\ at \in Functions \ {"url"} /\ result = "calling" /\ n = Len(Calls[at])
    /\ result' = "ok"
    /\ UNCHANGED <<at, n, got, session, handles, dxgi, tried, slots, alive, stop>>

\* A call fails, times out or gives an answer that ends the function early;
\* AcquireNextFrame may also say that the access is lost.
Refuse ==
    /\ at \in Functions /\ result = "calling" /\ n < Len(Calls[at])
    /\ ~(at = "frame" /\ session = <<>>)
    /\ result' \in {"failed"} \cup (IF at = "frame" /\ n = 0 THEN {"lost"} ELSE {})
    /\ UNCHANGED <<at, n, got, session, handles, dxgi, tried, slots, alive, stop>>

\* A vtable is read through a pointer that is zero: a panic in the goroutine
\* of the monitor, which nothing recovers.
NullCall ==
    /\ at = "frame" /\ n = 0 /\ result = "calling" /\ session = <<>>
    /\ at' = "crashed"
    /\ UNCHANGED <<n, result, got, session, handles, dxgi, tried, slots, alive, stop>>

\* A bug to catch: a failure of OpenDXGISession forgets device and context.
Undo_Forgets ==
    /\ result = "failed"
    /\ \/ at \in {"open", "reopen"} /\ session # <<>> /\ session' = <<>> /\ UNCHANGED <<handles, alive>>
       \/ at = "gdi" /\ handles # <<>> /\ PopHandles /\ UNCHANGED session
    /\ UNCHANGED <<at, n, result, got, dxgi, tried, slots, stop>>

\* The releases on the way out, one by one.  OpenDXGISession releases context
\* and device before what is deferred; captureGDI frees what it has created,
\* releaseHandles in the end.
Undo ==
    /\ result = "failed"
    /\ \/ at \in {"open", "reopen"} /\ session # <<>> /\ PopSession /\ UNCHANGED handles
       \/ at = "gdi" /\ handles # <<>> /\ PopHandles /\ UNCHANGED session
    /\ UNCHANGED <<at, n, result, got, dxgi, tried, slots, stop>>

Undone ==
    \/ result # "failed"
    \/ at \in {"open", "reopen"} /\ session = <<>>
    \/ at = "gdi" /\ handles = <<>>
    \/ at \notin {"open", "reopen", "gdi"}

\* A bug to catch: the releases are in the order of the calls.
Unwind_InOrder ==
    /\ at \in Functions /\ result # "calling" /\ Undone
    /\ Len(got) > Floor
    /\ got' = Tail(got) /\ TakeBack(Head(got))
    /\ UNCHANGED <<at, n, result, session, handles, dxgi, tried, slots, stop>>

Unwind ==
    /\ at \in Functions /\ result # "calling" /\ Undone
    /\ Len(got) > Floor
    /\ PopGot
    /\ UNCHANGED <<at, n, result, session, handles, dxgi, tried, slots, stop>>

Over(f) == at = f /\ result # "calling" /\ Undone /\ Len(got) = Floor
Rest == UNCHANGED <<got, session, handles, alive, stop>>

-----------------------------------------------------------------------------
\* NewWindowsCapturer: without a session GDI is all there is.
Opened ==
    /\ Over("open")
    /\ dxgi' = (result = "ok")
    /\ Enter("waiting")
    /\ Rest /\ UNCHANGED <<tried, slots>>

\* The gate: the program in the foreground, the address of a browser, the
\* field with the focus, and one callback for the windows behind.
Tick ==
    /\ at = "waiting"
    /\ Enter("process")
    /\ Rest /\ UNCHANGED <<dxgi, tried, slots>>

AskBrowser ==
    /\ Over("process")
    /\ \E next \in {"url", "field"} : Enter(next)
    /\ tried' = 0
    /\ Rest /\ UNCHANGED <<dxgi, slots>>

AskById ==
    /\ at = "url" /\ result = "calling" /\ n = Len(Calls.url) /\ tried < 2
    /\ tried' = tried + 1
    /\ Enter("find")
    /\ Rest /\ UNCHANGED <<dxgi, slots>>

AskedById ==
    /\ Over("find")
    /\ at' = "url" /\ n' = Len(Calls.url)
    /\ result' = IF result = "ok" \/ tried = 2 THEN "ok" ELSE "calling"
    /\ Rest /\ UNCHANGED <<dxgi, tried, slots>>

AskField ==
    /\ Over("url")
    /\ Enter("field")
    /\ Rest /\ UNCHANGED <<dxgi, tried, slots>>

\* The gate lets the foreground pass, or blocks.
AskedField ==
    /\ Over("field")
    /\ \E next \in {"enumerate", "waiting"} : Enter(next)
    /\ Rest /\ UNCHANGED <<dxgi, tried, slots>>

\* syscall.NewCallback for a new closure takes a new slot; without one left
\* the runtime ends the program.
Enumerate ==
    /\ at = "enumerate"
    /\ IF slots = Slots
       THEN Enter("crashed") /\ UNCHANGED slots
       ELSE Enter("windows") /\ slots' = slots + 1
    /\ Rest /\ UNCHANGED <<dxgi, tried>>

\* The callback looks one window up, or the gate has seen them all, and
\* blocks or lets the pixels be taken.
LookUp ==
    /\ at = "windows"
    /\ \E next \in {"other", "waiting", IF dxgi THEN "frame" ELSE "gdi"} : Enter(next)
    /\ Rest /\ UNCHANGED <<dxgi, tried, slots>>

LookedUp ==
    /\ Over("other")
    /\ Enter("windows")
    /\ Rest /\ UNCHANGED <<dxgi, tried, slots>>

\* DXGICapturer.captureFrame and what monitorLoop.captureFrame makes of it.
Framed ==
    /\ Over("frame")
    /\ Enter(CASE result = "ok" -> "rect" [] result = "failed" -> "gdi" [] OTHER -> "lost")
    /\ Rest /\ UNCHANGED <<dxgi, tried, slots>>

\* Bugs to catch: the session is opened anew before it is closed; Close leaves
\* its pointers set.
Reopen_BeforeClose ==
    /\ at = "lost"
    /\ Enter("reopen")
    /\ UNCHANGED <<got, session, handles, dxgi, tried, slots, alive, stop>>

Reopen_KeepsPointers ==
    /\ at = "lost"
    /\ IF alive["dupl"] # 0
       THEN TakeBack("dupl") /\ UNCHANGED <<at, n, result, session>>
       ELSE Enter("reopen") /\ UNCHANGED <<session, alive>>
    /\ UNCHANGED <<got, handles, dxgi, tried, slots, stop>>

\* DXGISession.Close after the access was lost, and the session anew.  When
\* that fails, the closed one stays.
Reopen ==
    /\ at = "lost"
    /\ IF session # <<>>
       THEN PopSession /\ UNCHANGED <<at, n, result>>
       ELSE Enter("reopen") /\ UNCHANGED <<session, alive>>
    /\ UNCHANGED <<got, handles, dxgi, tried, slots, stop>>

Reopened ==
    /\ Over("reopen")
    /\ Enter("gdi")
    /\ Rest /\ UNCHANGED <<dxgi, tried, slots>>

Copied ==
    /\ Over("gdi")
    /\ Enter(IF result = "ok" THEN "rect" ELSE "waiting")
    /\ Rest /\ UNCHANGED <<dxgi, tried, slots>>

Masked ==
    /\ Over("rect")
    /\ Enter("waiting")
    /\ Rest /\ UNCHANGED <<dxgi, tried, slots>>

-----------------------------------------------------------------------------
\* A bug to catch: the monitor returns and keeps its handles.
Finish_KeepsHandles ==
    /\ at = "waiting" /\ stop
    /\ Enter("returned")
    /\ Rest /\ UNCHANGED <<dxgi, tried, slots>>

\* monitorLoop.run returns by its deferred releaseHandles, Run by all its
\* monitors, and runCaptureLoop closes the capturer.
Finish ==
    /\ at = "waiting" /\ stop
    /\ Enter("stopping")
    /\ Rest /\ UNCHANGED <<dxgi, tried, slots>>

ReleaseHandles ==
    /\ at = "stopping"
    /\ IF handles # <<>>
       THEN PopHandles /\ UNCHANGED <<at, n, result>>
       ELSE Enter("returned") /\ UNCHANGED <<handles, alive>>
    /\ UNCHANGED <<got, session, dxgi, tried, slots, stop>>

Close ==
    /\ at = "returned"
    /\ IF dxgi /\ session # <<>>
       THEN PopSession /\ UNCHANGED <<at, n, result, dxgi>>
       ELSE Enter("closed") /\ dxgi' = FALSE /\ UNCHANGED <<session, alive>>
    /\ UNCHANGED <<got, handles, tried, slots, stop>>

StopDaemon ==
    /\ ~stop /\ stop' = TRUE
    /\ UNCHANGED <<at, n, result, got, session, handles, dxgi, tried, slots, alive>>

Call == Acquire \/ Complete \/ Refuse \/ NullCall \/ Undo \/ Unwind
Gate == AskBrowser \/ AskById \/ AskedById \/ AskField \/ AskedField
        \/ Enumerate \/ LookUp \/ LookedUp
Pixels == Framed \/ Reopen \/ Reopened \/ Copied \/ Masked
Ending == ReleaseHandles \/ Close

Next == Call \/ Opened \/ Tick \/ Gate \/ Pixels \/ Finish \/ Ending \/ StopDaemon

\* A call returns (AcquireNextFrame waits 100 ms at most, the rest does not
\* wait), a gate sees finitely many windows, and a monitor with both a tick
\* and a closed stopCh before it chooses at random.
Fairness ==
    /\ WF_vars(Call \/ Opened \/ Gate \/ Pixels \/ Ending)
    /\ SF_vars(at = "windows" /\ LookUp /\ at' # "other")
    /\ SF_vars(Finish)

Spec == Init /\ [][Next]_vars /\ Fairness

-----------------------------------------------------------------------------
\* Whatever call fails, every reference that Windows counts is owed exactly
\* one release, by a deferred call or by a field: none leaks, none is given
\* back twice (OpenDXGISession, CaptureFrame, captureGDI and the queries).
OwedOnce ==
    \A k \in Kinds : alive[k] = Count(k, got) + Count(k, session) + Count(k, handles)

\* Windows: what must not outlive what: a COM object COM itself, an acquired
\* frame its duplication, a mapping its texture and context, a memory context
\* the one it was made for.
Outlives == {<<"com", k>> : k \in {"uia", "root", "focused", "cond", "found"}}
            \cup {<<"dupl", "frame">>, <<"staging", "mapped">>, <<"ctx", "mapped">>,
                  <<"screenDC", "memDC">>}

\* The order of the releases: nothing is released while something that needs
\* it is held, on no way out of any function.
DependentsFirst == \A p \in Outlives : alive[p[2]] > 0 => alive[p[1]] > 0

\* Windows gives one duplication of an output and one frame of it at a time:
\* the old ones are released before the code asks for the next (captureFrame
\* closes before it reopens).
OneAtATime ==
    /\ alive["dupl"] <= 1 /\ alive["frame"] <= 1
    /\ (at \in {"open", "reopen"} /\ result = "calling" /\ n < Len(OpenSession)) => alive["dupl"] = 0
    /\ (at = "frame" /\ n = 0 /\ result = "calling") => alive["frame"] = 0

\* After a stop, unless the program has ended in the middle, all that was
\* borrowed is given back.
AllGivenBack == stop ~> at = "crashed" \/ (at = "closed" /\ \A k \in Kinds : alive[k] = 0)

\* capture_windows.go:135: the pool of callbacks is not exhausted.
SlotsSuffice == ~(at = "enumerate" /\ slots = Slots)
=============================================================================
