------------------------------ MODULE Lifecycle ------------------------------
(***************************************************************************)
(* The life of the digitalghost processes of one user, from launch to      *)
(* exit: the key in the OS keychain (storage/keychain.go), the consent     *)
(* record that is signed with it (tray/consent.go), the tray, the start-up *)
(* and shutdown of run() (main.go) and the wipe command                    *)
(* (storage/retention.go).                                                 *)
(*                                                                         *)
(* Nothing keeps two processes apart: a wipe may run beside a daemon, and  *)
(* two first starts beside each other.  They meet in the keychain and in   *)
(* the data directory.  A process may crash at any step.                   *)
(***************************************************************************)
EXTENDS Naturals, FiniteSets

CONSTANTS
    Processes,      \* what can run at the same time
    MaxLaunches,    \* bound: launches in a behaviour
    MaxFaults       \* bound: errors of the keychain or the file system

ASSUME ProcessesAssumption == IsFiniteSet(Processes)
ASSUME BoundsAssumption == MaxLaunches \in Nat /\ MaxFaults \in Nat

\* Key 0 is older than the behaviour; launch i may generate key i.
Keys == 0 .. MaxLaunches
NoKey == MaxLaunches + 1
Unsigned == MaxLaunches + 2

\* consent.json: the dialog text it is for, and the key that signed it.  A
\* file that is being written is torn.
Record == [text : {"now", "before"}, by : Keys \cup {Unsigned}]
NoRecord == [text |-> "none", by |-> NoKey]
Torn == [text |-> "torn", by |-> NoKey]
Contents == Record \cup {NoRecord, Torn}

Steps == {"off", "get", "set", "check", "resign", "refill", "recommit",
          "ask", "write", "fill", "commit", "tray", "start", "run", "drain",
          "list", "remove", "again", "delete"}
Entries == {"consent", "tmp"}

VARIABLES
    keychain,   \* the key in the OS keychain
    consent,    \* consent.json
    tmp,        \* consent.json.tmp
    pc,         \* each process: where it is
    wiper,      \* was it launched with --wipe?
    key,        \* KeyManager.key
    held,       \* loadConsentRecord: the record it is about to sign again
    todo,       \* WipeAll: the entries it has listed and not yet removed
    icon,       \* its tray icon: "none", "shown", "quit"
    stop,       \* is its stopCh closed?
    since,      \* history: the wipes that had succeeded when it was launched
    number,     \* history: which launch it is
    launches, faults,
    wipes,      \* history: how many wipes have succeeded
    agreed,     \* history: wipes + 1 when the user last agreed to the text
    era,        \* history: by key, the wipes that had succeeded when it came
                \* into the keychain
    spared      \* history: an unsigned record outlived a wipe

disk == <<keychain, consent, tmp>>
process == <<pc, wiper, key, held, todo, icon, stop, since, number>>
history == <<wipes, agreed, era, spared>>
vars == <<disk, process, history, launches, faults>>

Init ==
    /\ keychain \in {0, NoKey}
    /\ consent \in {NoRecord} \cup [text : {"now", "before"},
                                    by : {Unsigned} \cup ({keychain} \cap Keys)]
    /\ tmp = NoRecord
    /\ pc = [p \in Processes |-> "off"]
    /\ wiper = [p \in Processes |-> FALSE]
    /\ key = [p \in Processes |-> NoKey]
    /\ held = [p \in Processes |-> NoRecord]
    /\ todo = [p \in Processes |-> {}]
    /\ icon = [p \in Processes |-> "none"]
    /\ stop = [p \in Processes |-> FALSE]
    /\ since = [p \in Processes |-> 0]
    /\ number = [p \in Processes |-> 0]
    /\ launches = 0 /\ faults = 0 /\ wipes = 0
    /\ agreed = IF consent.text = "now" THEN 1 ELSE 0
    /\ era = [k \in Keys |-> 0]
    /\ spared = FALSE

TypeOK ==
    /\ keychain \in Keys \cup {NoKey}
    /\ consent \in Contents /\ tmp \in Contents
    /\ pc \in [Processes -> Steps]
    /\ wiper \in [Processes -> BOOLEAN]
    /\ key \in [Processes -> Keys \cup {NoKey}]
    /\ held \in [Processes -> Record \cup {NoRecord}]
    /\ todo \in [Processes -> SUBSET Entries]
    /\ icon \in [Processes -> {"none", "shown", "quit"}]
    /\ stop \in [Processes -> BOOLEAN]
    /\ since \in [Processes -> Nat] /\ number \in [Processes -> 0 .. MaxLaunches]
    /\ launches \in 0 .. MaxLaunches /\ faults \in 0 .. MaxFaults
    /\ wipes \in Nat /\ agreed \in Nat /\ era \in [Keys -> Nat]
    /\ spared \in BOOLEAN

-----------------------------------------------------------------------------
At(p, step) == pc[p] = step
Goto(p, step) == pc' = [pc EXCEPT ![p] = step]

\* What a process has in its memory besides where it is.
Memory == <<wiper, key, held, todo, icon, stop, since, number>>
SameBut(p, step) == Goto(p, step) /\ UNCHANGED Memory

\* run() returns, or the process dies: nothing of it is left but its files.
Off(p) ==
    /\ Goto(p, "off")
    /\ key' = [key EXCEPT ![p] = NoKey]
    /\ held' = [held EXCEPT ![p] = NoRecord]
    /\ todo' = [todo EXCEPT ![p] = {}]
    /\ icon' = [icon EXCEPT ![p] = "none"]
    /\ stop' = [stop EXCEPT ![p] = FALSE]
    /\ UNCHANGED <<wiper, since, number>>

Fault == faults < MaxFaults /\ faults' = faults + 1
NoFault == UNCHANGED faults

Launch(p) ==
    /\ At(p, "off") /\ launches < MaxLaunches
    /\ Goto(p, "get")
    /\ wiper' \in {[wiper EXCEPT ![p] = w] : w \in BOOLEAN}
    /\ since' = [since EXCEPT ![p] = wipes]
    /\ launches' = launches + 1
    /\ number' = [number EXCEPT ![p] = launches']
    /\ UNCHANGED <<disk, key, held, todo, icon, stop, history, faults>>

\* NewKeyManager: the key of the keychain, or a new one when there is none.
HasKey(p, k) ==
    /\ key' = [key EXCEPT ![p] = k]
    /\ Goto(p, IF wiper[p] THEN "list" ELSE "check")
    /\ UNCHANGED <<wiper, held, todo, icon, stop, since, number>>

GetKey(p) ==
    /\ At(p, "get")
    /\ \/ keychain # NoKey /\ HasKey(p, keychain) /\ NoFault
       \/ keychain = NoKey /\ SameBut(p, "set") /\ NoFault
       \/ Off(p) /\ Fault
    /\ UNCHANGED <<disk, history, launches>>

SetKey(p) ==
    /\ At(p, "set")
    /\ \/ /\ keychain' = number[p] /\ era' = [era EXCEPT ![number[p]] = wipes]
          /\ HasKey(p, number[p])
          /\ NoFault
       \/ Off(p) /\ Fault /\ UNCHANGED <<keychain, era>>
    /\ UNCHANGED <<consent, tmp, wipes, agreed, spared, launches>>

-----------------------------------------------------------------------------
\* Bugs to catch: a record that cannot be parsed is one without a signature;
\* the signature is not compared.
CheckConsent_IgnoresParseError(p) ==
    /\ At(p, "check")
    /\ IF consent.by \notin Keys
       THEN /\ Goto(p, "resign")
            /\ held' = [held EXCEPT ![p] = consent]
            /\ UNCHANGED <<wiper, key, todo, icon, stop, since, number>>
       ELSE SameBut(p, IF consent = [text |-> "now", by |-> key[p]] THEN "tray" ELSE "ask")
    /\ UNCHANGED <<disk, history, launches, faults>>

CheckConsent_AnySignature(p) ==
    /\ At(p, "check")
    /\ SameBut(p, IF consent.text = "now" THEN "tray" ELSE "ask")
    /\ UNCHANGED <<disk, history, launches, faults>>

\* IsConsentGranted: the record must be readable, signed with the key and for
\* the text as it is now.  An unsigned one is signed and written again first.
CheckConsent(p) ==
    /\ At(p, "check")
    /\ IF consent.by = Unsigned
       THEN /\ Goto(p, "resign")
            /\ held' = [held EXCEPT ![p] = consent]
            /\ UNCHANGED <<wiper, key, todo, icon, stop, since, number>>
       ELSE SameBut(p, IF consent = [text |-> "now", by |-> key[p]] THEN "tray" ELSE "ask")
    /\ UNCHANGED <<disk, history, launches, faults>>

\* os.WriteFile opens and truncates the temporary file, then fills it; the
\* rename fails when there is none or, on Windows, when another process has it
\* open.  An error of the upgrade is ignored, and the held record decides.
Open == {p \in Processes : pc[p] \in {"refill", "fill"}}
MayRename(p) == tmp # NoRecord /\ Open \ {p} = {}
Commit == consent' = tmp /\ tmp' = NoRecord

Decided(p) ==
    /\ Goto(p, IF held[p].text = "now" THEN "tray" ELSE "ask")
    /\ held' = [held EXCEPT ![p] = NoRecord]
    /\ UNCHANGED <<wiper, key, todo, icon, stop, since, number>>

Resign(p) ==
    /\ At(p, "resign")
    /\ \/ tmp' = Torn /\ SameBut(p, "refill") /\ NoFault
       \/ tmp' = tmp /\ Decided(p) /\ Fault
    /\ UNCHANGED <<keychain, consent, history, launches>>

Refill(p) ==
    /\ At(p, "refill")
    /\ \/ tmp' = [held[p] EXCEPT !.by = key[p]] /\ SameBut(p, "recommit") /\ NoFault
       \/ tmp' = tmp /\ Decided(p) /\ Fault
    /\ UNCHANGED <<keychain, consent, history, launches>>

Recommit(p) ==
    /\ At(p, "recommit")
    /\ Decided(p)
    /\ \/ MayRename(p) /\ Commit /\ NoFault
       \/ ~MayRename(p) /\ UNCHANGED <<consent, tmp>> /\ NoFault
       \/ UNCHANGED <<consent, tmp>> /\ Fault
    /\ UNCHANGED <<keychain, history, launches>>

\* RequestConsent: the user agrees, or the launch is over.
Ask(p) ==
    /\ At(p, "ask")
    /\ \/ SameBut(p, "write") /\ agreed' = wipes + 1
       \/ Off(p) /\ UNCHANGED agreed
    /\ UNCHANGED <<disk, wipes, era, spared, launches, faults>>

Write(p) ==
    /\ At(p, "write")
    /\ \/ tmp' = Torn /\ SameBut(p, "fill") /\ NoFault
       \/ tmp' = tmp /\ Off(p) /\ Fault
    /\ UNCHANGED <<keychain, consent, history, launches>>

Fill(p) ==
    /\ At(p, "fill")
    /\ \/ tmp' = [text |-> "now", by |-> key[p]] /\ SameBut(p, "commit") /\ NoFault
       \/ tmp' = tmp /\ Off(p) /\ Fault
    /\ UNCHANGED <<keychain, consent, history, launches>>

CommitConsent(p) ==
    /\ At(p, "commit")
    /\ \/ MayRename(p) /\ Commit /\ SameBut(p, "tray") /\ NoFault
       \/ ~MayRename(p) /\ Off(p) /\ UNCHANGED <<consent, tmp>> /\ NoFault
       \/ Off(p) /\ Fault /\ UNCHANGED <<consent, tmp>>
    /\ UNCHANGED <<keychain, history, launches>>

-----------------------------------------------------------------------------
\* StartTrayIcon, which is fatal when it fails or takes 3 s.
StartTray(p) ==
    /\ At(p, "tray")
    /\ \/ /\ Goto(p, "start")
          /\ icon' = [icon EXCEPT ![p] = "shown"]
          /\ UNCHANGED <<wiper, key, held, todo, stop, since, number>>
          /\ NoFault
       \/ Off(p) /\ Fault
    /\ UNCHANGED <<disk, history, launches>>

\* A bug to catch: the stop is forwarded only to a daemon that has started, as
\* the pause is.
StopClick_NotYet(p) ==
    /\ icon[p] = "shown"
    /\ icon' = [icon EXCEPT ![p] = "quit"]
    /\ stop' = [stop EXCEPT ![p] = At(p, "run")]
    /\ UNCHANGED <<disk, pc, wiper, key, held, todo, since, number, history, launches, faults>>

\* "Stop" in the tray: the icon quits, and stopFn closes stopCh.
StopClick(p) ==
    /\ icon[p] = "shown"
    /\ icon' = [icon EXCEPT ![p] = "quit"]
    /\ stop' = [stop EXCEPT ![p] = TRUE]
    /\ UNCHANGED <<disk, pc, wiper, key, held, todo, since, number, history, launches, faults>>

\* A signal, or the recovery of a panic in a goroutine.
StopOtherwise(p) ==
    /\ At(p, "run") /\ ~stop[p]
    /\ stop' = [stop EXCEPT ![p] = TRUE]
    /\ UNCHANGED <<disk, pc, wiper, key, held, todo, icon, since, number, history, launches, faults>>

\* Ollama, the blocklist, the store and the API: an error ends the launch; a
\* stop is not looked at before all of them are there.
Start(p) ==
    /\ At(p, "start")
    /\ \/ SameBut(p, "run") /\ NoFault
       \/ Off(p) /\ Fault
    /\ UNCHANGED <<disk, history, launches>>

Capturing(p) == pc[p] \in {"run", "drain"}

\* The stop is seen.  The goroutines go on until they see it too.
Shutdown(p) ==
    /\ At(p, "run") /\ stop[p]
    /\ SameBut(p, "drain")
    /\ UNCHANGED <<disk, history, launches, faults>>

\* All goroutines have ended, or 10 s are over.
Exit(p) ==
    /\ At(p, "drain")
    /\ Off(p)
    /\ UNCHANGED <<disk, history, launches, faults>>

-----------------------------------------------------------------------------
\* WipeAll: what os.ReadDir lists is removed, in any order here; an error of
\* the listing ends the wipe, one of a removal is ignored.  Of the files of the
\* directory only the consent is followed: the others die with the key.
Present == {e \in Entries : (IF e = "consent" THEN consent ELSE tmp) # NoRecord}

List(p) ==
    /\ At(p, "list")
    /\ \/ /\ Goto(p, "remove")
          /\ todo' = [todo EXCEPT ![p] = Present]
          /\ UNCHANGED <<wiper, key, held, icon, stop, since, number>>
          /\ NoFault
       \/ Off(p) /\ Fault
    /\ UNCHANGED <<disk, history, launches>>

RemoveEntry(p) ==
    /\ At(p, "remove")
    /\ \E e \in todo[p] :
        /\ todo' = [todo EXCEPT ![p] = @ \ {e}]
        /\ \/ /\ consent' = IF e = "consent" THEN NoRecord ELSE consent
              /\ tmp' = IF e = "tmp" THEN NoRecord ELSE tmp
              /\ NoFault
           \/ UNCHANGED <<consent, tmp>> /\ Fault
    /\ UNCHANGED <<keychain, pc, wiper, key, held, icon, stop, since, number, history, launches>>

Removed(p) ==
    /\ At(p, "remove") /\ todo[p] = {}
    /\ SameBut(p, "again")
    /\ UNCHANGED <<disk, history, launches, faults>>

\* Step 3 removes consent.json once more; what made the first removal fail may
\* be there still.
RemoveConsent(p) ==
    /\ At(p, "again")
    /\ SameBut(p, "delete")
    /\ \/ consent' = NoRecord /\ NoFault
       \/ consent # NoRecord /\ UNCHANGED consent /\ NoFault
    /\ UNCHANGED <<keychain, tmp, history, launches>>

Succeeds ==
    /\ wipes' = wipes + 1
    /\ spared' = (spared \/ consent.by = Unsigned)

\* A bug to catch: an error of the keychain is not reported.
DeleteKey_IgnoresError(p) ==
    /\ At(p, "delete")
    /\ Off(p)
    /\ Succeeds
    /\ \/ keychain' = NoKey /\ NoFault
       \/ UNCHANGED keychain /\ Fault
    /\ UNCHANGED <<consent, tmp, agreed, era, launches>>

\* DeleteKey removes whatever key the keychain has by now; its error is the
\* error of the wipe.
DeleteKey(p) ==
    /\ At(p, "delete")
    /\ Off(p)
    /\ \/ keychain' = NoKey /\ Succeeds /\ NoFault
       \/ UNCHANGED <<keychain, wipes, spared>> /\ Fault
    /\ UNCHANGED <<consent, tmp, agreed, era, launches>>

\* The process is killed, or its computer turned off.
Crash(p) ==
    /\ ~At(p, "off")
    /\ Off(p)
    /\ UNCHANGED <<disk, history, launches, faults>>

Consent(p) ==
    \/ CheckConsent(p) \/ Resign(p) \/ Refill(p) \/ Recommit(p)
    \/ Write(p) \/ Fill(p) \/ CommitConsent(p)
Daemon(p) == StartTray(p) \/ Start(p) \/ Shutdown(p) \/ Exit(p)
Wipe(p) == List(p) \/ RemoveEntry(p) \/ Removed(p) \/ RemoveConsent(p) \/ DeleteKey(p)

Next == \E p \in Processes :
    \/ Launch(p) \/ GetKey(p) \/ SetKey(p)
    \/ Consent(p) \/ Ask(p) \/ Daemon(p) \/ Wipe(p)
    \/ StopClick(p) \/ StopOtherwise(p) \/ Crash(p)

\* run() goes on by itself once the tray is there: every wait has a timeout.
Fairness == \A p \in Processes : WF_vars(Daemon(p))

Spec == Init /\ [][Next]_vars /\ Fairness

-----------------------------------------------------------------------------
\* Who captures has been allowed to: the user has agreed to the text as it is
\* now, and after the last wipe that had succeeded when the process was
\* launched.  Records signed with a key that a wipe has deleted do not count,
\* whatever half-done write or upgrade brings them back; only an unsigned
\* record that could not be removed does (loadConsentRecord, WipeAll).
ConsentBeforeCapture ==
    \A p \in Processes : Capturing(p) /\ ~spared => agreed > since[p]

\* What was stored when a wipe succeeded is never readable again: the keychain
\* has only keys that are younger than the last such wipe, and so has every
\* process that was launched since, though other processes set and delete keys
\* meanwhile (WipeAll, DeleteKey, NewKeyManager).
WipedStaysUnreadable ==
    /\ keychain \in Keys => era[keychain] = wipes
    /\ \A p \in Processes : key[p] \in Keys => era[key[p]] >= since[p]

\* A stop from the tray ends the process wherever its start-up is, and however
\* long its goroutines hang (StartTrayIcon's onStop, run's shutdown).
StopEnds == \A p \in Processes : icon[p] = "quit" ~> pc[p] = "off"
=============================================================================
