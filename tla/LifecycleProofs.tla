--------------------------- MODULE LifecycleProofs ---------------------------
(***************************************************************************)
(* Proofs about Lifecycle, for any number of processes, launches and       *)
(* faults: its types, that what a wipe ended stays unreadable, and that    *)
(* nobody captures without a consent that is younger than the last wipe.   *)
(***************************************************************************)
EXTENDS Lifecycle, TLAPS

Some(p) ==
    \/ Launch(p) \/ GetKey(p) \/ SetKey(p)
    \/ Consent(p) \/ Ask(p) \/ Daemon(p) \/ Wipe(p)
    \/ StopClick(p) \/ StopOtherwise(p) \/ Crash(p)

-----------------------------------------------------------------------------
\* The memory of a process that ends or only moves on keeps its types.
MemoryTyped ==
    /\ pc \in [Processes -> Steps]
    /\ wiper \in [Processes -> BOOLEAN]
    /\ key \in [Processes -> Keys \cup {NoKey}]
    /\ held \in [Processes -> Record \cup {NoRecord}]
    /\ todo \in [Processes -> SUBSET Entries]
    /\ icon \in [Processes -> {"none", "shown", "quit"}]
    /\ stop \in [Processes -> BOOLEAN]
    /\ since \in [Processes -> Nat] /\ number \in [Processes -> 0 .. MaxLaunches]

DiskTyped ==
    /\ keychain \in Keys \cup {NoKey}
    /\ consent \in Contents /\ tmp \in Contents

CountsTyped ==
    /\ launches \in 0 .. MaxLaunches /\ faults \in 0 .. MaxFaults
    /\ wipes \in Nat /\ agreed \in Nat /\ era \in [Keys -> Nat]
    /\ spared \in BOOLEAN

\* Past NewKeyManager there is a key, and what is about to be signed again is
\* an unsigned record.
Keyed == \A p \in Processes : pc[p] \notin {"off", "get", "set"} => key[p] \in Keys
Held == \A p \in Processes :
    pc[p] \in {"resign", "refill", "recommit"} => held[p] \in Record /\ held[p].by = Unsigned
Placed == Keyed /\ Held

LEMMA TypeParts == TypeOK <=> MemoryTyped /\ DiskTyped /\ CountsTyped
  BY DEF TypeOK, MemoryTyped, DiskTyped, CountsTyped

LEMMA OffTyped ==
  ASSUME MemoryTyped, NEW p \in Processes, Off(p)
  PROVE MemoryTyped'
  BY DEF MemoryTyped, Off, Goto, Steps, Keys

LEMMA SameButTyped ==
  ASSUME MemoryTyped, NEW p \in Processes, NEW step \in Steps, SameBut(p, step)
  PROVE MemoryTyped'
  BY DEF MemoryTyped, SameBut, Goto, Memory

LEMMA FaultTyped ==
  ASSUME faults \in 0 .. MaxFaults, Fault \/ NoFault
  PROVE faults' \in 0 .. MaxFaults
  BY BoundsAssumption DEF Fault, NoFault

LEMMA HasKeyTyped ==
  ASSUME MemoryTyped, NEW p \in Processes, NEW k \in Keys, HasKey(p, k)
  PROVE MemoryTyped'
  <1>1. pc' \in [Processes -> Steps]
    BY DEF MemoryTyped, HasKey, Goto, Steps
  <1>2. key' \in [Processes -> Keys \cup {NoKey}]
    BY DEF MemoryTyped, HasKey
  <1>. QED BY <1>1, <1>2 DEF MemoryTyped, HasKey

LEMMA DecidedTyped ==
  ASSUME MemoryTyped, NEW p \in Processes, Decided(p)
  PROVE MemoryTyped'
  BY DEF MemoryTyped, Decided, Goto, Steps

LEMMA MemoryStep ==
  ASSUME TypeOK, NEW p \in Processes, Some(p)
  PROVE MemoryTyped'
  <1>. USE TypeParts
  <1>m. MemoryTyped
    OBVIOUS
  <1>1. ASSUME Off(p) PROVE MemoryTyped'
    BY <1>m, <1>1, OffTyped
  <1>2. ASSUME NEW step \in Steps, SameBut(p, step) PROVE MemoryTyped'
    BY <1>m, <1>2, SameButTyped
  <1>3. CASE Launch(p)
    <2>1. launches' \in 0 .. MaxLaunches
      BY <1>3, BoundsAssumption DEF Launch, TypeOK
    <2>. QED BY <1>m, <1>3, <2>1 DEF Launch, MemoryTyped, Goto, Steps, TypeOK
  <1>4. CASE GetKey(p)
    <2>1. ASSUME keychain # NoKey, HasKey(p, keychain) PROVE MemoryTyped'
      BY <1>m, <2>1, HasKeyTyped DEF TypeOK
    <2>. QED BY <1>1, <1>2, <1>4, <2>1 DEF GetKey, Steps
  <1>5. CASE SetKey(p)
    <2>1. number[p] \in Keys
      BY DEF TypeOK, Keys
    <2>. QED BY <1>1, <1>m, <1>5, <2>1, HasKeyTyped DEF SetKey
  <1>6. CASE Consent(p)
    <2>1. CASE CheckConsent(p)
      <3>1. CASE consent.by = Unsigned
        <4>1. consent \in Record
          BY <3>1, BoundsAssumption DEF TypeOK, Contents, NoRecord, Torn, Unsigned, NoKey, Keys
        <4>. QED BY <1>m, <2>1, <3>1, <4>1 DEF CheckConsent, MemoryTyped, Goto, Steps
      <3>. QED BY <1>2, <2>1, <3>1 DEF CheckConsent, Steps
    <2>2. CASE Resign(p) \/ Refill(p)
      BY <1>m, <1>2, <2>2, DecidedTyped DEF Resign, Refill, Steps
    <2>3. CASE Recommit(p)
      BY <1>m, <2>3, DecidedTyped DEF Recommit
    <2>4. CASE Write(p) \/ Fill(p) \/ CommitConsent(p)
      BY <1>1, <1>2, <2>4 DEF Write, Fill, CommitConsent, Steps
    <2>. QED BY <1>6, <2>1, <2>2, <2>3, <2>4 DEF Consent
  <1>7. CASE Ask(p)
    BY <1>1, <1>2, <1>7 DEF Ask, Steps
  <1>8. CASE Daemon(p)
    <2>1. CASE StartTray(p)
      BY <1>1, <1>m, <2>1 DEF StartTray, MemoryTyped, Goto, Steps
    <2>. QED BY <1>1, <1>2, <1>8, <2>1 DEF Daemon, Start, Shutdown, Exit, Steps
  <1>9. CASE Wipe(p)
    <2>1. CASE List(p)
      <3>1. Present \in SUBSET Entries
        BY DEF Present
      <3>. QED BY <1>1, <1>m, <2>1, <3>1 DEF List, MemoryTyped, Goto, Steps
    <2>2. CASE RemoveEntry(p)
      BY <1>m, <2>2 DEF RemoveEntry, MemoryTyped
    <2>. QED BY <1>1, <1>2, <1>9, <2>1, <2>2 DEF Wipe, Removed, RemoveConsent, DeleteKey, Steps
  <1>10. CASE StopClick(p) \/ StopOtherwise(p)
    BY <1>m, <1>10 DEF StopClick, StopOtherwise, MemoryTyped
  <1>11. CASE Crash(p)
    BY <1>1, <1>11 DEF Crash
  <1>. QED BY <1>3, <1>4, <1>5, <1>6, <1>7, <1>8, <1>9, <1>10, <1>11 DEF Some

LEMMA DiskStep ==
  ASSUME TypeOK, Placed, NEW p \in Processes, Some(p)
  PROVE DiskTyped'
  <1>. USE DEF DiskTyped
  <1>d. DiskTyped
    BY TypeParts
  <1>1. ASSUME UNCHANGED disk PROVE DiskTyped'
    BY <1>1, <1>d DEF disk
  <1>2. CASE Launch(p) \/ GetKey(p) \/ Ask(p) \/ Daemon(p) \/ StopClick(p)
             \/ StopOtherwise(p) \/ Crash(p) \/ CheckConsent(p) \/ List(p) \/ Removed(p)
    BY <1>1, <1>2 DEF Launch, GetKey, Ask, Daemon, StartTray, Start, Shutdown, Exit, StopClick,
       StopOtherwise, Crash, CheckConsent, List, Removed
  <1>3. CASE SetKey(p)
    BY <1>d, <1>3 DEF SetKey, TypeOK, Keys
  <1>4. CASE Resign(p) \/ Write(p)
    BY <1>d, <1>4 DEF Resign, Write, Contents
  <1>5. CASE Refill(p)
    <2>1. At(p, "refill") => held[p] \in Record /\ key[p] \in Keys
      BY DEF Placed, Keyed, Held, At
    <2>2. At(p, "refill") => [held[p] EXCEPT !.by = key[p]] \in Contents
      BY <2>1 DEF Record, Contents
    <2>. QED BY <1>d, <1>5, <2>2 DEF Refill
  <1>6. CASE Fill(p)
    <2>1. key[p] \in Keys
      BY <1>6 DEF Fill, At, Placed, Keyed
    <2>2. [text |-> "now", by |-> key[p]] \in Contents
      BY <2>1 DEF Record, Contents
    <2>. QED BY <1>d, <1>6, <2>2 DEF Fill
  <1>7. CASE Recommit(p) \/ CommitConsent(p)
    BY <1>d, <1>7 DEF Recommit, CommitConsent, Commit, Contents
  <1>8. CASE RemoveEntry(p) \/ RemoveConsent(p)
    BY <1>d, <1>8 DEF RemoveEntry, RemoveConsent, Contents
  <1>9. CASE DeleteKey(p)
    BY <1>d, <1>9 DEF DeleteKey
  <1>. QED BY <1>2, <1>3, <1>4, <1>5, <1>6, <1>7, <1>8, <1>9 DEF Some, Consent, Wipe


LEMMA CountsStep ==
  ASSUME TypeOK, NEW p \in Processes, Some(p)
  PROVE CountsTyped'
  <1>1. CountsTyped
    BY TypeParts
  <1>2. launches' \in 0 .. MaxLaunches
    BY <1>1, BoundsAssumption
       DEF CountsTyped, Some, Launch, GetKey, SetKey, Consent, CheckConsent, Resign, Refill,
           Recommit, Write, Fill, CommitConsent, Ask, Daemon, StartTray, Start, Shutdown, Exit,
           Wipe, List, RemoveEntry, Removed, RemoveConsent, DeleteKey, StopClick, StopOtherwise, Crash
  <1>3. faults' \in 0 .. MaxFaults
    BY <1>1, FaultTyped
       DEF CountsTyped, Fault, NoFault, Some, Launch, GetKey, SetKey, Consent, CheckConsent, Resign,
           Refill, Recommit, Write, Fill, CommitConsent, Ask, Daemon, StartTray, Start, Shutdown,
           Exit, Wipe, List, RemoveEntry, Removed, RemoveConsent, DeleteKey, StopClick,
           StopOtherwise, Crash
  <1>4. /\ wipes' \in Nat /\ agreed' \in Nat
        /\ era' \in [Keys -> Nat]
        /\ spared' \in BOOLEAN
    <2>1. CASE UNCHANGED history
      BY <1>1, <2>1 DEF CountsTyped, history
    <2>2. CASE SetKey(p)
      BY <1>1, <2>2 DEF SetKey, CountsTyped
    <2>3. CASE Ask(p)
      BY <1>1, <2>3 DEF Ask, CountsTyped
    <2>4. CASE DeleteKey(p)
      <3>1. spared' \in BOOLEAN
        BY <1>1, <2>4 DEF DeleteKey, Succeeds, CountsTyped
      <3>. QED BY <1>1, <2>4, <3>1 DEF DeleteKey, Succeeds, CountsTyped
    <2>. QED BY <2>1, <2>2, <2>3, <2>4
       DEF Some, Launch, GetKey, Consent, CheckConsent, Resign, Refill,
           Recommit, Write, Fill, CommitConsent, Daemon, StartTray, Start, Shutdown, Exit,
           Wipe, List, RemoveEntry, Removed, RemoveConsent, StopClick, StopOtherwise, Crash
  <1>. QED BY <1>2, <1>3, <1>4 DEF CountsTyped

-----------------------------------------------------------------------------
LEMMA PlacedStep ==
  ASSUME TypeOK, Placed, NEW p \in Processes, Some(p)
  PROVE Placed'
  <1>t. MemoryTyped
    BY TypeParts
  <1>1. ASSUME Off(p) PROVE Placed'
    BY <1>1, <1>t DEF Off, Goto, Placed, Keyed, Held, MemoryTyped
  <1>2. ASSUME NEW step \in Steps \ {"off", "get", "set", "resign", "refill", "recommit"},
               SameBut(p, step), ~At(p, "off"), ~At(p, "get"), ~At(p, "set")
        PROVE Placed'
    BY <1>2, <1>t DEF SameBut, Goto, Memory, At, Placed, Keyed, Held, MemoryTyped
  <1>3. ASSUME NEW k \in Keys, HasKey(p, k) PROVE Placed'
    BY <1>3, <1>t DEF HasKey, Goto, Placed, Keyed, Held, MemoryTyped
  <1>4. ASSUME Decided(p), key[p] \in Keys PROVE Placed'
    BY <1>4, <1>t DEF Decided, Goto, Placed, Keyed, Held, MemoryTyped
  <1>5. CASE Launch(p)
    BY <1>5, <1>t DEF Launch, Goto, Placed, Keyed, Held, MemoryTyped
  <1>6. CASE GetKey(p)
    <2>1. CASE keychain = NoKey /\ SameBut(p, "set")
      BY <2>1, <1>t DEF SameBut, Goto, Memory, Placed, Keyed, Held, MemoryTyped
    <2>2. CASE keychain # NoKey /\ HasKey(p, keychain)
      BY <2>2, <1>3 DEF TypeOK
    <2>. QED BY <1>1, <1>6, <2>1, <2>2 DEF GetKey
  <1>7. CASE SetKey(p)
    BY <1>1, <1>3, <1>7 DEF SetKey, TypeOK, Keys
  <1>8. CASE CheckConsent(p)
    <2>1. CASE consent.by = Unsigned
      <3>1. consent \in Record
        BY <2>1, BoundsAssumption DEF TypeOK, Contents, NoRecord, Torn, Unsigned, NoKey, Keys
      <3>. QED BY <1>8, <1>t, <2>1, <3>1 DEF CheckConsent, Goto, At, Placed, Keyed, Held, MemoryTyped
    <2>. QED BY <1>2, <1>8, <2>1 DEF CheckConsent, At, Steps
  <1>9. CASE Resign(p)
    <2>1. CASE SameBut(p, "refill")
      BY <1>9, <1>t, <2>1 DEF Resign, SameBut, Goto, Memory, At, Placed, Keyed, Held, MemoryTyped
    <2>. QED BY <1>4, <1>9, <2>1 DEF Resign, At, Placed, Keyed
  <1>10. CASE Refill(p)
    <2>1. CASE SameBut(p, "recommit")
      BY <1>10, <1>t, <2>1 DEF Refill, SameBut, Goto, Memory, At, Placed, Keyed, Held, MemoryTyped
    <2>. QED BY <1>4, <1>10, <2>1 DEF Refill, At, Placed, Keyed
  <1>11. CASE Recommit(p)
    BY <1>4, <1>11 DEF Recommit, At, Placed, Keyed
  <1>12. CASE Ask(p) \/ Write(p) \/ Fill(p) \/ CommitConsent(p)
    BY <1>1, <1>2, <1>12 DEF Ask, Write, Fill, CommitConsent, At, Steps
  <1>13. CASE StartTray(p)
    <2>1. CASE Goto(p, "start")
      BY <1>13, <1>t, <2>1 DEF StartTray, Off, Goto, At, Placed, Keyed, Held, MemoryTyped
    <2>. QED BY <1>1, <1>13, <2>1 DEF StartTray
  <1>14. CASE Start(p) \/ Shutdown(p) \/ Exit(p)
    BY <1>1, <1>2, <1>14 DEF Start, Shutdown, Exit, At, Steps
  <1>15. CASE List(p)
    <2>1. CASE Goto(p, "remove")
      BY <1>15, <1>t, <2>1 DEF List, Off, Goto, At, Placed, Keyed, Held, MemoryTyped
    <2>. QED BY <1>1, <1>15, <2>1 DEF List
  <1>16. CASE RemoveEntry(p)
    BY <1>16 DEF RemoveEntry, Placed, Keyed, Held
  <1>17. CASE Removed(p) \/ RemoveConsent(p) \/ DeleteKey(p)
    BY <1>1, <1>2, <1>17 DEF Removed, RemoveConsent, DeleteKey, At, Steps
  <1>18. CASE StopClick(p) \/ StopOtherwise(p)
    BY <1>18 DEF StopClick, StopOtherwise, Placed, Keyed, Held
  <1>19. CASE Crash(p)
    BY <1>1, <1>19 DEF Crash
  <1>. QED BY <1>5, <1>6, <1>7, <1>8, <1>9, <1>10, <1>11, <1>12, <1>13, <1>14, <1>15, <1>16,
              <1>17, <1>18, <1>19 DEF Some, Consent, Daemon, Wipe


Typed == TypeOK /\ Placed

LEMMA TypedAtFirst == Init => Typed
  <1>. SUFFICES ASSUME Init PROVE Typed
    OBVIOUS
  <1>1. keychain \in Keys \cup {NoKey}
    BY BoundsAssumption DEF Init, Keys
  <1>2. consent \in Contents
    BY DEF Init, Contents, Record
  <1>3. MemoryTyped
    <2>1. pc \in [Processes -> Steps] /\ icon \in [Processes -> {"none", "shown", "quit"}]
      BY DEF Init, Steps
    <2>2. wiper \in [Processes -> BOOLEAN] /\ stop \in [Processes -> BOOLEAN]
      BY DEF Init
    <2>3. key \in [Processes -> Keys \cup {NoKey}]
      BY DEF Init
    <2>4. held \in [Processes -> Record \cup {NoRecord}]
      BY DEF Init
    <2>5. todo \in [Processes -> SUBSET Entries]
      BY DEF Init
    <2>6. since \in [Processes -> Nat] /\ number \in [Processes -> 0 .. MaxLaunches]
      BY BoundsAssumption DEF Init
    <2>. QED BY <2>1, <2>2, <2>3, <2>4, <2>5, <2>6 DEF MemoryTyped
  <1>4. DiskTyped
    BY <1>1, <1>2 DEF Init, DiskTyped, Contents
  <1>5. CountsTyped
    <2>1. spared \in BOOLEAN
      BY DEF Init
    <2>2. launches \in 0 .. MaxLaunches /\ faults \in 0 .. MaxFaults
      BY BoundsAssumption DEF Init
    <2>3. wipes \in Nat /\ era \in [Keys -> Nat]
      BY DEF Init
    <2>4. agreed \in Nat
      BY DEF Init
    <2>. QED BY <2>1, <2>2, <2>3, <2>4 DEF CountsTyped
  <1>6. Placed
    BY DEF Init, Placed, Keyed, Held
  <1>. QED BY <1>3, <1>4, <1>5, <1>6, TypeParts DEF Typed

LEMMA TypedNext == Typed /\ [Next]_vars => Typed'
  <1>. SUFFICES ASSUME Typed, [Next]_vars PROVE Typed'
    OBVIOUS
  <1>t. TypeOK /\ Placed
    BY DEF Typed
  <1>1. CASE UNCHANGED vars
    BY <1>1, <1>t DEF vars, disk, process, history, Typed, TypeOK, Placed, Keyed, Held
  <1>2. ASSUME NEW p \in Processes, Some(p) PROVE Typed'
    <2>1. MemoryTyped' /\ DiskTyped' /\ CountsTyped' /\ Placed'
      BY <1>t, <1>2, MemoryStep, DiskStep, CountsStep, PlacedStep
    <2>. QED BY <2>1 DEF Typed, TypeOK, MemoryTyped, DiskTyped, CountsTyped
  <1>. QED BY <1>1, <1>2 DEF Next, Some

\* The types hold, and so do the facts about where a process is that they need.
THEOREM TypedAlways == Spec => []Typed
  BY TypedAtFirst, TypedNext, PTL DEF Spec

\* Every variable stays in its type (all of Lifecycle's operations).
THEOREM TypeCorrect == Spec => []TypeOK
  <1>1. Typed => TypeOK
    BY DEF Typed
  <1>. QED BY <1>1, TypedAlways, PTL

-----------------------------------------------------------------------------

\* What the history says of the keys: none came after the wipes counted so far,
\* and a process that has no key yet holds none.
Keyless == \A p \in Processes : pc[p] \in {"off", "get", "set"} => key[p] = NoKey
Past ==
    /\ \A k \in Keys : era[k] <= wipes
    /\ \A p \in Processes : since[p] <= wipes
Ages == Keyless /\ Past /\ WipedStaysUnreadable

LEMMA KeylessStep ==
  ASSUME TypeOK, Keyless, NEW p \in Processes, Some(p)
  PROVE Keyless'
  <1>t. MemoryTyped
    BY TypeParts
  <1>1. ASSUME Off(p) PROVE Keyless'
    BY <1>1, <1>t DEF Off, Goto, Keyless, MemoryTyped
  <1>2. ASSUME NEW step \in Steps \ {"off", "get", "set"}, SameBut(p, step) PROVE Keyless'
    BY <1>2, <1>t DEF SameBut, Goto, Memory, Keyless, MemoryTyped
  <1>3. ASSUME NEW k \in Keys, HasKey(p, k) PROVE Keyless'
    BY <1>3, <1>t DEF HasKey, Goto, Keyless, MemoryTyped
  <1>4. ASSUME Decided(p) PROVE Keyless'
    BY <1>4, <1>t DEF Decided, Goto, Keyless, MemoryTyped
  <1>5. CASE Launch(p)
    BY <1>5, <1>t DEF Launch, At, Goto, Keyless, MemoryTyped
  <1>6. CASE GetKey(p)
    <2>1. CASE keychain = NoKey /\ SameBut(p, "set")
      BY <1>6, <1>t, <2>1 DEF GetKey, At, SameBut, Goto, Memory, Keyless, MemoryTyped
    <2>2. CASE keychain # NoKey /\ HasKey(p, keychain)
      BY <1>3, <2>2 DEF TypeOK
    <2>. QED BY <1>1, <1>6, <2>1, <2>2 DEF GetKey
  <1>7. CASE SetKey(p)
    BY <1>1, <1>3, <1>7 DEF SetKey, TypeOK, Keys
  <1>8. CASE Consent(p)
    <2>1. CASE CheckConsent(p)
      BY <1>2, <1>t, <2>1 DEF CheckConsent, Goto, Keyless, MemoryTyped, Steps
    <2>. QED BY <1>1, <1>2, <1>4, <1>8, <2>1
       DEF Consent, Resign, Refill, Recommit, Write, Fill, CommitConsent, Steps
  <1>9. CASE Ask(p)
    BY <1>1, <1>2, <1>9 DEF Ask, Steps
  <1>10. CASE Daemon(p)
    <2>1. CASE StartTray(p)
      BY <1>1, <1>t, <2>1 DEF StartTray, Goto, Keyless, MemoryTyped
    <2>. QED BY <1>1, <1>2, <1>10, <2>1 DEF Daemon, Start, Shutdown, Exit, Steps
  <1>11. CASE Wipe(p)
    <2>1. CASE List(p) \/ RemoveEntry(p)
      BY <1>1, <1>t, <2>1 DEF List, RemoveEntry, Goto, Keyless, MemoryTyped
    <2>. QED BY <1>1, <1>2, <1>11, <2>1 DEF Wipe, Removed, RemoveConsent, DeleteKey, Steps
  <1>12. CASE StopClick(p) \/ StopOtherwise(p)
    BY <1>12 DEF StopClick, StopOtherwise, Keyless
  <1>13. CASE Crash(p)
    BY <1>1, <1>13 DEF Crash
  <1>. QED BY <1>5, <1>6, <1>7, <1>8, <1>9, <1>10, <1>11, <1>12, <1>13 DEF Some

\* But for a launch and a new key, a step only takes keys away or copies the
\* one of the keychain, and counts at most one more wipe, which empties it.
LEMMA KeysMove ==
  ASSUME TypeOK, NEW p \in Processes, Some(p), ~Launch(p), ~SetKey(p)
  PROVE /\ UNCHANGED <<since, number, launches, era>>
        /\ \A q \in Processes : key'[q] \in {key[q], keychain, NoKey}
        /\ \/ UNCHANGED <<keychain, wipes, spared>>
           \/ keychain' = NoKey /\ wipes' = wipes + 1 /\ DeleteKey(p)
  <1>t. MemoryTyped
    BY TypeParts
  <1>1. ASSUME Off(p)
        PROVE /\ UNCHANGED <<since, number>>
              /\ \A q \in Processes : key'[q] \in {key[q], keychain, NoKey}
    BY <1>1, <1>t DEF Off, MemoryTyped
  <1>2. ASSUME UNCHANGED <<key, since, number>>
        PROVE /\ UNCHANGED <<since, number>>
              /\ \A q \in Processes : key'[q] \in {key[q], keychain, NoKey}
    BY <1>2
  <1>3. ASSUME HasKey(p, keychain)
        PROVE /\ UNCHANGED <<since, number>>
              /\ \A q \in Processes : key'[q] \in {key[q], keychain, NoKey}
    BY <1>3, <1>t DEF HasKey, MemoryTyped
  <1>4. /\ UNCHANGED <<since, number>>
        /\ \A q \in Processes : key'[q] \in {key[q], keychain, NoKey}
    <2>1. Off(p) \/ UNCHANGED <<key, since, number>> \/ HasKey(p, keychain)
      BY DEF Some, GetKey, Consent, CheckConsent, Resign, Refill, Recommit, Decided, Write, Fill,
             CommitConsent, Ask, Daemon, StartTray, Start, Shutdown, Exit, Wipe, List, RemoveEntry,
             Removed, RemoveConsent, DeleteKey, StopClick, StopOtherwise, Crash, SameBut, Memory
    <2>. QED BY <1>1, <1>2, <1>3, <2>1
  <1>5. /\ UNCHANGED <<launches, era>>
        /\ \/ UNCHANGED <<keychain, wipes, spared>>
           \/ keychain' = NoKey /\ wipes' = wipes + 1 /\ DeleteKey(p)
    BY DEF Some, GetKey, Consent, CheckConsent, Resign, Refill, Recommit, Write, Fill,
           CommitConsent, Ask, Daemon, StartTray, Start, Shutdown, Exit, Wipe, List, RemoveEntry,
           Removed, RemoveConsent, DeleteKey, Succeeds, StopClick, StopOtherwise, Crash, disk, history
  <1>. QED BY <1>4, <1>5

LEMMA AgesStep ==
  ASSUME Typed, Ages, NEW p \in Processes, Some(p)
  PROVE Ages'
  <1>t. TypeOK /\ MemoryTyped /\ CountsTyped /\ Placed
    BY TypeParts DEF Typed
  <1>a. Keyless /\ Past /\ WipedStaysUnreadable
    BY DEF Ages
  <1>k. Keyless'
    BY <1>t, <1>a, KeylessStep
  <1>n. NoKey \notin Keys /\ Keys \subseteq Nat
    BY BoundsAssumption DEF NoKey, Keys
  <1>1. CASE Launch(p)
    <2>1. /\ \A q \in Processes : key'[q] \in Keys => q # p
          /\ UNCHANGED <<keychain, key, wipes, era>>
          /\ \A q \in Processes : since'[q] = (IF q = p THEN wipes ELSE since[q])
      BY <1>1, <1>a, <1>n, <1>t DEF Launch, At, Keyless, disk, history, MemoryTyped
    <2>. QED BY <2>1, <1>a, <1>k, <1>t DEF Ages, Past, WipedStaysUnreadable, CountsTyped
  <1>2. CASE SetKey(p)
    <2>1. UNCHANGED <<wipes, since>>
      BY <1>2 DEF SetKey, Off, HasKey
    <2>2. CASE UNCHANGED <<keychain, era>> /\ Off(p)
      <3>1. \A q \in Processes : key'[q] \in {key[q], NoKey}
        BY <2>2, <1>t DEF Off, MemoryTyped
      <3>. QED BY <2>1, <2>2, <3>1, <1>a, <1>k, <1>n DEF Ages, Past, WipedStaysUnreadable
    <2>3. CASE /\ keychain' = number[p] /\ era' = [era EXCEPT ![number[p]] = wipes]
               /\ HasKey(p, number[p])
      <3>1. number[p] \in Keys
        BY <1>t DEF MemoryTyped, Keys
      <3>2. \A k \in Keys : era'[k] = (IF k = number[p] THEN wipes ELSE era[k])
        BY <2>3, <1>t DEF CountsTyped
      <3>3. \A q \in Processes : key'[q] = (IF q = p THEN number[p] ELSE key[q])
        BY <2>3, <1>t DEF HasKey, MemoryTyped
      <3>4. Past'
        BY <1>a, <1>t, <2>1, <3>2 DEF Past, CountsTyped
      <3>5. WipedStaysUnreadable'
        BY <1>a, <1>t, <2>1, <2>3, <3>1, <3>2, <3>3 DEF Past, WipedStaysUnreadable, CountsTyped, MemoryTyped
      <3>. QED BY <1>k, <3>4, <3>5 DEF Ages
    <2>. QED BY <1>2, <2>2, <2>3 DEF SetKey
  <1>3. CASE ~Launch(p) /\ ~SetKey(p)
    <2>1. /\ UNCHANGED <<since, era>>
          /\ \A q \in Processes : key'[q] \in {key[q], keychain, NoKey}
          /\ \/ UNCHANGED <<keychain, wipes>>
             \/ keychain' = NoKey /\ wipes' = wipes + 1
      BY <1>3, <1>t, KeysMove
    <2>2. Past'
      BY <1>a, <1>t, <2>1 DEF Past, CountsTyped, MemoryTyped
    <2>3. WipedStaysUnreadable'
      BY <1>a, <1>n, <1>t, <2>1 DEF Past, WipedStaysUnreadable, CountsTyped, MemoryTyped
    <2>. QED BY <1>k, <2>2, <2>3 DEF Ages
  <1>. QED BY <1>1, <1>2, <1>3

LEMMA AgesAtFirst == Init => Ages
  BY BoundsAssumption DEF Init, Ages, Keyless, Past, WipedStaysUnreadable, Keys, NoKey

LEMMA AgesNext == Typed /\ Ages /\ [Next]_vars => Ages'
  <1>. SUFFICES ASSUME Typed, Ages, [Next]_vars PROVE Ages'
    OBVIOUS
  <1>1. CASE UNCHANGED vars
    BY <1>1 DEF vars, disk, process, history, Ages, Keyless, Past, WipedStaysUnreadable
  <1>2. ASSUME NEW p \in Processes, Some(p) PROVE Ages'
    BY <1>2, AgesStep
  <1>. QED BY <1>1, <1>2 DEF Next, Some

\* The keychain has no key from before the last wipe that succeeded, and no
\* process launched since holds one (WipeAll, DeleteKey, NewKeyManager).
THEOREM WipedHolds == Spec => []WipedStaysUnreadable
  <1>1. Ages => WipedStaysUnreadable
    BY DEF Ages
  <1>. QED BY <1>1, AgesAtFirst, AgesNext, TypedAlways, PTL DEF Spec

-----------------------------------------------------------------------------
\* A step is one process's; the memory of the others stays.
LEMMA OthersStay ==
  ASSUME MemoryTyped, NEW p \in Processes, Some(p), NEW q \in Processes, q # p
  PROVE pc'[q] = pc[q] /\ key'[q] = key[q] /\ held'[q] = held[q] /\ number'[q] = number[q]
  <1>. DEFINE Same == pc'[q] = pc[q] /\ key'[q] = key[q] /\ held'[q] = held[q] /\ number'[q] = number[q]
  <1>1. ASSUME Off(p) PROVE Same
    BY <1>1 DEF Off, Goto, MemoryTyped
  <1>2. ASSUME NEW step \in Steps, SameBut(p, step) PROVE Same
    BY <1>2 DEF SameBut, Goto, Memory, MemoryTyped
  <1>3. ASSUME NEW k \in Keys \cup {NoKey}, HasKey(p, k) \/ Decided(p) PROVE Same
    BY <1>3 DEF HasKey, Decided, Goto, MemoryTyped
  <1>4. CASE Launch(p) \/ (CheckConsent(p) /\ consent.by = Unsigned)
    BY <1>4 DEF Launch, CheckConsent, Goto, MemoryTyped
  <1>5. CASE GetKey(p) \/ SetKey(p)
    <2>1. ASSUME NEW k, HasKey(p, k) PROVE Same
      BY <2>1 DEF HasKey, Goto, MemoryTyped
    <2>. QED BY <1>1, <1>2, <1>5, <2>1 DEF GetKey, SetKey, Steps
  <1>6. CASE Consent(p)
    <2>1. Decided(p) => Same
      BY DEF Decided, Goto, MemoryTyped
    <2>. QED BY <1>1, <1>2, <1>4, <1>6, <2>1
       DEF Consent, CheckConsent, Resign, Refill, Recommit, Write, Fill, CommitConsent, Steps
  <1>7. CASE Ask(p) \/ Start(p) \/ Shutdown(p) \/ Exit(p) \/ Removed(p) \/ RemoveConsent(p)
             \/ DeleteKey(p) \/ Crash(p)
    BY <1>1, <1>2, <1>7 DEF Ask, Start, Shutdown, Exit, Removed, RemoveConsent, DeleteKey, Crash, Steps
  <1>8. CASE StartTray(p) \/ List(p) \/ RemoveEntry(p) \/ StopClick(p) \/ StopOtherwise(p)
    BY <1>1, <1>8 DEF StartTray, List, RemoveEntry, StopClick, StopOtherwise, Goto, MemoryTyped
  <1>. QED BY <1>4, <1>5, <1>6, <1>7, <1>8 DEF Some, Daemon, Wipe

\* Only a launch brings a process to where it has no key yet.
LEMMA OnlyLaunchedAreKeyless ==
  ASSUME MemoryTyped, NEW p \in Processes, Some(p), ~Launch(p), pc'[p] \in {"get", "set"}
  PROVE pc[p] \in {"get", "set"}
  <1>1. Off(p) => pc'[p] = "off"
    BY DEF Off, Goto, MemoryTyped
  <1>2. ASSUME NEW step \in Steps, SameBut(p, step) PROVE pc'[p] = step
    BY <1>2 DEF SameBut, Goto, MemoryTyped
  <1>3. Decided(p) => pc'[p] \in {"tray", "ask"}
    BY DEF Decided, Goto, MemoryTyped
  <1>4. CASE GetKey(p) \/ SetKey(p)
    BY <1>4 DEF GetKey, SetKey, At
  <1>5. CASE Consent(p)
    <2>1. CASE CheckConsent(p)
      BY <1>2, <2>1 DEF CheckConsent, Goto, MemoryTyped, Steps
    <2>. QED BY <1>1, <1>2, <1>3, <1>5, <2>1
       DEF Consent, Resign, Refill, Recommit, Write, Fill, CommitConsent, Steps
  <1>6. CASE Ask(p) \/ Start(p) \/ Shutdown(p) \/ Exit(p) \/ Removed(p) \/ RemoveConsent(p)
             \/ DeleteKey(p) \/ Crash(p)
    BY <1>1, <1>2, <1>6 DEF Ask, Start, Shutdown, Exit, Removed, RemoveConsent, DeleteKey, Crash, Steps
  <1>7. CASE StartTray(p) \/ List(p) \/ RemoveEntry(p) \/ StopClick(p) \/ StopOtherwise(p)
    BY <1>1, <1>7 DEF StartTray, List, RemoveEntry, StopClick, StopOtherwise, Goto, MemoryTyped
  <1>. QED BY <1>4, <1>5, <1>6, <1>7 DEF Some, Daemon, Wipe

\* A record is copied, removed, torn, or signed with the key of its writer.
Signs(p, r) == r.text \in {"now", "before"} /\ r.by = key[p]

LEMMA RecordsMove ==
  ASSUME Typed, NEW p \in Processes, Some(p)
  PROVE /\ consent' \in {consent, tmp, NoRecord}
        /\ \/ tmp' \in {tmp, NoRecord, Torn}
           \/ tmp' = [held[p] EXCEPT !.by = key[p]] /\ pc[p] = "refill" /\ Signs(p, tmp')
           \/ tmp' = [text |-> "now", by |-> key[p]] /\ pc[p] = "fill" /\ Signs(p, tmp')
  <1>1. CASE Refill(p)
    <2>1. pc[p] = "refill"
      BY <1>1 DEF Refill, At
    <2>2. held[p] \in Record
      BY <2>1 DEF Typed, Placed, Held
    <2>3. Signs(p, [held[p] EXCEPT !.by = key[p]])
      BY <2>2 DEF Signs, Record
    <2>. QED BY <1>1, <2>1, <2>3 DEF Refill
  <1>2. CASE Fill(p)
    <2>1. pc[p] = "fill"
      BY <1>2 DEF Fill, At
    <2>2. Signs(p, [text |-> "now", by |-> key[p]])
      BY DEF Signs
    <2>. QED BY <1>2, <2>1, <2>2 DEF Fill
  <1>3. CASE ~Refill(p) /\ ~Fill(p)
    BY <1>3 DEF Some, Launch, GetKey, SetKey, Consent, CheckConsent, Resign, Recommit, Commit,
           Write, CommitConsent, Ask, Daemon, StartTray, Start, Shutdown, Exit, Wipe, List,
           RemoveEntry, Removed, RemoveConsent, DeleteKey, StopClick, StopOtherwise, Crash, disk
  <1>. QED BY <1>1, <1>2, <1>3

-----------------------------------------------------------------------------
\* The number of a launch that has no key yet is the name of no key in use.
Numbered ==
    /\ keychain \in Keys => keychain <= launches
    /\ consent.by \in Keys => consent.by <= launches
    /\ tmp.by \in Keys => tmp.by <= launches
    /\ \A p \in Processes : number[p] <= launches
    /\ \A p \in Processes : key[p] \in Keys => key[p] <= launches

FreshFor(p) ==
    /\ number[p] # keychain /\ number[p] # consent.by /\ number[p] # tmp.by
    /\ \A q \in Processes : key[q] # number[p]
    /\ \A q \in Processes \ {p} : number[q] # number[p]
Fresh == \A p \in Processes : pc[p] \in {"get", "set"} => FreshFor(p)

Numbers == Numbered /\ Fresh

LEMMA NumbersStep ==
  ASSUME Typed, Numbers, NEW p \in Processes, Some(p)
  PROVE Numbers'
  <1>t. TypeOK /\ MemoryTyped /\ DiskTyped /\ CountsTyped /\ Placed
    BY TypeParts DEF Typed
  <1>u. Numbered /\ Fresh
    BY DEF Numbers
  <1>n. NoKey \notin Keys /\ Keys \subseteq Nat /\ launches \in Nat /\ 0 .. MaxLaunches \subseteq Keys
    BY <1>t, BoundsAssumption DEF NoKey, Keys, CountsTyped
  <1>r. NoRecord.by = NoKey /\ Torn.by = NoKey
    BY DEF NoRecord, Torn
  <1>k. \A q \in Processes : number[q] \in Keys /\ key[q] \in Keys \cup {NoKey}
    BY <1>t, <1>n DEF MemoryTyped
  <1>b. /\ consent'.by \in {consent.by, tmp.by, NoKey}
        /\ tmp'.by \in {tmp.by, NoKey, key[p]}
    <2>1. /\ consent' \in {consent, tmp, NoRecord}
          /\ tmp' \in {tmp, NoRecord, Torn} \/ Signs(p, tmp')
      BY RecordsMove
    <2>. QED BY <2>1, <1>r DEF Signs
  <1>1. CASE Launch(p)
    <2>1. UNCHANGED <<keychain, consent, tmp, key>> /\ launches' = launches + 1
      BY <1>1 DEF Launch, disk
    <2>2. \A q \in Processes : number'[q] = IF q = p THEN launches + 1 ELSE number[q]
      BY <1>1, <1>t DEF Launch, MemoryTyped
    <2>3. launches + 1 # NoKey
      BY <1>1, <1>t, BoundsAssumption DEF Launch, NoKey, CountsTyped
    <2>4. launches + 1 \in Keys
      BY <1>1, <1>t, BoundsAssumption DEF Launch, Keys, CountsTyped
    <2>5. Numbered'
      <3>1. ASSUME NEW q \in Processes PROVE number'[q] <= launches'
        <4>1. number[q] \in Nat /\ number[q] <= launches
          BY <1>u, <1>n, <1>k DEF Numbered
        <4>2. number'[q] = launches + 1 \/ number'[q] = number[q]
          BY <2>2
        <4>. QED BY <1>n, <2>1, <4>1, <4>2
      <3>2. \A k \in Keys : k <= launches => k <= launches'
        BY <1>n, <2>1
      <3>. QED BY <1>u, <2>1, <3>1, <3>2 DEF Numbered
    <2>6. FreshFor(p)'
      <3>1. /\ launches + 1 # keychain /\ launches + 1 # consent.by /\ launches + 1 # tmp.by
            /\ \A q \in Processes : key[q] # launches + 1 /\ number[q] # launches + 1
        BY <1>u, <1>n, <1>k, <2>4 DEF Numbered
      <3>. QED BY <2>1, <2>2, <3>1 DEF FreshFor
    <2>7. ASSUME NEW q \in Processes, q # p, pc'[q] \in {"get", "set"} PROVE FreshFor(q)'
      <3>1. FreshFor(q) /\ number[q] # launches + 1
        BY <1>t, <1>u, <1>n, <1>k, <2>7, OthersStay DEF Fresh, Numbered
      <3>. QED BY <2>1, <2>2, <2>7, <3>1 DEF FreshFor
    <2>. QED BY <2>5, <2>6, <2>7 DEF Numbers, Fresh
  <1>2. CASE SetKey(p)
    <2>1. /\ UNCHANGED <<consent, tmp, number, launches>>
          /\ keychain' \in {keychain, number[p]}
          /\ \A q \in Processes : key'[q] \in {key[q], NoKey} \/ (q = p /\ key'[q] = number[p])
      BY <1>2, <1>t DEF SetKey, Off, HasKey, MemoryTyped
    <2>2. Numbered'
      BY <1>u, <1>n, <1>k, <2>1 DEF Numbered
    <2>3. pc'[p] \notin {"get", "set"}
      BY <1>2, <1>t DEF SetKey, Off, HasKey, Goto, MemoryTyped
    <2>4. ASSUME NEW q \in Processes, pc'[q] \in {"get", "set"} PROVE FreshFor(q)'
      <3>1. q # p
        BY <2>3, <2>4
      <3>2. FreshFor(q)
        BY <1>t, <1>u, <2>4, <3>1, OthersStay DEF Fresh
      <3>. QED BY <1>n, <1>k, <2>1, <3>1, <3>2 DEF FreshFor
    <2>. QED BY <2>2, <2>4 DEF Numbers, Fresh
  <1>3. CASE ~Launch(p) /\ ~SetKey(p)
    <2>1. /\ UNCHANGED <<number, launches>>
          /\ keychain' \in {keychain, NoKey}
          /\ \A q \in Processes : key'[q] \in {key[q], keychain, NoKey}
      BY <1>3, <1>t, KeysMove
    <2>2. Numbered'
      BY <1>b, <1>u, <1>n, <1>k, <2>1 DEF Numbered
    <2>3. ASSUME NEW q \in Processes, pc'[q] \in {"get", "set"} PROVE FreshFor(q)'
      <3>1. pc[q] \in {"get", "set"}
        BY <1>3, <1>t, <2>3, OthersStay, OnlyLaunchedAreKeyless
      <3>2. FreshFor(q)
        BY <1>u, <3>1 DEF Fresh
      <3>. QED BY <1>b, <1>n, <1>k, <2>1, <3>2 DEF FreshFor
    <2>. QED BY <2>2, <2>3 DEF Numbers, Fresh
  <1>. QED BY <1>1, <1>2, <1>3

LEMMA NumbersAtFirst == Init => Numbers
  <1>. SUFFICES ASSUME Init PROVE Numbers
    OBVIOUS
  <1>1. consent.by \in {NoKey, Unsigned, 0}
    BY BoundsAssumption DEF Init, NoRecord, Keys, NoKey
  <1>2. tmp.by = NoKey
    BY DEF Init, NoRecord
  <1>. QED BY <1>1, <1>2, BoundsAssumption DEF Init, Numbers, Numbered, Fresh, Keys, NoKey, Unsigned

-----------------------------------------------------------------------------
\* The user has agreed since the wipe before key k came, and so since any wipe
\* before a launch that uses it.
AgreedFor(k) == spared \/ agreed > era[k]
AgreedNext(k) == spared' \/ agreed' > era'[k]
Sealed(r) == r.text = "now" /\ r.by \in Keys => AgreedFor(r.by)

\* Every way to the tray keeps what its consent rests on.
Records ==
    /\ agreed <= wipes + 1
    /\ Sealed(consent) /\ Sealed(tmp)
    /\ tmp.by # Unsigned
    /\ consent.by = Unsigned => wipes = 0 \/ spared
    /\ consent.by = Unsigned /\ consent.text = "now" => agreed >= 1
Upgrades == \A p \in Processes :
    pc[p] \in {"resign", "refill", "recommit"} /\ held[p].text = "now" => AgreedFor(key[p])
Granted == {"write", "fill", "commit", "tray", "start", "run", "drain"}
Allowed == \A p \in Processes : pc[p] \in Granted => AgreedFor(key[p])

Consents == Records /\ Upgrades /\ Allowed

\* No key in use loses its agreement: the only key whose age changes is new,
\* and a wipe or another agreement takes nothing away.
LEMMA AgreementStays ==
  ASSUME Typed, Ages, Numbers, Records, NEW p \in Processes, Some(p),
         NEW k \in Keys, AgreedFor(k),
         SetKey(p) => k # number[p]
  PROVE AgreedNext(k)
  <1>t. CountsTyped
    BY TypeParts DEF Typed
  <1>1. CASE SetKey(p)
    <2>1. era'[k] = era[k] /\ UNCHANGED <<agreed, spared>>
      BY <1>1, <1>t DEF SetKey, CountsTyped
    <2>. QED BY <2>1 DEF AgreedFor, AgreedNext
  <1>2. CASE Ask(p)
    <2>1. agreed' \in {agreed, wipes + 1} /\ UNCHANGED <<era, spared>>
      BY <1>2 DEF Ask
    <2>2. era[k] <= wipes
      BY DEF Ages, Past
    <2>. QED BY <1>t, <2>1, <2>2 DEF AgreedFor, AgreedNext, CountsTyped
  <1>3. CASE DeleteKey(p)
    <2>1. UNCHANGED <<agreed, era>>
      BY <1>3 DEF DeleteKey
    <2>2. spared => spared'
      BY <1>3 DEF DeleteKey, Succeeds
    <2>. QED BY <2>1, <2>2 DEF AgreedFor, AgreedNext
  <1>4. CASE ~SetKey(p) /\ ~Ask(p) /\ ~DeleteKey(p)
    <2>1. UNCHANGED history
      BY <1>4 DEF Some, Launch, GetKey, Consent, CheckConsent, Resign, Refill, Recommit,
         Write, Fill, CommitConsent, Daemon, StartTray, Start, Shutdown, Exit, Wipe, List,
         RemoveEntry, Removed, RemoveConsent, StopClick, StopOtherwise, Crash
    <2>. QED BY <2>1 DEF history, AgreedFor, AgreedNext
  <1>. QED BY <1>1, <1>2, <1>3, <1>4

\* A key that is on record, or in the memory of a process, is not the new one.
LEMMA InUse ==
  ASSUME Typed, Numbers, NEW p \in Processes, SetKey(p)
  PROVE /\ consent.by # number[p] /\ tmp.by # number[p]
        /\ \A q \in Processes : key[q] # number[p]
  BY DEF SetKey, At, Numbers, Fresh, FreshFor

LEMMA RecordsStep ==
  ASSUME Typed, Ages, Numbers, Consents, NEW p \in Processes, Some(p)
  PROVE Records'
  <1>t. TypeOK /\ MemoryTyped /\ DiskTyped /\ CountsTyped /\ Keyed /\ Held
    BY TypeParts DEF Typed, Placed
  <1>c. Records /\ Upgrades /\ Allowed
    BY DEF Consents
  <1>r. /\ NoRecord.text # "now" /\ NoRecord.by \notin Keys \cup {Unsigned}
        /\ Torn.text # "now" /\ Torn.by \notin Keys \cup {Unsigned} /\ Unsigned \notin Keys
    BY BoundsAssumption DEF NoRecord, Torn, NoKey, Unsigned, Keys
  \* A record that was there keeps its agreement.
  <1>1. ASSUME NEW r \in {consent, tmp}, r.text = "now", r.by \in Keys
        PROVE AgreedNext(r.by)
    <2>1. AgreedFor(r.by)
      BY <1>1, <1>c DEF Records, Sealed
    <2>2. SetKey(p) => r.by # number[p]
      BY <1>1, InUse
    <2>. QED BY <1>1, <1>c, <2>1, <2>2, AgreementStays
  <1>m. /\ consent' \in {consent, tmp, NoRecord}
        /\ \/ tmp' \in {tmp, NoRecord, Torn}
           \/ tmp' = [held[p] EXCEPT !.by = key[p]] /\ pc[p] = "refill" /\ Signs(p, tmp')
           \/ tmp' = [text |-> "now", by |-> key[p]] /\ pc[p] = "fill" /\ Signs(p, tmp')
    BY RecordsMove
  <1>2. agreed' <= wipes' + 1
    <2>1. CASE UNCHANGED <<agreed, wipes>>
      BY <1>c, <2>1 DEF Records
    <2>2. CASE agreed' = wipes + 1 /\ UNCHANGED wipes
      BY <1>t, <2>2 DEF CountsTyped
    <2>3. CASE wipes' = wipes + 1 /\ UNCHANGED agreed
      BY <1>c, <1>t, <2>3 DEF Records, CountsTyped
    <2>. QED BY <2>1, <2>2, <2>3
       DEF Some, Launch, GetKey, SetKey, Consent, CheckConsent, Resign, Refill, Recommit,
         Write, Fill, CommitConsent, Ask, Daemon, StartTray, Start, Shutdown, Exit, Wipe, List,
         RemoveEntry, Removed, RemoveConsent, DeleteKey, Succeeds, StopClick, StopOtherwise,
         Crash, history
  <1>3. ASSUME consent'.text = "now", consent'.by \in Keys PROVE AgreedNext(consent'.by)
    BY <1>1, <1>3, <1>m, <1>r
  <1>4. ASSUME tmp'.text = "now", tmp'.by \in Keys PROVE AgreedNext(tmp'.by)
    <2>1. CASE tmp' \in {tmp, NoRecord, Torn}
      BY <1>1, <1>4, <1>r, <2>1
    <2>2. CASE tmp' = [held[p] EXCEPT !.by = key[p]] /\ pc[p] = "refill"
      <3>1. held[p] \in Record /\ tmp'.text = held[p].text
        BY <1>t, <2>2 DEF Held, Record
      <3>2. key[p] \in Keys /\ AgreedFor(key[p])
        BY <1>4, <1>c, <1>t, <2>2, <3>1 DEF Upgrades, Keyed
      <3>3. AgreedNext(key[p])
        BY <1>c, <3>2, AgreementStays, InUse
      <3>4. tmp'.by = key[p]
        BY <2>2, <3>1 DEF Record
      <3>. QED BY <3>3, <3>4
    <2>3. CASE tmp' = [text |-> "now", by |-> key[p]] /\ pc[p] = "fill"
      <3>1. key[p] \in Keys /\ AgreedFor(key[p])
        BY <1>c, <1>t, <2>3 DEF Allowed, Granted, Keyed
      <3>2. AgreedNext(key[p])
        BY <1>c, <3>1, AgreementStays, InUse
      <3>. QED BY <2>3, <3>2
    <2>. QED BY <1>m, <2>1, <2>2, <2>3
  <1>5. tmp'.by # Unsigned
    <2>1. ASSUME Signs(p, tmp'), pc[p] \in {"refill", "fill"} PROVE tmp'.by # Unsigned
      BY <1>r, <1>t, <2>1 DEF Signs, Keyed
    <2>. QED BY <1>c, <1>m, <1>r, <2>1 DEF Records
  <1>6. consent'.by = Unsigned => consent' = consent /\ consent.by = Unsigned
    BY <1>c, <1>m, <1>r DEF Records
  <1>7. consent.by = Unsigned => wipes' = 0 \/ spared'
    <2>1. CASE UNCHANGED <<wipes, spared>>
      BY <1>c, <2>1 DEF Records
    <2>2. CASE Succeeds
      BY <2>2 DEF Succeeds
    <2>. QED BY <2>1, <2>2
       DEF Some, Launch, GetKey, SetKey, Consent, CheckConsent, Resign, Refill, Recommit,
         Write, Fill, CommitConsent, Ask, Daemon, StartTray, Start, Shutdown, Exit, Wipe, List,
         RemoveEntry, Removed, RemoveConsent, DeleteKey, StopClick, StopOtherwise,
         Crash, history
  <1>8. agreed >= 1 => agreed' >= 1
    <2>1. agreed' = agreed \/ agreed' = wipes + 1
      BY DEF Some, Launch, GetKey, SetKey, Consent, CheckConsent, Resign, Refill, Recommit,
         Write, Fill, CommitConsent, Ask, Daemon, StartTray, Start, Shutdown, Exit, Wipe, List,
         RemoveEntry, Removed, RemoveConsent, DeleteKey, StopClick, StopOtherwise,
         Crash, history
    <2>. QED BY <1>t, <2>1 DEF CountsTyped
  <1>. QED BY <1>2, <1>3, <1>4, <1>5, <1>6, <1>7, <1>8, <1>c DEF Records, Sealed, AgreedFor, AgreedNext

\* How a process comes to where it is allowed, or to where it signs again what
\* it has read.
LEMMA Entering ==
  ASSUME MemoryTyped, NEW p \in Processes, Some(p)
  PROVE /\ pc'[p] \in Granted =>
            /\ key'[p] = key[p]
            /\ \/ pc[p] \in Granted
               \/ pc[p] \in {"resign", "refill", "recommit"} /\ held[p].text = "now"
               \/ CheckConsent(p) /\ consent = [text |-> "now", by |-> key[p]]
               \/ Ask(p) /\ agreed' = wipes + 1
        /\ pc'[p] \in {"resign", "refill", "recommit"} =>
            /\ key'[p] = key[p]
            /\ \/ pc[p] \in {"resign", "refill", "recommit"} /\ held'[p] = held[p]
               \/ CheckConsent(p) /\ consent.by = Unsigned /\ held'[p] = consent
  <1>. DEFINE Signing == {"resign", "refill", "recommit"}
  <1>1. Off(p) => pc'[p] = "off"
    BY DEF Off, Goto, MemoryTyped
  <1>2. ASSUME NEW step \in Steps, SameBut(p, step)
        PROVE pc'[p] = step /\ key'[p] = key[p] /\ held'[p] = held[p]
    BY <1>2 DEF SameBut, Goto, Memory, MemoryTyped
  <1>3. Decided(p) => pc'[p] = (IF held[p].text = "now" THEN "tray" ELSE "ask") /\ key'[p] = key[p]
    BY DEF Decided, Goto, MemoryTyped
  <1>4. CASE Launch(p) \/ GetKey(p) \/ SetKey(p)
    <2>1. ASSUME NEW k, HasKey(p, k) PROVE pc'[p] \in {"list", "check"}
      BY <2>1 DEF HasKey, Goto, MemoryTyped
    <2>2. pc'[p] \in {"off", "get", "set", "list", "check"}
      BY <1>1, <1>2, <1>4, <2>1 DEF Launch, GetKey, SetKey, Goto, MemoryTyped, Steps
    <2>. QED BY <2>2 DEF Granted
  <1>5. CASE CheckConsent(p)
    <2>1. CASE consent.by = Unsigned
      <3>1. pc'[p] = "resign" /\ held'[p] = consent /\ key'[p] = key[p]
        BY <1>5, <2>1 DEF CheckConsent, Goto, MemoryTyped
      <3>. QED BY <1>5, <2>1, <3>1 DEF Granted
    <2>2. CASE consent.by # Unsigned
      <3>1. /\ key'[p] = key[p]
            /\ pc'[p] = IF consent = [text |-> "now", by |-> key[p]] THEN "tray" ELSE "ask"
        BY <1>2, <1>5, <2>2 DEF CheckConsent, Steps
      <3>. QED BY <1>5, <3>1 DEF Granted
    <2>. QED BY <2>1, <2>2
  <1>6. CASE Resign(p) \/ Refill(p) \/ Recommit(p)
    <2>1. pc[p] \in Signing
      BY <1>6 DEF Resign, Refill, Recommit, At
    <2>2. Decided(p) \/ SameBut(p, "refill") \/ SameBut(p, "recommit")
      BY <1>6 DEF Resign, Refill, Recommit
    <2>3. CASE Decided(p)
      BY <1>3, <2>1, <2>3 DEF Granted
    <2>4. CASE SameBut(p, "refill") \/ SameBut(p, "recommit")
      BY <1>2, <2>1, <2>4 DEF Granted, Steps
    <2>. QED BY <2>2, <2>3, <2>4
  <1>7. CASE Write(p) \/ Fill(p) \/ CommitConsent(p) \/ Start(p) \/ Shutdown(p) \/ Exit(p)
    <2>1. pc[p] \in Granted
      BY <1>7 DEF Write, Fill, CommitConsent, Start, Shutdown, Exit, At, Granted
    <2>2. Off(p) \/ SameBut(p, "fill") \/ SameBut(p, "commit") \/ SameBut(p, "tray")
            \/ SameBut(p, "run") \/ SameBut(p, "drain")
      BY <1>7 DEF Write, Fill, CommitConsent, Start, Shutdown, Exit
    <2>3. pc'[p] = "off" \/ (key'[p] = key[p] /\ pc'[p] \in Granted)
      BY <1>1, <1>2, <2>2 DEF Granted, Steps
    <2>. QED BY <2>1, <2>3 DEF Granted
  <1>8. CASE Ask(p)
    <2>1. pc'[p] = "off" \/ (pc'[p] = "write" /\ key'[p] = key[p] /\ agreed' = wipes + 1)
      BY <1>1, <1>2, <1>8 DEF Ask, Steps
    <2>. QED BY <1>8, <2>1 DEF Granted
  <1>9. CASE StartTray(p)
    <2>1. pc[p] = "tray" /\ (pc'[p] = "off" \/ (pc'[p] = "start" /\ key'[p] = key[p]))
      BY <1>1, <1>9 DEF StartTray, At, Goto, MemoryTyped
    <2>. QED BY <2>1 DEF Granted
  <1>10. CASE Wipe(p) \/ Crash(p)
    <2>1. pc'[p] \in {"off", "list", "remove", "again", "delete"}
      BY <1>1, <1>2, <1>10 DEF Wipe, List, RemoveEntry, Removed, RemoveConsent, DeleteKey, Crash,
         At, Goto, MemoryTyped, Steps
    <2>. QED BY <2>1 DEF Granted
  <1>11. CASE StopClick(p) \/ StopOtherwise(p)
    BY <1>11 DEF StopClick, StopOtherwise
  <1>. QED BY <1>4, <1>5, <1>6, <1>7, <1>8, <1>9, <1>10, <1>11 DEF Some, Consent, Daemon

LEMMA AllowedStep ==
  ASSUME Typed, Ages, Numbers, Consents, NEW p \in Processes, Some(p)
  PROVE Upgrades' /\ Allowed'
  <1>t. TypeOK /\ MemoryTyped /\ DiskTyped /\ CountsTyped /\ Keyed /\ Held
    BY TypeParts DEF Typed, Placed
  <1>c. Records /\ Upgrades /\ Allowed
    BY DEF Consents
  <1>g. Granted \cap {"off", "get", "set"} = {}
    BY DEF Granted
  <1>1. ASSUME NEW k \in Keys, NEW q \in Processes, k = key[q], AgreedFor(k) PROVE AgreedNext(k)
    BY <1>1, <1>c, AgreementStays, InUse
  <1>2. ASSUME NEW q \in Processes, pc'[q] \in Granted PROVE AgreedNext(key'[q])
    <2>1. CASE key'[q] = key[q] /\ pc[q] \in Granted
      <3>1. key[q] \in Keys /\ AgreedFor(key[q])
        BY <1>c, <1>g, <1>t, <2>1 DEF Allowed, Keyed
      <3>. QED BY <1>1, <2>1, <3>1
    <2>2. CASE q # p
      BY <1>2, <1>t, <2>1, <2>2, OthersStay
    <2>3. CASE q = p
      <3>1. key'[p] = key[p]
        BY <1>2, <1>t, <2>3, Entering
      <3>2. CASE pc[p] \in {"resign", "refill", "recommit"} /\ held[p].text = "now"
        <4>1. key[p] \in Keys /\ AgreedFor(key[p])
          BY <1>c, <1>t, <3>2 DEF Upgrades, Keyed
        <4>. QED BY <1>1, <2>3, <3>1, <4>1
      <3>3. CASE CheckConsent(p) /\ consent = [text |-> "now", by |-> key[p]]
        <4>1. key[p] \in Keys
          BY <1>t, <3>3 DEF CheckConsent, At, Keyed
        <4>2. AgreedFor(key[p])
          BY <1>c, <3>3, <4>1 DEF Records, Sealed
        <4>. QED BY <1>1, <2>3, <3>1, <4>1, <4>2
      <3>4. CASE Ask(p) /\ agreed' = wipes + 1
        <4>1. key[p] \in Keys
          BY <1>t, <3>4 DEF Ask, At, Keyed
        <4>2. era'[key[p]] = era[key[p]] /\ era[key[p]] <= wipes
          BY <3>4, <4>1 DEF Ask, Ages, Past
        <4>. QED BY <1>t, <2>3, <3>1, <3>4, <4>1, <4>2 DEF AgreedNext, CountsTyped
      <3>. QED BY <1>2, <1>t, <2>1, <2>3, <3>1, <3>2, <3>3, <3>4, Entering
    <2>. QED BY <2>2, <2>3
  <1>3. ASSUME NEW q \in Processes, pc'[q] \in {"resign", "refill", "recommit"}, held'[q].text = "now"
        PROVE AgreedNext(key'[q])
    <2>1. CASE key'[q] = key[q] /\ held'[q] = held[q] /\ pc[q] \in {"resign", "refill", "recommit"}
      <3>1. key[q] \in Keys /\ AgreedFor(key[q])
        BY <1>3, <1>c, <1>t, <2>1 DEF Upgrades, Keyed
      <3>. QED BY <1>1, <2>1, <3>1
    <2>2. CASE q # p
      BY <1>3, <1>t, <2>1, <2>2, OthersStay
    <2>3. CASE q = p
      <3>1. key'[p] = key[p]
        BY <1>3, <1>t, <2>3, Entering
      <3>2. CASE CheckConsent(p) /\ consent.by = Unsigned /\ held'[p] = consent
        <4>1. key[p] \in Keys
          BY <1>t, <3>2 DEF CheckConsent, At, Keyed
        <4>2. agreed >= 1 /\ (wipes = 0 \/ spared)
          BY <1>3, <1>c, <2>3, <3>2 DEF Records
        <4>3. era[key[p]] <= wipes /\ era[key[p]] \in Nat
          BY <1>t, <4>1 DEF Ages, Past, CountsTyped
        <4>4. AgreedFor(key[p])
          BY <1>t, <4>2, <4>3 DEF AgreedFor, CountsTyped
        <4>. QED BY <1>1, <2>3, <3>1, <4>1, <4>4
      <3>. QED BY <1>3, <1>t, <2>1, <2>3, <3>1, <3>2, Entering
    <2>. QED BY <2>2, <2>3
  <1>. QED BY <1>2, <1>3 DEF Upgrades, Allowed, AgreedFor, AgreedNext

LEMMA ConsentsAtFirst == Init => Consents
  <1>. SUFFICES ASSUME Init PROVE Consents
    OBVIOUS
  <1>1. tmp.text # "now" /\ tmp.by # Unsigned
    BY BoundsAssumption DEF Init, NoRecord, NoKey, Unsigned
  <1>2. wipes = 0 /\ agreed = (IF consent.text = "now" THEN 1 ELSE 0) /\ era = [k \in Keys |-> 0]
    BY DEF Init
  <1>3. Records
    BY <1>1, <1>2 DEF Records, Sealed, AgreedFor
  <1>4. \A p \in Processes : pc[p] = "off"
    BY DEF Init
  <1>. QED BY <1>3, <1>4 DEF Consents, Upgrades, Allowed, Granted

LEMMA NumbersNext == Typed /\ Numbers /\ [Next]_vars => Numbers'
  <1>. SUFFICES ASSUME Typed, Numbers, [Next]_vars PROVE Numbers'
    OBVIOUS
  <1>1. CASE UNCHANGED vars
    BY <1>1 DEF vars, disk, process, history, Numbers, Numbered, Fresh, FreshFor
  <1>2. ASSUME NEW p \in Processes, Some(p) PROVE Numbers'
    BY <1>2, NumbersStep
  <1>. QED BY <1>1, <1>2 DEF Next, Some

LEMMA ConsentsNext == Typed /\ Ages /\ Numbers /\ Consents /\ [Next]_vars => Consents'
  <1>. SUFFICES ASSUME Typed, Ages, Numbers, Consents, [Next]_vars PROVE Consents'
    OBVIOUS
  <1>1. CASE UNCHANGED vars
    BY <1>1 DEF vars, disk, process, history, Consents, Records, Upgrades, Allowed, Sealed, AgreedFor
  <1>2. ASSUME NEW p \in Processes, Some(p) PROVE Consents'
    BY <1>2, RecordsStep, AllowedStep DEF Consents
  <1>. QED BY <1>1, <1>2 DEF Next, Some

\* Whoever captures may: the user has agreed to the text of today since the
\* last wipe before the launch (IsConsentGranted, RequestConsent, WipeAll).
THEOREM ConsentHolds == Spec => []ConsentBeforeCapture
  <1>1. Typed /\ Ages /\ Consents => ConsentBeforeCapture
    <2>. SUFFICES ASSUME Typed, Ages, Consents, NEW p \in Processes, Capturing(p), ~spared
                  PROVE agreed > since[p]
      BY DEF ConsentBeforeCapture
    <2>1. key[p] \in Keys /\ AgreedFor(key[p])
      BY DEF Capturing, Typed, Placed, Keyed, Consents, Allowed, Granted
    <2>2. since[p] <= era[key[p]]
      BY <2>1 DEF Ages, WipedStaysUnreadable
    <2>3. since[p] \in Nat /\ era[key[p]] \in Nat /\ agreed \in Nat
      BY <2>1 DEF Typed, TypeOK
    <2>. QED BY <2>1, <2>2, <2>3 DEF AgreedFor
  <1>. QED BY <1>1, TypedAlways, AgesAtFirst, AgesNext, NumbersAtFirst, NumbersNext,
              ConsentsAtFirst, ConsentsNext, PTL DEF Spec

=============================================================================
