------------------------- MODULE MemoryStoreProofs -------------------------
(***************************************************************************)
(* What holds of MemoryStore for every set of nodes, deleters and vectors, *)
(* and any number of crashes and I/O errors.                               *)
(***************************************************************************)
EXTENDS MemoryStore, TLAPS

-----------------------------------------------------------------------------
\* Types, whatever the environment does.

\* A call in progress is about a node.
Working ==
    /\ wpc # "idle" => wnode \in Nodes
    /\ \A d \in Deleters : dpc[d] # "next" => dnode[d] \in Nodes
    /\ spc = "save" => snode \in Nodes

Typed == TypeOK /\ Working

\* A state that the directory's creation leaves is well typed.
LEMMA InitTyped == Init => Typed
<1> SUFFICES ASSUME Init PROVE Typed OBVIOUS
<1> USE DEF Init, NoGoroutines
<1>1. file \in [Nodes -> {"none", "bad", "whole"}] OBVIOUS
<1>2. /\ dpc \in [Deleters -> DeleterSteps]
      /\ dnode \in [Deleters -> Nodes \cup {NoNode}]
      /\ dlist \in [Deleters -> SUBSET Nodes]
  BY DEF DeleterSteps
<1>3. late \in BOOLEAN OBVIOUS
<1>4. plain \subseteq Nodes /\ born \subseteq Nodes BY NodesAssumption
<1>5. Working BY DEF Working
<1> QED BY <1>1, <1>2, <1>3, <1>4, <1>5 DEF Typed, TypeOK, WriterSteps, Keys

\* Every step of the writer keeps the types.
LEMMA WriterTyped == Typed /\ WriterStep => Typed'
<1> SUFFICES ASSUME Typed, WriterStep PROVE Typed' OBVIOUS
<1> USE DEF Typed, TypeOK, Working, WriterSteps, DeleterSteps, Keys, disk, idx, writer, deleters,
            status, daemon, locks, env
<1>1. CASE LogWrite BY <1>1 DEF LogWrite, Fails
<1>2. CASE CreateFile BY <1>2 DEF CreateFile, Fails, WriteReturns
<1>3. CASE FillFile BY <1>3 DEF FillFile, Fails, WriteReturns
<1>4. CASE LoadForAppend BY <1>4 DEF LoadForAppend, Fails, LoadedOrEmpty
<1>5. CASE SaveAppended BY <1>5 DEF SaveAppended, Fails, SaveIndex, KeepIndex
<1>6. CASE CacheWritten BY <1>6, NodesAssumption DEF CacheWritten, WriteReturns
<1> QED BY <1>1, <1>2, <1>3, <1>4, <1>5, <1>6 DEF WriterStep

\* Every step of a deleter keeps the types.
LEMMA DeleterTyped ==
  ASSUME NEW d \in Deleters, Typed, DeleterStep(d) PROVE Typed'
<1> USE DEF Typed, TypeOK, Working, WriterSteps, DeleterSteps, Keys, disk, idx, writer, deleters,
            status, daemon, locks, env
<1>1. CASE List(d) BY <1>1 DEF List, Wanted
<1>2. ASSUME NEW n \in Nodes, RemoveFile(d, n) PROVE Typed'
  BY <1>2 DEF RemoveFile, Fails, GiveUp, DeleteReturns
<1>3. CASE LoadForRemove(d)
  BY <1>3 DEF LoadForRemove, Fails, GiveUp, DeleteReturns
<1>4. CASE SaveRemoved(d)
  BY <1>4 DEF SaveRemoved, Fails, GiveUp, DeleteReturns, SaveIndex, KeepIndex
<1>5. CASE Evict(d) BY <1>5 DEF Evict, DeleteReturns
<1> QED BY <1>1, <1>2, <1>3, <1>4, <1>5 DEF DeleterStep

\* Every step of the start, the end and the status command keeps the types.
LEMMA ProcessTyped ==
  Typed /\ (StartStep \/ Close \/ Exit \/ Crash \/ StatusStep) => Typed'
<1> SUFFICES ASSUME Typed, StartStep \/ Close \/ Exit \/ Crash \/ StatusStep
             PROVE Typed' OBVIOUS
<1> USE DEF Typed, TypeOK, Working, WriterSteps, DeleterSteps, Keys, disk, idx, writer, deleters,
            status, daemon, locks, env
<1>1. CASE Start BY <1>1 DEF Start
<1>2. CASE Migrate BY <1>2 DEF Migrate, Fails, SaveIndex, KeepIndex
<1>3. CASE OpenWAL BY <1>3 DEF OpenWAL, LoadCache, LoadedOrEmpty, Fails
<1>4. ASSUME NEW n \in Nodes, Reindex(n) PROVE Typed'
  BY <1>4 DEF Reindex, LoadedOrEmpty, Fails, SaveIndex, KeepIndex
<1>5. CASE DropWAL BY <1>5 DEF DropWAL, LoadCache
<1>6. CASE Close BY <1>6 DEF Close
<1>7. CASE Exit BY <1>7 DEF Exit, Halt
<1>8. CASE Crash
  <2>1. crashes' \in Nat BY <1>8 DEF Crash
  <2>2. late' \in BOOLEAN /\ dpc' \in [Deleters -> DeleterSteps]
    BY <1>8 DEF Crash, Halt
  <2>3. Working' BY <1>8 DEF Crash, Halt
  <2> QED BY <1>8, <2>1, <2>2, <2>3 DEF Crash, Halt
<1>9. CASE StatusOpen BY <1>9 DEF StatusOpen
<1>10. ASSUME NEW n \in Nodes, StatusLoad(n) PROVE Typed' BY <1>10 DEF StatusLoad
<1>11. CASE StatusSave BY <1>11 DEF StatusSave, KeepIndex
<1>12. CASE StatusDropWAL BY <1>12 DEF StatusDropWAL
<1> QED BY <1>1, <1>2, <1>3, <1>4, <1>5, <1>6, <1>7, <1>8, <1>9, <1>10, <1>11, <1>12
        DEF StartStep, StatusStep

\* Every step keeps the types.
LEMMA NextTyped == Typed /\ [Next]_vars => Typed'
<1> SUFFICES ASSUME Typed, [Next]_vars PROVE Typed' OBVIOUS
<1>1. ASSUME NEW n \in Nodes, Seal(n) PROVE Typed'
  BY <1>1 DEF Seal, Typed, TypeOK, Working, WriterSteps, Keys, disk, idx, deleters, status, daemon, locks
<1>2. ASSUME NEW n \in Nodes, Age(n) PROVE Typed'
  BY <1>2 DEF Age, Typed, TypeOK, Working, disk, idx, writer, deleters, status, daemon, locks
<1>3. CASE UNCHANGED vars
  BY <1>3 DEF Typed, TypeOK, Working, vars, disk, idx, writer, deleters, status, daemon, locks, env
<1> QED BY <1>1, <1>2, <1>3, WriterTyped, DeleterTyped, ProcessTyped DEF Next

\* The store's variables keep their types (JSONStore and Store, and the three
\* processes that work on the directory).
THEOREM StoreTypeCorrect == SafeSpec => []TypeOK
  <1>1. Init => Typed BY InitTyped
<1>2. Typed /\ [Next]_vars => Typed' BY NextTyped
<1>3. Typed => TypeOK BY DEF Typed
<1> QED BY <1>1, <1>2, <1>3, PTL DEF SafeSpec

-----------------------------------------------------------------------------
\* The lock, whatever the environment does.

\* The steps that hold s.mu are those of the goroutine it names.
LEMMA NextLocked ==
  LockDiscipline /\ Typed /\ [Next]_vars => LockDiscipline'
<1> SUFFICES ASSUME LockDiscipline, Typed, [Next]_vars PROVE LockDiscipline'
    OBVIOUS
<1> USE DeletersAssumption DEF LockDiscipline, Typed, TypeOK, WriterSteps,
        DeleterSteps, disk, idx, writer, deleters, status, daemon, locks, env
<1>1. CASE WriterStep
  BY <1>1 DEF WriterStep, LogWrite, CreateFile, FillFile, LoadForAppend,
              SaveAppended, CacheWritten, WriteReturns
<1>2. ASSUME NEW d \in Deleters, DeleterStep(d) PROVE LockDiscipline'
  <2>1. CASE List(d) BY <2>1 DEF List
  <2>2. ASSUME NEW n \in Nodes, RemoveFile(d, n) PROVE LockDiscipline'
    BY <2>2 DEF RemoveFile, GiveUp, DeleteReturns
  <2>3. CASE LoadForRemove(d) BY <2>3 DEF LoadForRemove, GiveUp, DeleteReturns
  <2>4. CASE SaveRemoved(d) BY <2>4 DEF SaveRemoved, GiveUp, DeleteReturns
  <2>5. CASE Evict(d) BY <2>5 DEF Evict, DeleteReturns
  <2> QED BY <1>2, <2>1, <2>2, <2>3, <2>4, <2>5 DEF DeleterStep
<1>3. CASE StartStep
  BY <1>3 DEF StartStep, Start, Migrate, OpenWAL, Reindex, DropWAL
<1>4. CASE Exit \/ Crash BY <1>4 DEF Exit, Crash, Halt
<1>5. CASE Close \/ StatusStep
  BY <1>5 DEF Close, StatusStep, StatusOpen, StatusLoad, StatusSave, StatusDropWAL
<1>6. ASSUME NEW n \in Nodes, Seal(n) \/ Age(n) PROVE LockDiscipline'
  BY <1>6 DEF Seal, Age
<1>7. CASE UNCHANGED vars BY <1>7 DEF vars
<1> QED BY <1>1, <1>2, <1>3, <1>4, <1>5, <1>6, <1>7 DEF Next

\* s.mu is held by exactly the goroutine that is between Lock and Unlock, on
\* every error path and at every set of hazards (jsonstore.go:142-162, 278-286).
THEOREM LockHeldInside == SafeSpec => []LockDiscipline
<1>1. Init => Typed /\ LockDiscipline
  BY InitTyped, DeletersAssumption DEF Init, NoGoroutines, LockDiscipline
<1>2. Typed /\ LockDiscipline /\ [Next]_vars => (Typed /\ LockDiscipline)'
  BY NextTyped, NextLocked
<1> QED BY <1>1, <1>2, PTL DEF SafeSpec

-----------------------------------------------------------------------------
\* One process under one key, whatever I/O errors strike it.

\* No shutdown zeroes the key under a goroutine, and no status command works
\* on the same directory.
OneProcess == Hazards \cap {"shutdown", "status"} = {}

\* Without a shutdown and without the status command, one key is in use.
OneKey ==
    /\ key = "real" /\ wkey = "real" /\ indexKey # "zeroed"
    /\ phase # "closed" /\ ~late /\ spc = "idle"

AbsentIsEmpty == indexKey = "none" => index = {}

\* No write and no deletion overlaps the start.
WorksWhenUp ==
    /\ wpc # "idle" => phase = "up"
    /\ \A d \in Deleters : dpc[d] # "next" \/ dlist[d] # {} => phase = "up"

\* What a goroutine inside the lock may rely on: nobody else saves the index,
\* or gives back the file.
SnapIsListed ==
    /\ wpc = "save" => snap \subseteq index
    /\ \A d \in Deleters : dpc[d] = "save" => snap = index
FileIsGone ==
    \A d \in Deleters : dpc[d] \in {"load", "save"} => file[dnode[d]] = "none"

TodoIsLogged == todo \subseteq wal

Steady ==
    /\ Typed /\ LockDiscipline
    /\ OneKey /\ AbsentIsEmpty /\ WorksWhenUp
    /\ SnapIsListed /\ FileIsGone /\ TodoIsLogged

\* The first state is steady.
LEMMA InitSteady == Init => Steady
<1> SUFFICES ASSUME Init PROVE Steady OBVIOUS
<1>1. LockDiscipline
  BY DeletersAssumption DEF Init, NoGoroutines, LockDiscipline
<1>2. OneKey /\ AbsentIsEmpty
  BY DEF Init, NoGoroutines, OneKey, AbsentIsEmpty
<1>3. WorksWhenUp /\ SnapIsListed /\ FileIsGone /\ TodoIsLogged
  BY DEF Init, NoGoroutines, WorksWhenUp, SnapIsListed, FileIsGone, TodoIsLogged
<1> QED BY InitTyped, <1>1, <1>2, <1>3 DEF Steady

\* The writer saves what it has loaded, or less, with its record.
LEMMA WriterSteady ==
  ASSUME Steady, WriterStep
  PROVE  Steady'
<1>0. Typed' /\ LockDiscipline'
  BY NextTyped, NextLocked DEF Steady, Next
<1> USE DEF Steady, OneKey, AbsentIsEmpty, WorksWhenUp, SnapIsListed, FileIsGone,
        TodoIsLogged, LockDiscipline, Typed, TypeOK, Working,
        WriterSteps, DeleterSteps, Keys, disk, idx, writer, deleters, status,
        daemon, locks, env
<1>1. CASE LogWrite BY <1>0, <1>1 DEF LogWrite, Fails
<1>2. CASE CreateFile \/ FillFile
  <2>1. mu = "writer" /\ \A d \in Deleters : dpc[d] \notin {"load", "save"}
    BY <1>2, DeletersAssumption DEF CreateFile, FillFile
  <2>2. /\ wpc' \in {"idle", "fill", "load"} /\ wkey' = "real"
        /\ UNCHANGED <<key, idx, phase, late, spc, wal, todo, dpc, dlist>>
    BY <1>2 DEF CreateFile, FillFile, WriteReturns
  <2>3. WorksWhenUp' BY <1>2, <2>2 DEF CreateFile, FillFile
  <2> QED BY <1>0, <2>1, <2>2, <2>3
<1>3. CASE LoadForAppend
  <2>1. mu = "writer" /\ \A d \in Deleters : dpc[d] \notin {"load", "save"}
    BY <1>3, DeletersAssumption DEF LoadForAppend
  <2> QED BY <1>0, <1>3, <2>1 DEF LoadForAppend, LoadedOrEmpty, Fails
<1>4. CASE SaveAppended
  <2>1. mu = "writer" /\ \A d \in Deleters : dpc[d] \notin {"load", "save"}
    BY <1>4, DeletersAssumption DEF SaveAppended
  <2> QED BY <1>0, <1>4, <2>1 DEF SaveAppended, SaveIndex, KeepIndex, Fails
<1>5. CASE CacheWritten BY <1>0, <1>5 DEF CacheWritten, WriteReturns
<1> QED BY <1>1, <1>2, <1>3, <1>4, <1>5 DEF WriterStep

\* A deleter saves the index that it has loaded without the node whose file it
\* has removed.
LEMMA DeleterSteady ==
  ASSUME Steady, NEW d \in Deleters, DeleterStep(d)
  PROVE  Steady'
<1>0. Typed' /\ LockDiscipline'
  BY NextTyped, NextLocked DEF Steady, Next
<1> USE DEF Steady, OneKey, AbsentIsEmpty, WorksWhenUp, SnapIsListed, FileIsGone,
        TodoIsLogged, LockDiscipline, Typed, TypeOK, Working,
        WriterSteps, DeleterSteps, Keys, disk, idx, writer, deleters, status,
        daemon, locks, env
<1>1. CASE List(d) BY <1>0, <1>1 DEF List, Running
<1>2. ASSUME NEW n \in Nodes, RemoveFile(d, n) PROVE Steady'
  BY <1>0, <1>2 DEF RemoveFile, GiveUp, DeleteReturns
<1>3. CASE LoadForRemove(d) BY <1>0, <1>3 DEF LoadForRemove, GiveUp, DeleteReturns
<1>4. CASE SaveRemoved(d)
  BY <1>0, <1>4 DEF SaveRemoved, SaveIndex, KeepIndex, GiveUp, DeleteReturns
<1>5. CASE Evict(d) BY <1>0, <1>5 DEF Evict, DeleteReturns
<1> QED BY <1>1, <1>2, <1>3, <1>4, <1>5 DEF DeleterStep

\* A start has the directory to itself.
LEMMA StartSteady ==
  ASSUME Steady, StartStep
  PROVE  Steady'
<1>0. Typed' /\ LockDiscipline'
  BY NextTyped, NextLocked DEF Steady, Next
<1> USE DEF Steady, OneKey, AbsentIsEmpty, WorksWhenUp, SnapIsListed, FileIsGone,
        TodoIsLogged, HasIndex, Typed, TypeOK, Working,
        WriterSteps, DeleterSteps, Keys, disk, idx, writer, deleters, status,
        daemon, locks, env
<1>1. CASE Start BY <1>0, <1>1 DEF Start
<1>2. CASE Migrate BY <1>0, <1>2 DEF Migrate, SaveIndex, KeepIndex
<1>3. CASE OpenWAL
  BY <1>0, <1>3 DEF OpenWAL, LoadCache, LoadedOrEmpty
<1>4. ASSUME NEW n \in Nodes, Reindex(n) PROVE Steady'
  BY <1>0, <1>4 DEF Reindex, LoadedOrEmpty, SaveIndex, KeepIndex
<1>5. CASE DropWAL BY <1>0, <1>5 DEF DropWAL, LoadCache
<1> QED BY <1>1, <1>2, <1>3, <1>4, <1>5 DEF StartStep

\* The environment does not strike elsewhere.
LEMMA OneProcessSteps ==
  ASSUME OneProcess, Steady
  PROVE  ~Close /\ ~Exit /\ ~StatusStep
<1> USE DEF Steady, OneKey
<1>1. ~Close /\ ~Exit BY DEF Close, Exit, OneProcess
<1>2. ~StatusStep
  BY DEF StatusStep, StatusOpen, StatusLoad, StatusSave, StatusDropWAL, OneProcess
<1> QED BY <1>1, <1>2

\* Every step of the one process is steady.
LEMMA NextSteady ==
  ASSUME OneProcess, Steady, [Next]_vars
  PROVE  Steady'
<1>0. Typed' /\ LockDiscipline' BY NextTyped, NextLocked DEF Steady
<1> USE DEF Steady, OneKey, AbsentIsEmpty, WorksWhenUp, SnapIsListed, FileIsGone,
        TodoIsLogged, disk, idx, writer, deleters, status, daemon, locks, env
<1>1. ASSUME NEW n \in Nodes, Seal(n) \/ Age(n) PROVE Steady'
  BY <1>0, <1>1 DEF Seal, Age
<1>2. CASE Crash BY <1>0, <1>2 DEF Crash, Halt
<1>3. CASE UNCHANGED vars BY <1>0, <1>3 DEF vars
<1> QED BY <1>1, <1>2, <1>3, WriterSteady, DeleterSteady, StartSteady, OneProcessSteps
        DEF Next

\* Only four steps of the one process save the index.
LEMMA IndexSteps ==
  ASSUME OneProcess, Steady, [Next]_vars
  PROVE  \/ index' = index \/ SaveAppended \/ Migrate
         \/ (\E d \in Deleters : SaveRemoved(d)) \/ (\E m \in Nodes : Reindex(m))
<1>1. ASSUME WriterStep PROVE index' = index \/ SaveAppended
  BY <1>1 DEF WriterStep, LogWrite, CreateFile, FillFile, LoadForAppend,
              CacheWritten, disk, idx
<1>2. ASSUME NEW d \in Deleters, DeleterStep(d)
      PROVE  index' = index \/ SaveRemoved(d)
  BY <1>2 DEF DeleterStep, List, RemoveFile, LoadForRemove, Evict, disk, idx
<1>3. ASSUME StartStep
      PROVE  index' = index \/ Migrate \/ \E m \in Nodes : Reindex(m)
  BY <1>3 DEF StartStep, Start, OpenWAL, DropWAL, disk, idx
<1>4. ASSUME (\E m \in Nodes : Seal(m) \/ Age(m)) \/ Crash
      PROVE  index' = index
  BY <1>4 DEF Seal, Age, Crash, disk, idx
<1>5. CASE UNCHANGED vars BY <1>5 DEF vars, disk, idx
<1> QED BY <1>1, <1>2, <1>3, <1>4, <1>5, OneProcessSteps DEF Next

-----------------------------------------------------------------------------
\* Entries outlive their files, as long as index.enc can be read.

IndexReadable == Hazards \cap {"write.load", "replay.load"} = {}

\* Who saves the index has the current one in hand.
SnapIsCurrent == wpc = "save" => snap = index

\* What the writer has loaded stays the index, since it holds the lock.
LEMMA NextCurrent ==
  ASSUME OneProcess, IndexReadable, Steady, SnapIsCurrent, [Next]_vars
  PROVE  SnapIsCurrent'
<1>1. CASE wpc' # "save" BY <1>1 DEF SnapIsCurrent
<1>2. CASE wpc' = "save" /\ wpc # "save"
  <2>1. LoadForAppend
    <3>1. CASE WriterStep
      BY <1>2, <3>1 DEF WriterStep, LogWrite, CreateFile, FillFile, SaveAppended, CacheWritten,
                        WriteReturns
    <3>2. ASSUME NEW d \in Deleters, DeleterStep(d) PROVE wpc' = wpc
      BY <3>2 DEF DeleterStep, List, RemoveFile, LoadForRemove, SaveRemoved, Evict, writer
    <3>3. ASSUME StartStep \/ \E n \in Nodes : Age(n) PROVE wpc' = wpc
      BY <3>3 DEF StartStep, Start, Migrate, OpenWAL, Reindex, DropWAL, Age, writer
    <3>4. ASSUME (\E n \in Nodes : Seal(n)) \/ Crash PROVE wpc' # "save"
      BY <3>4 DEF Seal, Crash, Halt
    <3>5. ~ UNCHANGED vars BY <1>2 DEF vars, writer
    <3> QED BY <1>2, <3>1, <3>2, <3>3, <3>4, <3>5, OneProcessSteps DEF Next
  <2>2. Loadable BY DEF Steady, OneKey, Loadable, HasIndex, Typed, TypeOK, Keys
  <2> QED BY <2>1, <2>2 DEF LoadForAppend, LoadedOrEmpty, Fails, IndexReadable, SnapIsCurrent, disk, idx
<1>3. CASE wpc' = "save" /\ wpc = "save"
  <2>1. mu = "writer" /\ phase = "up" /\ \A d \in Deleters : dpc[d] \notin {"load", "save"}
    BY <1>3, DeletersAssumption DEF Steady, LockDiscipline, WorksWhenUp
  <2>2. ~WriterStep
    BY <1>3 DEF WriterStep, LogWrite, CreateFile, FillFile, LoadForAppend, SaveAppended,
                CacheWritten, WriteReturns
  <2>3. ASSUME NEW d \in Deleters, DeleterStep(d) PROVE snap' = snap /\ index' = index
    BY <2>1, <2>3 DEF DeleterStep, List, RemoveFile, LoadForRemove, SaveRemoved, Evict,
                      locks, disk, idx
  <2>4. ~StartStep
    BY <2>1 DEF StartStep, Start, Migrate, OpenWAL, Reindex, DropWAL
  <2>5. ASSUME (\E n \in Nodes : Seal(n) \/ Age(n)) \/ UNCHANGED vars
        PROVE  snap' = snap /\ index' = index
    BY <2>5 DEF Seal, Age, vars, locks, disk, idx
  <2>6. ~Crash BY <1>3 DEF Crash, Halt
  <2> QED BY <1>3, <2>2, <2>3, <2>4, <2>5, <2>6, OneProcessSteps DEF SnapIsCurrent, Next
<1> QED BY <1>1, <1>2, <1>3

\* No entry leaves the index before its record is gone: not by the errors that
\* are only logged (appendWAL, saving during replay, the migration), as long as
\* appendIndex can read the index it is about to save again.
THEOREM EntryKept ==
  ASSUME OneProcess, IndexReadable
  PROVE  SafeSpec => EntryOutlivesFile
<1> DEFINE EInv == Steady /\ SnapIsCurrent
<1>1. Init => EInv BY InitSteady DEF Init, NoGoroutines, SnapIsCurrent
<1>2. EInv /\ [Next]_vars => EInv' BY NextSteady, NextCurrent
<1>3. ASSUME EInv, [Next]_vars
      PROVE  [\A n \in index \ index' : file[n] = "none"]_vars
  <2> SUFFICES ASSUME NEW n \in index \ index' PROVE file[n] = "none"
    OBVIOUS
  <2> USE DEF Steady
  <2>1. ASSUME NEW d \in Deleters, SaveRemoved(d) PROVE file[n] = "none"
    BY <1>3, <2>1 DEF SaveRemoved, SaveIndex, KeepIndex, idx, SnapIsListed, FileIsGone,
                DeleterSteps
  <2>2. CASE SaveAppended
    BY <1>3, <2>2 DEF SaveAppended, SaveIndex, KeepIndex, idx, SnapIsCurrent
  <2>3. CASE Migrate
    BY <1>3, <2>3 DEF Migrate, SaveIndex, KeepIndex, idx, AbsentIsEmpty, HasIndex
  <2>4. ASSUME NEW m \in Nodes, Reindex(m) PROVE file[n] = "none"
    <3>1. ~Fails("replay.load") BY DEF Fails, IndexReadable
    <3>2. LoadedOrEmpty = index
      BY <1>3 DEF LoadedOrEmpty, Loadable, OneKey, HasIndex, Typed, TypeOK, Keys
    <3>3. index' = index \/ index' = index \cup {m}
      BY <2>4, <3>1, <3>2 DEF Reindex, SaveIndex, KeepIndex, idx
    <3> QED BY <3>3
  <2> QED BY <1>3, <2>1, <2>2, <2>3, <2>4, IndexSteps
<1> HIDE DEF EInv
<1> QED BY <1>1, <1>2, <1>3, PTL DEF SafeSpec, EntryOutlivesFile

-----------------------------------------------------------------------------
\* Nothing is lost, as long as only tolerated errors strike.

\* What leads to a record before the index does.
WriteIsLogged == wpc \in {"create", "fill", "load", "save"} => wnode \in wal

\* What the start has done so far.
PlainIsMigrated == phase \notin {"down", "migrate"} => plain = {}
LogIsIndexed ==
    phase = "reindex" =>
        \A n \in wal \ todo : file[n] # "none" => n \in index
KeepsAll ==
    /\ Steady /\ SnapIsCurrent /\ WriteIsLogged
    /\ PlainIsMigrated /\ LogIsIndexed
    /\ NoOrphan

\* Tolerated errors are those of one process that can read its index.
LEMMA ToleratedHazards ==
  ASSUME Hazards \subseteq Tolerated
  PROVE  OneProcess /\ IndexReadable
  BY DEF Tolerated, OneProcess, IndexReadable

\* The first state keeps everything.
LEMMA InitKeepsAll == Init => KeepsAll
<1> SUFFICES ASSUME Init PROVE KeepsAll OBVIOUS
<1>1. SnapIsCurrent /\ WriteIsLogged
  BY DEF Init, NoGoroutines, SnapIsCurrent, WriteIsLogged
<1>2. PlainIsMigrated /\ LogIsIndexed
  BY DEF Init, NoGoroutines, PlainIsMigrated, LogIsIndexed
<1>3. NoOrphan BY DEF Init, NoOrphan, Recoverable, HasIndex
<1> QED BY InitSteady, <1>1, <1>2, <1>3 DEF KeepsAll

\* The writer loses nothing: its record is in the log before its file exists,
\* and the index it saves is the current one with the record added.
LEMMA WriterKeepsAll ==
  ASSUME Hazards \subseteq Tolerated, KeepsAll, WriterStep
  PROVE  KeepsAll'
<1>0. Steady' /\ SnapIsCurrent'
  BY NextSteady, NextCurrent, ToleratedHazards DEF KeepsAll, Next
<1> USE DEF KeepsAll, Steady, OneKey, AbsentIsEmpty, WorksWhenUp, WriteIsLogged,
        SnapIsCurrent, SnapIsListed, FileIsGone, PlainIsMigrated, LogIsIndexed, TodoIsLogged, NoOrphan,
        Recoverable, HasIndex, Loadable, LockDiscipline, Typed, TypeOK, Working,
        WriterSteps, DeleterSteps, Keys, disk, idx, writer, deleters, status,
        daemon, locks, env
<1>1. CASE LogWrite BY <1>0, <1>1 DEF LogWrite, Fails, Tolerated
<1>2. CASE CreateFile
  <2>1. mu = "writer" /\ \A d \in Deleters : dpc[d] \notin {"load", "save"}
    BY <1>2, DeletersAssumption DEF CreateFile
  <2>2. /\ wnode \in wal
        /\ \A n \in Nodes : n # wnode => file'[n] = file[n]
    BY <1>2 DEF CreateFile
  <2>3. NoOrphan' /\ FileIsGone' BY <1>2, <2>1, <2>2 DEF CreateFile
  <2>4. WorksWhenUp' /\ WriteIsLogged' /\ SnapIsCurrent'
    BY <1>2, <2>1 DEF CreateFile, WriteReturns
  <2>5. OneKey' BY <1>2 DEF CreateFile, WriteReturns
  <2> QED BY <1>0, <1>2, <2>3, <2>4, <2>5 DEF CreateFile
<1>3. CASE FillFile
  <2>1. mu = "writer" /\ \A d \in Deleters : dpc[d] \notin {"load", "save"}
    BY <1>3, DeletersAssumption DEF FillFile
  <2>2. /\ wnode \in wal
        /\ \A n \in Nodes : n # wnode => file'[n] = file[n]
    BY <1>3 DEF FillFile
  <2>3. NoOrphan' /\ FileIsGone' BY <1>3, <2>1, <2>2 DEF FillFile
  <2>4. WorksWhenUp' /\ WriteIsLogged' /\ SnapIsCurrent'
    BY <1>3, <2>1 DEF FillFile, WriteReturns
  <2>5. OneKey' BY <1>3 DEF FillFile, WriteReturns
  <2> QED BY <1>0, <1>3, <2>3, <2>4, <2>5 DEF FillFile
<1>4. CASE LoadForAppend
  BY <1>0, <1>4 DEF LoadForAppend, LoadedOrEmpty, Fails, Tolerated
<1>5. CASE SaveAppended BY <1>0, <1>5 DEF SaveAppended, SaveIndex, KeepIndex
<1>6. CASE CacheWritten BY <1>0, <1>6 DEF CacheWritten, WriteReturns
<1> QED BY <1>1, <1>2, <1>3, <1>4, <1>5, <1>6 DEF WriterStep

\* A deleter loses nothing: the entry it takes from the current index is that
\* of a file it has removed.
LEMMA DeleterKeepsAll ==
  ASSUME Hazards \subseteq Tolerated, KeepsAll, NEW d \in Deleters, DeleterStep(d)
  PROVE  KeepsAll'
<1>0. Steady' /\ SnapIsCurrent'
  BY NextSteady, NextCurrent, ToleratedHazards DEF KeepsAll, Next
<1> USE DEF KeepsAll, Steady, OneKey, AbsentIsEmpty, WorksWhenUp, WriteIsLogged,
        SnapIsCurrent, SnapIsListed, FileIsGone, PlainIsMigrated, LogIsIndexed, TodoIsLogged, NoOrphan,
        Recoverable, HasIndex, Loadable, LockDiscipline, Typed, TypeOK, Working,
        WriterSteps, DeleterSteps, Keys, disk, idx, writer, deleters, status,
        daemon, locks, env
<1>1. CASE List(d) BY <1>0, <1>1 DEF List, Running
<1>2. ASSUME NEW n \in Nodes, RemoveFile(d, n) PROVE KeepsAll'
  BY <1>0, <1>2 DEF RemoveFile, GiveUp, DeleteReturns
<1>3. CASE LoadForRemove(d) BY <1>0, <1>3 DEF LoadForRemove, GiveUp, DeleteReturns
<1>4. CASE SaveRemoved(d)
  BY <1>0, <1>4 DEF SaveRemoved, SaveIndex, KeepIndex, GiveUp, DeleteReturns
<1>5. CASE Evict(d) BY <1>0, <1>5 DEF Evict, DeleteReturns
<1> QED BY <1>1, <1>2, <1>3, <1>4, <1>5 DEF DeleterStep

\* A start loses nothing: what the log or index.json led to, index.enc lists
\* before either is removed.
LEMMA StartKeepsAll ==
  ASSUME Hazards \subseteq Tolerated, KeepsAll, StartStep
  PROVE  KeepsAll'
<1>0. Steady' /\ SnapIsCurrent'
  BY NextSteady, NextCurrent, ToleratedHazards DEF KeepsAll, Next
<1> USE DEF KeepsAll, Steady, OneKey, AbsentIsEmpty, WorksWhenUp, WriteIsLogged,
        SnapIsCurrent, SnapIsListed, FileIsGone, PlainIsMigrated, LogIsIndexed, TodoIsLogged, NoOrphan,
        Recoverable, HasIndex, Loadable, LockDiscipline, Typed, TypeOK, Working,
        WriterSteps, DeleterSteps, Keys, disk, idx, writer, deleters, status,
        daemon, locks, env
<1>1. CASE Start BY <1>0, <1>1 DEF Start
<1>2. CASE Migrate BY <1>0, <1>2 DEF Migrate, SaveIndex, KeepIndex, Fails, Tolerated
<1>3. CASE OpenWAL
  BY <1>0, <1>3 DEF OpenWAL, LoadCache, LoadedOrEmpty, Fails, Tolerated
<1>4. ASSUME NEW n \in Nodes, Reindex(n) PROVE KeepsAll'
  BY <1>0, <1>4 DEF Reindex, LoadedOrEmpty, SaveIndex, KeepIndex, Fails, Tolerated
<1>5. CASE DropWAL BY <1>0, <1>5 DEF DropWAL, LoadCache
<1> QED BY <1>1, <1>2, <1>3, <1>4, <1>5 DEF StartStep

\* No step loses anything.
LEMMA NextKeepsAll ==
  ASSUME Hazards \subseteq Tolerated, KeepsAll, [Next]_vars
  PROVE  KeepsAll'
<1>0. Steady' /\ SnapIsCurrent' BY NextSteady, NextCurrent, ToleratedHazards DEF KeepsAll
<1> USE DEF KeepsAll, Steady, OneKey, AbsentIsEmpty, WorksWhenUp, WriteIsLogged,
        SnapIsCurrent, SnapIsListed, FileIsGone, PlainIsMigrated, LogIsIndexed, TodoIsLogged, NoOrphan,
        Recoverable, HasIndex, disk, idx, writer, deleters, status, daemon,
        locks, env
<1>1. ASSUME NEW n \in Nodes, Seal(n) \/ Age(n) PROVE KeepsAll'
  BY <1>0, <1>1 DEF Seal, Age
<1>2. CASE Crash BY <1>0, <1>2 DEF Crash, Halt
<1>3. CASE UNCHANGED vars BY <1>0, <1>3 DEF vars
<1>4. ~Close /\ ~Exit /\ ~StatusStep BY OneProcessSteps, ToleratedHazards
<1> QED BY <1>1, <1>2, <1>3, <1>4, WriterKeepsAll, DeleterKeepsAll, StartKeepsAll
        DEF Next

\* With errors only at the tolerated places, and any number of them and of
\* crashes, no record is left on the disk that nothing leads to.
THEOREM NothingOrphaned ==
  ASSUME Hazards \subseteq Tolerated
  PROVE  SafeSpec => []NoOrphan
<1>1. Init => KeepsAll BY InitKeepsAll
<1>2. KeepsAll /\ [Next]_vars => KeepsAll' BY NextKeepsAll
<1>3. KeepsAll => NoOrphan BY DEF KeepsAll
<1> QED BY <1>1, <1>2, <1>3, PTL DEF SafeSpec

-----------------------------------------------------------------------------
\* A record is written once, whatever the environment does.

\* An id that is not drawn, or whose write has not come to its file, has none.
Fresh ==
    /\ \A n \in Nodes \ born : file[n] = "none"
    /\ wpc \in {"sealed", "create"} => file[wnode] = "none"
    /\ wpc = "fill" => file[wnode] # "whole"
    /\ wpc # "idle" => wnode \in born

\* The first state has files of the old installation only.
LEMMA InitFresh == Init => Fresh
  BY DEF Init, NoGoroutines, Fresh

\* No step gives a file to an id other than the one being written.
LEMMA NextFresh ==
  ASSUME Typed, LockDiscipline, Fresh, [Next]_vars PROVE Fresh'
<1> USE DEF Fresh, Typed, TypeOK, Working, WriterSteps, DeleterSteps, disk, idx,
        writer, deleters, status, daemon, locks, env
<1>1. CASE WriterStep
  <2>1. CASE LogWrite BY <2>1 DEF LogWrite, Fails
  <2>2. CASE CreateFile BY <2>2 DEF CreateFile, WriteReturns, Fails
  <2>3. CASE FillFile BY <2>3 DEF FillFile, WriteReturns, Fails
  <2>4. CASE LoadForAppend \/ SaveAppended \/ CacheWritten
    BY <2>4 DEF LoadForAppend, SaveAppended, CacheWritten, WriteReturns, Fails
  <2> QED BY <1>1, <2>1, <2>2, <2>3, <2>4 DEF WriterStep
<1>2. ASSUME NEW d \in Deleters, DeleterStep(d) PROVE Fresh'
  <2>1. ASSUME NEW n \in Nodes, RemoveFile(d, n) PROVE Fresh'
    BY <2>1 DEF RemoveFile, Fails
  <2>2. CASE List(d) \/ LoadForRemove(d) \/ SaveRemoved(d) \/ Evict(d)
    BY <2>2 DEF List, LoadForRemove, SaveRemoved, Evict, Fails
  <2> QED BY <1>2, <2>1, <2>2 DEF DeleterStep
<1>3. CASE StartStep
  BY <1>3 DEF StartStep, Start, Migrate, OpenWAL, Reindex, DropWAL, Fails
<1>4. CASE Close \/ Exit \/ Crash BY <1>4 DEF Close, Exit, Crash, Halt
<1>5. CASE StatusStep
  BY <1>5 DEF StatusStep, StatusOpen, StatusLoad, StatusSave, StatusDropWAL
<1>6. ASSUME NEW n \in Nodes, Seal(n) \/ Age(n) PROVE Fresh'
  BY <1>6 DEF Seal, Age
<1>7. CASE UNCHANGED vars BY <1>7 DEF vars
<1> QED BY <1>1, <1>2, <1>3, <1>4, <1>5, <1>6, <1>7 DEF Next

\* Only three steps touch a node's file.
LEMMA FileSteps ==
  ASSUME [Next]_vars
  PROVE  \/ file' = file \/ CreateFile \/ FillFile
         \/ \E d \in Deleters, n \in Nodes : RemoveFile(d, n)
<1> USE DEF disk
<1>1. ASSUME WriterStep PROVE file' = file \/ CreateFile \/ FillFile
  BY <1>1 DEF WriterStep, LogWrite, LoadForAppend, SaveAppended, CacheWritten
<1>2. ASSUME NEW d \in Deleters, DeleterStep(d)
      PROVE  file' = file \/ \E n \in Nodes : RemoveFile(d, n)
  BY <1>2 DEF DeleterStep, List, LoadForRemove, SaveRemoved, Evict
<1>3. ASSUME StartStep PROVE file' = file
  BY <1>3 DEF StartStep, Start, Migrate, OpenWAL, Reindex, DropWAL
<1>4. ASSUME StatusStep PROVE file' = file
  BY <1>4 DEF StatusStep, StatusOpen, StatusLoad, StatusSave, StatusDropWAL
<1>5. ASSUME (\E n \in Nodes : Seal(n) \/ Age(n)) \/ Close \/ Exit \/ Crash
      PROVE  file' = file
  BY <1>5 DEF Seal, Age, Close, Exit, Crash
<1>6. CASE UNCHANGED vars BY <1>6 DEF vars
<1> QED BY <1>1, <1>2, <1>3, <1>4, <1>5, <1>6 DEF Next

\* A record is written once, and goes only by a deletion that listed it.
THEOREM WrittenOnce == SafeSpec => RecordWrittenOnce
<1> DEFINE FInv == Typed /\ LockDiscipline /\ Fresh
<1>1. Init => FInv
  BY InitTyped, InitFresh, DeletersAssumption DEF Init, NoGoroutines, LockDiscipline
<1>2. FInv /\ [Next]_vars => FInv' BY NextTyped, NextLocked, NextFresh
<1>3. ASSUME FInv, [Next]_vars
      PROVE  [\A n \in born :
                /\ file[n] = "none" /\ wnode # n => file'[n] = "none"
                /\ file[n] = "whole" /\ file'[n] # "whole" =>
                      \E d \in Deleters : n \in dlist[d]]_vars
  <2> SUFFICES ASSUME NEW n \in born
               PROVE  /\ file[n] = "none" /\ wnode # n => file'[n] = "none"
                      /\ file[n] = "whole" /\ file'[n] # "whole" =>
                            \E d \in Deleters : n \in dlist[d]
    OBVIOUS
  <2> USE <1>3 DEF Fresh, Typed, TypeOK, Working
  <2>1. CASE file' = file BY <2>1
  <2>2. CASE CreateFile BY <2>2 DEF CreateFile
  <2>3. CASE FillFile BY <2>3 DEF FillFile
  <2>4. ASSUME NEW d \in Deleters, NEW m \in Nodes, RemoveFile(d, m)
        PROVE  /\ file[n] = "none" /\ wnode # n => file'[n] = "none"
               /\ file[n] = "whole" /\ file'[n] # "whole" => n \in dlist[d]
    BY <2>4 DEF RemoveFile
  <2> QED BY <1>3, <2>1, <2>2, <2>3, <2>4, FileSteps
<1> HIDE DEF FInv
<1> QED BY <1>1, <1>2, <1>3, PTL DEF SafeSpec, RecordWrittenOnce

-----------------------------------------------------------------------------
\* The store implements NodeLife, as long as only tolerated errors strike.

SameLife == \A n \in Nodes : Life(n)' = Life(n)

\* Only m moves, and only as NodeLife lets it.
OnlyMoves(m) ==
    /\ \A n \in Nodes \ {m} : Life(n)' = Life(n)
    /\ \/ Life(m) = "unused" /\ Life(m)' = "open"
       \/ Life(m) = "open" /\ Life(m)' \in {"live", "dead"}
       \/ /\ Life(m) = "live" /\ Life(m)' = "dead"
          /\ \E d \in Deleters : m \in dlist[d]

LifeInv == KeepsAll /\ Fresh

\* A move of one node is a step of NodeLife.
LEMMA MoveIsStep ==
  ASSUME Typed, Typed', SameLife \/ \E m \in Nodes : OnlyMoves(m)
  PROVE  Promise!Next
<1> DEFINE life == [n \in Nodes |-> Life(n)]
           asked == UNION {dlist[d] : d \in Deleters}
<1>1. asked' \subseteq Nodes BY DEF Typed, TypeOK
<1>2. CASE SameLife
  <2>1. life' = life BY <1>2 DEF SameLife
  <2> QED BY <1>1, <2>1 DEF Promise!Next
<1>3. ASSUME NEW m \in Nodes, OnlyMoves(m) PROVE Promise!Next
  <2>1. life' = [life EXCEPT ![m] = Life(m)'] BY <1>3 DEF OnlyMoves
  <2>2. \A d \in Deleters : m \in dlist[d] => m \in asked OBVIOUS
  <2>3. Promise!Draw(m) \/ Promise!Commit(m) \/ Promise!Lose(m) \/ Promise!Remove(m)
    BY <1>3, <2>1, <2>2 DEF OnlyMoves, Promise!Draw, Promise!Commit, Promise!Lose,
       Promise!Remove, Promise!Become
  <2> QED BY <1>1, <2>3 DEF Promise!Next
<1> QED BY <1>2, <1>3

\* The writer opens, commits and loses only the node it writes.
LEMMA WriterMoves ==
  ASSUME Hazards \subseteq Tolerated, LifeInv, WriterStep
  PROVE  SameLife \/ \E m \in Nodes : OnlyMoves(m)
<1> USE DEF LifeInv, KeepsAll, Steady, disk, idx, env
<1>0. PICK m \in Nodes : m = wnode /\ m \in born
  BY DEF WriterStep, LogWrite, CreateFile, FillFile, LoadForAppend, SaveAppended,
         CacheWritten, Typed, Working, Fresh
<1>1. CASE LogWrite
  <2>1. Life(m) = "open" /\ Life(m)' = "open"
    BY <1>0, <1>1 DEF LogWrite, Fails, Fresh, Life
  <2>2. \A n \in Nodes \ {m} : Life(n)' = Life(n)
    BY <1>0, <1>1 DEF LogWrite, Fails, Life, Recoverable, HasIndex, Typed, TypeOK
  <2> QED BY <2>1, <2>2 DEF SameLife
<1>2. CASE CreateFile
  <2>1. \A n \in Nodes : Recoverable(n)' <=> Recoverable(n)
    BY <1>2 DEF CreateFile, Recoverable, HasIndex
  <2>2. Life(m) = "open" BY <1>0, <1>2 DEF CreateFile, Fresh, Life
  <2>3. Life(m)' \in {"open", "dead"}
    BY <1>0, <1>2 DEF CreateFile, Fails, WriteReturns, Fresh, Life, Typed, TypeOK
  <2>4. \A n \in Nodes \ {m} : Life(n)' = Life(n)
    BY <1>0, <1>2, <2>1 DEF CreateFile, Fails, WriteReturns, Life, Typed, TypeOK
  <2> QED BY <2>2, <2>3, <2>4 DEF SameLife, OnlyMoves
<1>3. CASE FillFile
  <2>1. \A n \in Nodes : Recoverable(n)' <=> Recoverable(n)
    BY <1>3 DEF FillFile, Recoverable, HasIndex
  <2>2. Life(m) = "open" BY <1>0, <1>3 DEF FillFile, Fresh, Life
  <2>3. Life(m)' \in {"live", "dead"}
    BY <1>0, <1>3, <2>1
       DEF FillFile, Fails, WriteReturns, Life, WriteIsLogged, Recoverable, OneKey,
           Fresh, Typed, TypeOK
  <2>4. \A n \in Nodes \ {m} : Life(n)' = Life(n)
    BY <1>0, <1>3, <2>1 DEF FillFile, Fails, WriteReturns, Life, Typed, TypeOK
  <2> QED BY <2>2, <2>3, <2>4 DEF OnlyMoves
<1>4. CASE LoadForAppend
  BY <1>4 DEF LoadForAppend, SameLife, Fails, Life, Recoverable, HasIndex
<1>5. CASE SaveAppended
  <2>1. \A n \in Nodes : Recoverable(n)' <=> Recoverable(n)
    <3>1. /\ snap = index /\ wnode \in wal /\ plain = {} /\ key = "real"
          /\ indexKey \in {"none", "real"} /\ AbsentIsEmpty
      BY <1>5 DEF SaveAppended, SnapIsCurrent, WriteIsLogged, WorksWhenUp,
                  PlainIsMigrated, OneKey, Typed, TypeOK, Keys
    <3> QED BY <1>5, <3>1
            DEF SaveAppended, SaveIndex, KeepIndex, Recoverable, AbsentIsEmpty
  <2> QED BY <1>5, <2>1 DEF SaveAppended, SameLife, Fails, Life
<1>6. CASE CacheWritten
  BY <1>6 DEF CacheWritten, WriteReturns, SameLife, Life, Recoverable, HasIndex
<1> QED BY <1>1, <1>2, <1>3, <1>4, <1>5, <1>6 DEF WriterStep

\* A deleter ends only a node that it listed, when it removes its file.
LEMMA DeleterMoves ==
  ASSUME Hazards \subseteq Tolerated, LifeInv, NEW d \in Deleters, DeleterStep(d)
  PROVE  SameLife \/ \E m \in Nodes : OnlyMoves(m)
<1> USE DEF LifeInv, KeepsAll, Steady, disk, idx, writer, env
<1>1. CASE List(d) BY <1>1 DEF List, SameLife, Life, Recoverable, HasIndex
<1>2. ASSUME NEW n \in Nodes, RemoveFile(d, n) PROVE SameLife \/ OnlyMoves(n)
  <2>1. \A m \in Nodes : Recoverable(m)' <=> Recoverable(m)
    BY <1>2 DEF RemoveFile, Recoverable, HasIndex
  <2>2. \A m \in Nodes \ {n} : Life(m)' = Life(m)
    BY <1>2, <2>1 DEF RemoveFile, Fails, Life, Typed, TypeOK
  <2>3. \/ Life(n)' = Life(n)
        \/ Life(n) = "live" /\ Life(n)' \in {"open", "dead"}
    BY <1>2, <2>1 DEF RemoveFile, Fails, Life, Typed, TypeOK
  <2>4. Life(n) = "live" => Life(n)' # "open"
    BY <1>2, DeletersAssumption
       DEF RemoveFile, Fails, Life, Fresh, LockDiscipline, Typed, TypeOK
  <2>5. n \in dlist[d] BY <1>2 DEF RemoveFile
  <2> QED BY <2>2, <2>3, <2>4, <2>5 DEF SameLife, OnlyMoves
<1>3. CASE LoadForRemove(d)
  BY <1>3 DEF LoadForRemove, SameLife, Fails, Life, Recoverable, HasIndex
<1>4. CASE SaveRemoved(d)
  <2>1. \A n \in Nodes : n # dnode[d] => (Recoverable(n)' <=> Recoverable(n))
    <3>1. /\ snap = index /\ plain = {} /\ key = "real"
          /\ indexKey \in {"none", "real"} /\ AbsentIsEmpty
      BY <1>4 DEF SaveRemoved, SnapIsListed, WorksWhenUp, PlainIsMigrated, OneKey,
                  Typed, TypeOK, Keys
    <3> QED BY <1>4, <3>1
            DEF SaveRemoved, SaveIndex, KeepIndex, Recoverable, AbsentIsEmpty
  <2>2. file[dnode[d]] = "none" BY <1>4 DEF SaveRemoved, FileIsGone
  <2> QED BY <1>4, <2>1, <2>2 DEF SaveRemoved, SameLife, Fails, Life
<1>5. CASE Evict(d) BY <1>5 DEF Evict, SameLife, Life, Recoverable, HasIndex
<1> QED BY <1>1, <1>2, <1>3, <1>4, <1>5 DEF DeleterStep

\* A start moves no node: it only exchanges one thing that leads to it for
\* another.
LEMMA StartMoves ==
  ASSUME Hazards \subseteq Tolerated, LifeInv, StartStep
  PROVE  SameLife
<1> USE DEF LifeInv, KeepsAll, Steady, Typed, TypeOK, OneKey, AbsentIsEmpty,
        LogIsIndexed, NoOrphan, Life, Recoverable, HasIndex, Loadable, Keys, disk, idx,
        writer, env, SameLife
<1>1. CASE Start BY <1>1 DEF Start
<1>2. CASE Migrate BY <1>2 DEF Migrate, SaveIndex, KeepIndex, Fails, Tolerated
<1>3. CASE OpenWAL BY <1>3 DEF OpenWAL, Fails
<1>4. ASSUME NEW n \in Nodes, Reindex(n) PROVE SameLife
  <2>1. LoadedOrEmpty = index /\ plain = {}
    BY <1>4 DEF LoadedOrEmpty, Reindex, PlainIsMigrated
  <2>2. n \in wal BY <1>4 DEF Reindex, TodoIsLogged
  <2>3. ~Fails("replay.load") BY DEF Fails, Tolerated
  <2>4. \A m \in Nodes : Recoverable(m)' <=> Recoverable(m)
    BY <1>4, <2>1, <2>2, <2>3 DEF Reindex, SaveIndex, KeepIndex
  <2> QED BY <1>4, <2>4 DEF Reindex, Fails
<1>5. CASE DropWAL BY <1>5 DEF DropWAL
<1> QED BY <1>1, <1>2, <1>3, <1>4, <1>5 DEF StartStep

\* Every step of the store is a step of NodeLife.
LEMMA StepRefines ==
  ASSUME Hazards \subseteq Tolerated, LifeInv, [Next]_vars
  PROVE  [Promise!Next]_Promise!vars
<1>1. Typed /\ Typed' BY NextTyped DEF LifeInv, KeepsAll, Steady
<1>2. SameLife \/ \E m \in Nodes : OnlyMoves(m)
  <2> USE DEF LifeInv, KeepsAll, Steady, Typed, TypeOK, Working, OneKey, Fresh, Life,
          Recoverable, HasIndex, disk, idx, writer, deleters, status, daemon,
          locks, env
  <2>1. CASE WriterStep BY <2>1, WriterMoves
  <2>2. ASSUME NEW n \in Nodes, Seal(n) PROVE OnlyMoves(n)
    BY <2>2 DEF Seal, OnlyMoves
  <2>3. ASSUME NEW n \in Nodes, Age(n) PROVE SameLife BY <2>3 DEF Age, SameLife
  <2>4. CASE Crash
    <3>1. CASE wpc \in {"sealed", "create", "fill"}
      <4>1. PICK m \in Nodes : m = wnode BY <3>1
      <4>2. Life(m) = "open" /\ Life(m)' = "dead"
        BY <2>4, <3>1, <4>1 DEF Crash, Halt
      <4>3. \A n \in Nodes \ {m} : Life(n)' = Life(n)
        BY <2>4, <4>1 DEF Crash, Halt
      <4> QED BY <4>2, <4>3 DEF OnlyMoves
    <3>2. CASE wpc \notin {"sealed", "create", "fill"}
      BY <2>4, <3>2 DEF Crash, Halt, SameLife
    <3> QED BY <3>1, <3>2
  <2>5. ~Close /\ ~Exit /\ ~StatusStep BY OneProcessSteps, ToleratedHazards
  <2>6. CASE UNCHANGED vars BY <2>6 DEF vars, SameLife
  <2> QED BY <2>1, <2>2, <2>3, <2>4, <2>5, <2>6, DeleterMoves, StartMoves DEF Next
<1> QED BY <1>1, <1>2, MoveIsStep

\* The first state of the store is one of NodeLife.
LEMMA InitRefines == Init => Promise!Init
<1> SUFFICES ASSUME Init PROVE Promise!Init OBVIOUS
<1>1. UNION {dlist[d] : d \in Deleters} = {} BY DEF Init, NoGoroutines
<1>2. \A n \in Nodes : Life(n) = IF n \in Legacy THEN "live" ELSE "unused"
  BY DEF Init, Life, Recoverable, HasIndex
<1> QED BY <1>1, <1>2 DEF Promise!Init

\* Across crashes, restarts and tolerated errors, a node is committed once,
\* stays until a deletion that listed it, and never comes back.
THEOREM StoreImplementsNodeLife ==
  ASSUME Hazards \subseteq Tolerated
  PROVE  SafeSpec => ImplementsNodeLife
<1>1. Init => LifeInv BY InitKeepsAll, InitFresh DEF LifeInv
<1>2. LifeInv /\ [Next]_vars => LifeInv'
  BY NextKeepsAll, NextFresh DEF LifeInv, KeepsAll, Steady
<1>3. LifeInv /\ [Next]_vars => [Promise!Next]_Promise!vars BY StepRefines
<1> QED BY <1>1, <1>2, <1>3, InitRefines, PTL
        DEF SafeSpec, ImplementsNodeLife, Promise!Spec

-----------------------------------------------------------------------------
\* The cache has every listed record, whatever I/O errors strike the one process.

\* Only ids that were drawn are listed anywhere.
Drawn ==
    /\ index \cup wal \cup plain \subseteq born
    /\ \A d \in Deleters : dlist[d] \subseteq born

\* Nobody has heard of a record before its write has saved the index.
NotYetListed ==
    wpc \in {"sealed", "create", "fill", "load", "save"} =>
        wnode \notin index /\ \A d \in Deleters : wnode \notin dlist[d]

\* What a deleter takes out of the cache was listed, and its file is gone.
EvictsTheGone ==
    \A d \in Deleters :
        /\ dpc[d] # "next" => dnode[d] \in dlist[d]
        /\ dpc[d] = "evict" => file[dnode[d]] = "none"

SearchInv == Steady /\ Fresh /\ Drawn /\ NotYetListed /\ EvictsTheGone /\ Searchable

\* The first state has no cache and no daemon to search it.
LEMMA InitSearch == Init => SearchInv
<1> SUFFICES ASSUME Init PROVE SearchInv OBVIOUS
<1> QED BY InitSteady, InitFresh
        DEF Init, NoGoroutines, SearchInv, Drawn, NotYetListed, EvictsTheGone, Searchable

\* The writer adds its record to the index and then to the cache; until then
\* it is the one record that the search may miss.
LEMMA WriterSearch ==
  ASSUME OneProcess, SearchInv, WriterStep
  PROVE  Drawn' /\ NotYetListed' /\ EvictsTheGone' /\ Searchable'
<1> USE DEF SearchInv, Steady, Typed, TypeOK, Working, Fresh, WorksWhenUp, disk, idx,
        writer, deleters, status, daemon, locks, env
<1>1. wnode \in born /\ wnode \in Nodes
  BY DEF WriterStep, LogWrite, CreateFile, FillFile, LoadForAppend, SaveAppended, CacheWritten
<1>2. CASE LogWrite
  BY <1>1, <1>2 DEF LogWrite, Fails, Drawn, NotYetListed, EvictsTheGone, Searchable
<1>3. CASE CreateFile \/ FillFile
  <2>1. /\ wnode \notin index /\ \A d \in Deleters : dpc[d] # "next" => dnode[d] # wnode
        /\ \A n \in Nodes \ {wnode} : file'[n] = file[n]
        /\ UNCHANGED <<index, wal, plain, phase, cache, dpc, dnode, dlist, born>>
        /\ wpc \in {"create", "fill"} /\ wpc' \in {"idle", "fill", "load"} /\ (wpc' # "idle" => wnode' = wnode)
    BY <1>3 DEF CreateFile, FillFile, WriteReturns, Fails, NotYetListed, EvictsTheGone
  <2>2. Drawn' /\ NotYetListed' BY <2>1 DEF Drawn, NotYetListed
  <2>3. EvictsTheGone' BY <2>1 DEF EvictsTheGone
  <2>4. Searchable' BY <2>1 DEF Searchable
  <2> QED BY <2>2, <2>3, <2>4
<1>4. CASE LoadForAppend
  BY <1>4 DEF LoadForAppend, Fails, Drawn, NotYetListed, EvictsTheGone, Searchable
<1>5. CASE SaveAppended
  <2>1. /\ index' \subseteq index \cup {wnode} /\ wpc' = "cache" /\ wnode' = wnode
        /\ UNCHANGED <<file, wal, plain, phase, cache, dpc, dnode, dlist, born>>
    BY <1>5 DEF SaveAppended, SaveIndex, KeepIndex, Fails, SnapIsListed
  <2>2. Drawn' /\ NotYetListed' BY <1>1, <2>1 DEF Drawn, NotYetListed
  <2>3. EvictsTheGone' BY <2>1 DEF EvictsTheGone
  <2>4. wpc # "cache" BY <1>5 DEF SaveAppended
  <2>5. Searchable' BY <2>1, <2>4 DEF Searchable
  <2> QED BY <2>2, <2>3, <2>5
<1>6. CASE CacheWritten
  BY <1>6 DEF CacheWritten, WriteReturns, Drawn, NotYetListed, EvictsTheGone, Searchable
<1> QED BY <1>2, <1>3, <1>4, <1>5, <1>6 DEF WriterStep

\* A deleter takes from the cache only what has no file any more.
LEMMA DeleterSearch ==
  ASSUME OneProcess, SearchInv, NEW d \in Deleters, DeleterStep(d)
  PROVE  Drawn' /\ NotYetListed' /\ EvictsTheGone' /\ Searchable'
<1> USE DEF SearchInv, Steady, Typed, TypeOK, Working, DeleterSteps, disk, idx,
        writer, deleters, status, daemon, locks, env
<1>1. CASE List(d)
  <2>1. /\ dpc[d] = "next" /\ dlist'[d] \subseteq index
        /\ \A e \in Deleters \ {d} : dlist'[e] = dlist[e]
        /\ UNCHANGED <<file, index, wal, plain, phase, cache, dpc, dnode, wpc, wnode, born>>
    BY <1>1 DEF List
  <2>2. Drawn' /\ NotYetListed' BY <2>1 DEF Drawn, NotYetListed
  <2>3. EvictsTheGone' /\ Searchable' BY <2>1 DEF EvictsTheGone, Searchable
  <2> QED BY <2>2, <2>3
<1>2. ASSUME NEW n \in Nodes, RemoveFile(d, n)
      PROVE  Drawn' /\ NotYetListed' /\ EvictsTheGone' /\ Searchable'
  <2>1. /\ \A m \in Nodes : file'[m] \in {file[m], "none"}
        /\ \A e \in Deleters \ {d} : dpc'[e] = dpc[e] /\ dnode'[e] = dnode[e]
        /\ \A e \in Deleters : dlist'[e] \subseteq dlist[e] /\ (e # d => dlist'[e] = dlist[e])
        /\ dpc'[d] \in {"next", "load"} /\ (dpc'[d] = "load" => dnode'[d] \in dlist'[d])
        /\ UNCHANGED <<index, wal, plain, phase, cache, wpc, wnode, born>>
    BY <1>2 DEF RemoveFile, Fails, GiveUp, DeleteReturns
  <2>2. Drawn' /\ NotYetListed' BY <2>1 DEF Drawn, NotYetListed
  <2>3. EvictsTheGone' BY <2>1 DEF EvictsTheGone
  <2>4. Searchable' BY <2>1 DEF Searchable
  <2> QED BY <2>2, <2>3, <2>4
<1>3. CASE LoadForRemove(d)
  <2>1. /\ \A e \in Deleters \ {d} : dpc'[e] = dpc[e] /\ dnode'[e] = dnode[e]
        /\ \A e \in Deleters : dlist'[e] \subseteq dlist[e] /\ (e # d => dlist'[e] = dlist[e])
        /\ dpc[d] = "load" /\ dpc'[d] \in {"next", "save"}
        /\ dpc'[d] = "save" => dnode'[d] = dnode[d] /\ dlist'[d] = dlist[d]
        /\ UNCHANGED <<file, index, wal, plain, phase, cache, wpc, wnode, born>>
    BY <1>3 DEF LoadForRemove, Fails, GiveUp, DeleteReturns
  <2>2. Drawn' /\ NotYetListed' BY <2>1 DEF Drawn, NotYetListed
  <2>3. EvictsTheGone' /\ Searchable' BY <2>1 DEF EvictsTheGone, Searchable
  <2> QED BY <2>2, <2>3
<1>4. CASE SaveRemoved(d)
  <2>1. /\ \A e \in Deleters \ {d} : dpc'[e] = dpc[e] /\ dnode'[e] = dnode[e]
        /\ \A e \in Deleters : dlist'[e] \subseteq dlist[e] /\ (e # d => dlist'[e] = dlist[e])
        /\ dpc[d] = "save" /\ dpc'[d] \in {"next", "evict"} /\ index' \subseteq index
        /\ dpc'[d] = "evict" => dnode'[d] = dnode[d] /\ dlist'[d] = dlist[d]
        /\ UNCHANGED <<file, wal, plain, phase, cache, wpc, wnode, born>>
    BY <1>4 DEF SaveRemoved, SaveIndex, KeepIndex, Fails, GiveUp, DeleteReturns, SnapIsListed
  <2>2. file[dnode[d]] = "none" BY <2>1 DEF FileIsGone
  <2>3. Drawn' /\ NotYetListed' BY <2>1 DEF Drawn, NotYetListed
  <2>4. EvictsTheGone' /\ Searchable' BY <2>1, <2>2 DEF EvictsTheGone, Searchable
  <2> QED BY <2>3, <2>4
<1>5. CASE Evict(d)
  <2>1. /\ \A e \in Deleters \ {d} : dpc'[e] = dpc[e] /\ dnode'[e] = dnode[e]
        /\ \A e \in Deleters : dlist'[e] \subseteq dlist[e] /\ (e # d => dlist'[e] = dlist[e])
        /\ dpc'[d] = "next" /\ cache' = cache \ {dnode[d]} /\ file[dnode[d]] = "none"
        /\ UNCHANGED <<file, index, wal, plain, phase, wpc, wnode, born>>
    BY <1>5 DEF Evict, DeleteReturns, EvictsTheGone
  <2>2. Drawn' /\ NotYetListed' BY <2>1 DEF Drawn, NotYetListed
  <2>3. EvictsTheGone' BY <2>1 DEF EvictsTheGone
  <2>4. Searchable' BY <2>1 DEF Searchable
  <2> QED BY <2>2, <2>3, <2>4
<1> QED BY <1>1, <1>2, <1>3, <1>4, <1>5 DEF DeleterStep

\* A start ends by loading the cache from the index it has made.
LEMMA StartSearch ==
  ASSUME OneProcess, SearchInv, StartStep
  PROVE  Drawn' /\ NotYetListed' /\ EvictsTheGone' /\ Searchable'
<1> USE DEF SearchInv, Steady, Typed, TypeOK, WorksWhenUp, TodoIsLogged, disk, idx,
        writer, deleters, status, daemon, locks, env
<1>1. phase # "up" /\ wpc = "idle" /\ UNCHANGED <<file, wpc, wnode, dpc, dnode, dlist, born>>
  BY DEF StartStep, Start, Migrate, OpenWAL, Reindex, DropWAL, Fails
<1>2. index' \cup wal' \cup plain' \subseteq index \cup wal \cup plain
  <2>1. CASE Start \/ OpenWAL \/ DropWAL BY <2>1 DEF Start, OpenWAL, DropWAL
  <2>2. CASE Migrate BY <2>2 DEF Migrate, SaveIndex, KeepIndex
  <2>3. ASSUME NEW n \in Nodes, Reindex(n)
        PROVE  index' \cup wal' \cup plain' \subseteq index \cup wal \cup plain
    BY <2>3 DEF Reindex, LoadedOrEmpty, SaveIndex, KeepIndex
  <2> QED BY <2>1, <2>2, <2>3 DEF StartStep
<1>3. Drawn' /\ NotYetListed' /\ EvictsTheGone' BY <1>1, <1>2 DEF Drawn, NotYetListed, EvictsTheGone
<1>4. ASSUME phase' = "up" PROVE LoadCache /\ index' = index /\ Loadable
  <2>1. OpenWAL \/ DropWAL
    BY <1>1, <1>4 DEF StartStep, Start, Migrate, Reindex
  <2>2. LoadCache /\ index' = index BY <1>4, <2>1 DEF OpenWAL, DropWAL
  <2> QED BY <2>2 DEF OneKey, Loadable, HasIndex, Keys
<1>5. Searchable' BY <1>1, <1>4 DEF Searchable, LoadCache
<1> QED BY <1>3, <1>5

\* Every step keeps the records found.
LEMMA NextSearch ==
  ASSUME OneProcess, SearchInv, [Next]_vars
  PROVE  SearchInv'
<1>1. Steady' /\ Fresh' BY NextSteady, NextFresh DEF SearchInv, Steady
<1>2. Drawn' /\ NotYetListed' /\ EvictsTheGone' /\ Searchable'
  <2> USE DEF SearchInv, Drawn, NotYetListed, EvictsTheGone, Searchable, disk, idx,
          writer, deleters, status, daemon, locks, env
  <2>1. ASSUME NEW n \in Nodes, Seal(n)
        PROVE  Drawn' /\ NotYetListed' /\ EvictsTheGone' /\ Searchable'
    BY <2>1 DEF Seal
  <2>2. ASSUME NEW n \in Nodes, Age(n)
        PROVE  Drawn' /\ NotYetListed' /\ EvictsTheGone' /\ Searchable'
    BY <2>2 DEF Age
  <2>3. CASE Crash BY <2>3 DEF Crash, Halt
  <2>4. ~Close /\ ~Exit /\ ~StatusStep BY OneProcessSteps
  <2>5. CASE UNCHANGED vars BY <2>5 DEF vars
  <2> QED BY <2>1, <2>2, <2>3, <2>4, <2>5, WriterSearch, DeleterSearch, StartSearch DEF Next
<1> QED BY <1>1, <1>2 DEF SearchInv

\* Without a shutdown and a second process, every listed readable record with an
\* embedding is in the cache once the daemon is up, wherever I/O errors strike
\* and though the cache is changed outside the lock (lancedb.go:145-154,
\* jsonstore.go:241-276): a late Evict never takes out a record that is
\* still there, and the one missing is the one whose write is not through.
THEOREM ListedIsFound ==
  ASSUME OneProcess
  PROVE  SafeSpec => []Searchable
<1>1. Init => SearchInv BY InitSearch
<1>2. SearchInv /\ [Next]_vars => SearchInv' BY NextSearch
<1>3. SearchInv => Searchable BY DEF SearchInv
<1> QED BY <1>1, <1>2, <1>3, PTL DEF SafeSpec
=============================================================================
