----------------------------- MODULE MemoryStore -----------------------------
(***************************************************************************)
(* internal/storage: Store (lancedb.go) over JSONStore (jsonstore.go), its *)
(* directory memories/ and the processes that work on it.                  *)
(*                                                                         *)
(* The directory holds one <id>.enc file per node, index.enc, which lists  *)
(* ids and timestamps, wal.log, and in an old installation the plaintext   *)
(* index.json.  In the daemon the inference loop writes nodes while the    *)
(* retention sweep and the API's delete handler remove them; s.mu          *)
(* serialises their file work, but not what they do to the embedding cache *)
(* afterwards.  A crash keeps the directory and loses the rest.            *)
(*                                                                         *)
(* Hazards says what the environment may do besides crashing: the places   *)
(* where an I/O error can strike, a shutdown, and a second process.        *)
(***************************************************************************)
EXTENDS Naturals

CONSTANTS
    Nodes,      \* node ids
    NoNode,     \* no node id
    Vectors,    \* the nodes whose description could be embedded
    Legacy,     \* the nodes listed in the index.json of an old installation
    Deleters,   \* the goroutines that delete; Sweeper is one of them
    Sweeper,
    Hazards,
    MaxFaults,  \* bound: I/O errors in a behaviour
    MaxCrashes  \* bound: crashes in a behaviour

\* Errors after which nothing is lost: each leaves a log, an index or a later
\* sweep that still knows the node.
Tolerated == {"write.file", "write.save", "delete.file", "delete.load",
              "delete.save"}

\* "write.wal": appendWAL fails; "write.load", "replay.load": reading index.enc
\* fails in appendIndex; "replay.save": saving it fails during replay;
\* "migrate": index.json cannot be read; "shutdown": run() returns; "timeout":
\* it does so while the inference loop still runs; "status": another process
\* runs the status command.
ASSUME HazardsAssumption ==
    Hazards \subseteq Tolerated \cup
        {"write.wal", "write.load", "replay.load", "replay.save", "migrate",
         "shutdown", "timeout", "status"}
ASSUME NodesAssumption ==
    /\ NoNode \notin Nodes
    /\ Vectors \subseteq Nodes
    /\ Legacy \subseteq Nodes
ASSUME DeletersAssumption ==
    /\ Sweeper \in Deleters
    /\ {"writer", "none"} \cap Deleters = {}
ASSUME BoundsAssumption == MaxFaults \in Nat /\ MaxCrashes \in Nat

VARIABLES
    \* The directory.
    file,       \* each node's .enc file: "none", "bad" (unreadable), "whole"
    index,      \* the ids index.enc lists
    indexKey,   \* the key it was sealed under, "none" when there is no index.enc
    wal,        \* the ids in wal.log
    plain,      \* the ids in index.json
    \* The daemon.
    phase,      \* "down", "migrate", "replay", "reindex", "up" or "closed"
    key,        \* Encryptor.key: "real", or "zeroed" by Close
    mu,         \* who holds s.mu for writing: "none", "writer" or a deleter
    snap,       \* the index entries the holder of s.mu has loaded
    cache,      \* embCache
    todo,       \* replayWAL: the entries still to look at
    wpc, wnode, wkey,       \* the inference loop inside Store.Write
    dpc, dnode, dlist,      \* each deleter inside its deletion loop
    late,       \* did run() give up waiting for the inference loop?
    \* The status command.
    spc, snode, slist, ssnap,
    \* History and the environment.
    born,       \* ids drawn
    old,        \* nodes past the retention cutoff
    faults, crashes

idx == <<index, indexKey>>
disk == <<file, idx, wal, plain>>
writer == <<wpc, wnode, wkey>>
deleters == <<dpc, dnode, dlist>>
status == <<spc, snode, slist, ssnap>>
daemon == <<phase, key, late, todo>>
locks == <<mu, snap>>
env == <<born, old, faults, crashes>>
vars == <<disk, daemon, locks, cache, writer, deleters, status, env>>

WriterSteps == {"idle", "sealed", "create", "fill", "load", "save", "cache"}
DeleterSteps == {"next", "load", "save", "evict"}
Keys == {"real", "zeroed"}

\* What each process and the directory can hold, in every phase.
TypeOK ==
    /\ file \in [Nodes -> {"none", "bad", "whole"}]
    /\ late \in BOOLEAN
    /\ index \subseteq Nodes /\ wal \subseteq Nodes /\ plain \subseteq Nodes
    /\ snap \subseteq Nodes /\ cache \subseteq Nodes /\ todo \subseteq Nodes
    /\ indexKey \in Keys \cup {"none"} /\ key \in Keys /\ wkey \in Keys
    /\ phase \in {"down", "migrate", "replay", "reindex", "up", "closed"}
    /\ mu \in {"none", "writer"} \cup Deleters
    /\ wpc \in WriterSteps /\ wnode \in Nodes \cup {NoNode}
    /\ dpc \in [Deleters -> DeleterSteps]
    /\ dnode \in [Deleters -> Nodes \cup {NoNode}]
    /\ dlist \in [Deleters -> SUBSET Nodes]
    /\ spc \in {"idle", "load", "save"} /\ snode \in Nodes \cup {NoNode}
    /\ slist \subseteq Nodes /\ ssnap \subseteq Nodes
    /\ born \subseteq Nodes /\ old \subseteq Nodes
    /\ faults \in Nat /\ crashes \in Nat

NoGoroutines ==
    /\ mu = "none" /\ snap = {} /\ cache = {} /\ todo = {}
    /\ wpc = "idle" /\ wnode = NoNode /\ wkey = "real"
    /\ dpc = [d \in Deleters |-> "next"]
    /\ dnode = [d \in Deleters |-> NoNode]
    /\ dlist = [d \in Deleters |-> {}]
    /\ phase = "down" /\ key = "real" /\ late = FALSE

Init ==
    /\ file = [n \in Nodes |-> IF n \in Legacy THEN "whole" ELSE "none"]
    /\ plain = Legacy
    /\ index = {} /\ indexKey = "none" /\ wal = {}
    /\ NoGoroutines
    /\ spc = "idle" /\ snode = NoNode /\ slist = {} /\ ssnap = {}
    /\ born = Legacy /\ old = {} /\ faults = 0 /\ crashes = 0

-----------------------------------------------------------------------------
\* The error paths: an error at this place, or none.
Fails(site) ==
    /\ site \in Hazards
    /\ faults < MaxFaults
    /\ faults' = faults + 1
    /\ UNCHANGED <<born, old, crashes>>

\* loadIndex: an absent file is an empty index, and a file sealed under
\* another key is ErrTampered.
HasIndex == indexKey # "none"
Loadable == HasIndex => indexKey = key

\* appendIndex drops the error of loadIndex and goes on with no entries.
LoadedOrEmpty == IF Loadable THEN index ELSE {}

\* saveIndexEntries: sealed under the key as it now is, then renamed over
\* index.enc, so that a crash leaves the old file or the new one.
SaveIndex(entries) ==
    /\ index' = entries
    /\ indexKey' = key

KeepIndex == UNCHANGED idx

-----------------------------------------------------------------------------
\* Store.Write, in the inference loop.  Seal runs before the lock is taken.
Seal(n) ==
    /\ wpc = "idle"
    /\ phase = "up" \/ late
    /\ n \notin born
    /\ born' = born \cup {n}
    /\ wpc' = "sealed" /\ wnode' = n /\ wkey' = key
    /\ UNCHANGED <<disk, daemon, locks, cache, deleters, status, old, faults, crashes>>

\* A bug to catch: no log entry before the record.
LogWrite_NoLog ==
    /\ wpc = "sealed"
    /\ mu = "none"
    /\ mu' = "writer"
    /\ wpc' = "create"
    /\ UNCHANGED <<disk, daemon, snap, cache, wnode, wkey, deleters, status, env>>

\* WriteRecord takes s.mu and calls appendWAL, whose error it only logs.
LogWrite ==
    /\ wpc = "sealed"
    /\ mu = "none"
    /\ mu' = "writer"
    /\ \/ wal' = wal \cup {wnode} /\ UNCHANGED env
       \/ Fails("write.wal") /\ wal' = wal
    /\ wpc' = "create"
    /\ UNCHANGED <<file, idx, plain, daemon, snap, cache, wnode, wkey, deleters, status>>

WriteReturns == wpc' = "idle" /\ wnode' = NoNode /\ wkey' = "real"

\* os.WriteFile creates the file, then fills it.
CreateFile ==
    /\ wpc = "create"
    /\ \/ /\ file' = [file EXCEPT ![wnode] = "bad"]
          /\ wpc' = "fill"
          /\ UNCHANGED <<wnode, wkey, mu, env>>
       \/ /\ Fails("write.file")
          /\ mu' = "none"
          /\ WriteReturns
          /\ file' = file
    /\ UNCHANGED <<idx, wal, plain, daemon, snap, cache, deleters, status>>

\* A record sealed under the zeroed key is ErrTampered to every later reader.
FillFile ==
    /\ wpc = "fill"
    /\ \/ /\ file' = [file EXCEPT ![wnode] = IF wkey = "real" THEN "whole" ELSE "bad"]
          /\ wpc' = "load"
          /\ UNCHANGED <<wnode, wkey, mu, env>>
       \/ /\ Fails("write.file")
          /\ mu' = "none"
          /\ WriteReturns
          /\ file' = file
    /\ UNCHANGED <<idx, wal, plain, daemon, snap, cache, deleters, status>>

LoadForAppend ==
    /\ wpc = "load"
    /\ \/ snap' = LoadedOrEmpty /\ UNCHANGED env
       \/ Fails("write.load") /\ snap' = {}
    /\ wpc' = "save"
    /\ UNCHANGED <<disk, daemon, mu, cache, wnode, wkey, deleters, status>>

\* Bugs to catch: the loaded entries are not kept, or a save is not atomic.
SaveAppended_Overwrites ==
    /\ wpc = "save"
    /\ SaveIndex({wnode})
    /\ wpc' = "cache" /\ mu' = "none" /\ snap' = {}
    /\ UNCHANGED <<file, wal, plain, daemon, cache, wnode, wkey, deleters, status, env>>

SaveAppended_Truncates ==
    /\ wpc = "save"
    /\ \/ IF wnode \in snap THEN KeepIndex /\ UNCHANGED env
                             ELSE SaveIndex(snap \cup {wnode}) /\ UNCHANGED env
       \/ wnode \notin snap /\ Fails("write.save") /\ SaveIndex({})
    /\ wpc' = "cache" /\ mu' = "none" /\ snap' = {}
    /\ UNCHANGED <<file, wal, plain, daemon, cache, wnode, wkey, deleters, status>>

\* WriteRecord only logs an error of appendIndex, and releases s.mu.
SaveAppended ==
    /\ wpc = "save"
    /\ \/ IF wnode \in snap THEN KeepIndex /\ UNCHANGED env
                             ELSE SaveIndex(snap \cup {wnode}) /\ UNCHANGED env
       \/ wnode \notin snap /\ Fails("write.save") /\ KeepIndex
    /\ wpc' = "cache" /\ mu' = "none" /\ snap' = {}
    /\ UNCHANGED <<file, wal, plain, daemon, cache, wnode, wkey, deleters, status>>

\* updateEmbeddingCache, after the lock is gone.
CacheWritten ==
    /\ wpc = "cache"
    /\ cache' = cache \cup ({wnode} \cap Vectors)
    /\ WriteReturns
    /\ UNCHANGED <<disk, daemon, locks, deleters, status, env>>

-----------------------------------------------------------------------------
\* Sweep lists what is older than the cutoff, DeleteRange what a range of
\* time holds; both then delete the listed nodes one by one.
Wanted(d) == IF d = Sweeper THEN {old} ELSE {Nodes, Nodes \ old}

Running == phase \in {"up", "closed"}

List(d) ==
    /\ Running
    /\ dpc[d] = "next" /\ dlist[d] = {}
    /\ mu = "none"
    /\ Loadable
    /\ \E ids \in Wanted(d) : dlist' = [dlist EXCEPT ![d] = index \cap ids]
    /\ UNCHANGED <<disk, daemon, locks, cache, writer, dpc, dnode, status, env>>

\* The deletion loop goes on to the next node, after an error as well.
DeleteReturns(d, n) ==
    /\ dpc' = [dpc EXCEPT ![d] = "next"]
    /\ dnode' = [dnode EXCEPT ![d] = NoNode]
    /\ dlist' = [dlist EXCEPT ![d] = @ \ {n}]

\* A bug to catch: an error path that returns without Unlock.
GiveUp_KeepsLock(d, n) == UNCHANGED mu /\ DeleteReturns(d, n)

GiveUp(d, n) == mu' = "none" /\ DeleteReturns(d, n)

\* Bugs to catch: the error of os.Remove is ignored, or an absent file is one.
RemoveFile_IgnoresError(d, n) ==
    /\ dpc[d] = "next" /\ n \in dlist[d]
    /\ mu = "none"
    /\ \/ file' = [file EXCEPT ![n] = "none"] /\ UNCHANGED env
       \/ Fails("delete.file") /\ file' = file
    /\ mu' = d
    /\ dpc' = [dpc EXCEPT ![d] = "load"]
    /\ dnode' = [dnode EXCEPT ![d] = n]
    /\ UNCHANGED <<idx, wal, plain, daemon, snap, cache, writer, dlist, status>>

RemoveFile_AbsentIsError(d, n) ==
    /\ dpc[d] = "next" /\ n \in dlist[d]
    /\ mu = "none"
    /\ IF file[n] = "none"
       THEN GiveUp(d, n) /\ file' = file
       ELSE /\ file' = [file EXCEPT ![n] = "none"]
            /\ mu' = d
            /\ dpc' = [dpc EXCEPT ![d] = "load"]
            /\ dnode' = [dnode EXCEPT ![d] = n]
            /\ dlist' = dlist
    /\ UNCHANGED <<idx, wal, plain, daemon, snap, cache, writer, status, env>>

\* DeleteRecord takes s.mu and removes the node file; a file that is not there
\* counts as removed.
RemoveFile(d, n) ==
    /\ dpc[d] = "next" /\ n \in dlist[d]
    /\ mu = "none"
    /\ \/ /\ file' = [file EXCEPT ![n] = "none"]
          /\ mu' = d
          /\ dpc' = [dpc EXCEPT ![d] = "load"]
          /\ dnode' = [dnode EXCEPT ![d] = n]
          /\ UNCHANGED <<dlist, env>>
       \/ /\ Fails("delete.file")
          /\ GiveUp(d, n)
          /\ file' = file
    /\ UNCHANGED <<idx, wal, plain, daemon, snap, cache, writer, status>>

\* removeFromIndex returns the error of loadIndex.
LoadForRemove(d) ==
    /\ dpc[d] = "load"
    /\ \/ /\ Loadable
          /\ snap' = index
          /\ dpc' = [dpc EXCEPT ![d] = "save"]
          /\ UNCHANGED <<mu, dnode, dlist, env>>
       \/ /\ \/ ~Loadable /\ UNCHANGED env
             \/ Fails("delete.load")
          /\ GiveUp(d, dnode[d])
          /\ snap' = snap
    /\ UNCHANGED <<disk, daemon, cache, writer, status>>

SaveRemoved(d) ==
    /\ dpc[d] = "save"
    /\ \/ /\ SaveIndex(snap \ {dnode[d]})
          /\ mu' = "none"
          /\ dpc' = [dpc EXCEPT ![d] = "evict"]
          /\ UNCHANGED <<dnode, dlist, env>>
       \/ /\ Fails("delete.save")
          /\ GiveUp(d, dnode[d])
          /\ KeepIndex
    /\ snap' = {}
    /\ UNCHANGED <<file, wal, plain, daemon, cache, writer, status>>

\* Store.Delete evicts after DeleteRecord has succeeded and let the lock go.
Evict(d) ==
    /\ dpc[d] = "evict"
    /\ cache' = cache \ {dnode[d]}
    /\ DeleteReturns(d, dnode[d])
    /\ UNCHANGED <<disk, daemon, locks, writer, status, env>>

-----------------------------------------------------------------------------
\* NewJSONStore, before any of the daemon's goroutines runs.
Start ==
    /\ phase = "down"
    /\ phase' = "migrate"
    /\ UNCHANGED <<disk, key, late, todo, locks, cache, writer, deleters, status, env>>

\* migrateIndexIfNeeded, whose error NewJSONStore only logs.  With index.enc
\* saved, the plaintext file goes, now or after a crash.
Migrate ==
    /\ phase = "migrate"
    /\ \/ /\ plain = {} \/ HasIndex
          /\ plain' = {}
          /\ phase' = "replay"
          /\ KeepIndex /\ UNCHANGED env
       \/ /\ plain # {} /\ ~HasIndex
          /\ SaveIndex(plain)
          /\ UNCHANGED <<plain, phase, env>>
       \/ /\ plain # {} /\ ~HasIndex /\ Fails("migrate")
          /\ phase' = "replay"
          /\ KeepIndex /\ plain' = plain
    /\ UNCHANGED <<file, wal, key, late, todo, locks, cache, writer, deleters, status>>

\* loadEmbeddingCache: every listed node that can be read.
LoadCache ==
    cache' = IF Loadable THEN {n \in index \cap Vectors : file[n] = "whole"} ELSE {}

\* replayWAL reads the log and, dropping the error, the index.
OpenWAL ==
    /\ phase = "replay"
    /\ IF wal = {}
       THEN phase' = "up" /\ LoadCache /\ UNCHANGED <<todo, env>>
       ELSE /\ phase' = "reindex"
            /\ \/ todo' = wal \ LoadedOrEmpty /\ UNCHANGED env
               \/ Fails("replay.load") /\ todo' = wal
            /\ cache' = cache
    /\ UNCHANGED <<disk, key, late, locks, writer, deleters, status>>

\* Bugs to catch: the replay skips what it cannot read, or tidies up a record
\* that it could not index.
Reindex_OnlyReadable(n) ==
    /\ phase = "reindex" /\ n \in todo
    /\ todo' = todo \ {n}
    /\ IF file[n] = "whole" /\ n \notin LoadedOrEmpty
       THEN SaveIndex(LoadedOrEmpty \cup {n})
       ELSE KeepIndex
    /\ UNCHANGED <<file, wal, plain, phase, key, late, locks, cache, writer, deleters, status, env>>

Reindex_Tidies(n) ==
    /\ phase = "reindex" /\ n \in todo
    /\ todo' = todo \ {n}
    /\ IF file[n] = "none" \/ n \in LoadedOrEmpty
       THEN UNCHANGED <<idx, file, env>>
       ELSE \/ SaveIndex(LoadedOrEmpty \cup {n}) /\ UNCHANGED <<file, env>>
            \/ /\ Fails("replay.save")
               /\ file' = [file EXCEPT ![n] = "none"]
               /\ KeepIndex
    /\ UNCHANGED <<wal, plain, phase, key, late, locks, cache, writer, deleters, status>>

\* An entry whose file exists goes through appendIndex; an error is logged
\* and the next entry is tried.
Reindex(n) ==
    /\ phase = "reindex" /\ n \in todo
    /\ todo' = todo \ {n}
    /\ \/ /\ file[n] = "none" \/ n \in LoadedOrEmpty
          /\ KeepIndex /\ UNCHANGED env
       \/ /\ file[n] # "none" /\ n \notin LoadedOrEmpty
          /\ SaveIndex(LoadedOrEmpty \cup {n}) /\ UNCHANGED env
       \/ file[n] # "none" /\ Fails("replay.load") /\ SaveIndex({n})
       \/ file[n] # "none" /\ Fails("replay.save") /\ KeepIndex
    /\ UNCHANGED <<file, wal, plain, phase, key, late, locks, cache, writer, deleters, status>>

\* A bug to catch: the cache is loaded before the log is replayed.
DropWAL_StaleCache ==
    /\ phase = "reindex" /\ todo = {}
    /\ wal' = {}
    /\ phase' = "up"
    /\ UNCHANGED <<file, idx, plain, key, late, todo, locks, cache, writer, deleters, status, env>>

\* "Remove WAL now that replay is complete", whatever became of the entries.
DropWAL ==
    /\ phase = "reindex" /\ todo = {}
    /\ wal' = {}
    /\ phase' = "up"
    /\ LoadCache
    /\ UNCHANGED <<file, idx, plain, key, late, todo, locks, writer, deleters, status, env>>

\* run() returns: it waits ten seconds for the capture and inference loops,
\* and for nothing else, then its deferred calls zero the key.
Close ==
    /\ "shutdown" \in Hazards
    /\ phase = "up"
    /\ \/ wpc = "idle" /\ late' = FALSE
       \/ "timeout" \in Hazards /\ late' = TRUE
    /\ phase' = "closed"
    /\ key' = "zeroed"
    /\ UNCHANGED <<disk, todo, locks, cache, writer, deleters, status, env>>

\* The process is gone.
Halt ==
    /\ mu' = "none" /\ snap' = {} /\ cache' = {} /\ todo' = {}
    /\ wpc' = "idle" /\ wnode' = NoNode /\ wkey' = "real"
    /\ dpc' = [d \in Deleters |-> "next"]
    /\ dnode' = [d \in Deleters |-> NoNode]
    /\ dlist' = [d \in Deleters |-> {}]
    /\ phase' = "down" /\ key' = "real" /\ late' = FALSE

Exit ==
    /\ phase = "closed"
    /\ Halt
    /\ UNCHANGED <<disk, status, env>>

Crash ==
    /\ phase # "down"
    /\ crashes < MaxCrashes
    /\ crashes' = crashes + 1
    /\ Halt
    /\ UNCHANGED <<disk, status, born, old, faults>>

-----------------------------------------------------------------------------
\* `digitalghost status`, another process: it calls NewJSONStore on the same
\* directory, and s.mu is not shared with the daemon.
StatusOpen ==
    /\ "status" \in Hazards
    /\ spc = "idle"
    /\ plain = {} /\ wal # {}
    /\ slist' = IF indexKey = "zeroed" THEN wal ELSE wal \ index
    /\ spc' = "load"
    /\ UNCHANGED <<disk, daemon, locks, cache, writer, deleters, snode, ssnap, env>>

\* A bug to catch: the entry to save is not the one that was looked at.
StatusLoad_ForgetsNode(n) ==
    /\ spc = "load" /\ n \in slist
    /\ ssnap' = IF indexKey = "zeroed" THEN {} ELSE index
    /\ spc' = "save"
    /\ UNCHANGED <<disk, daemon, locks, cache, writer, deleters, snode, slist, env>>

StatusLoad(n) ==
    /\ spc = "load" /\ n \in slist
    /\ IF file[n] = "none"
       THEN slist' = slist \ {n} /\ UNCHANGED <<spc, snode, ssnap>>
       ELSE /\ ssnap' = IF indexKey = "zeroed" THEN {} ELSE index
            /\ snode' = n
            /\ spc' = "save"
            /\ slist' = slist
    /\ UNCHANGED <<disk, daemon, locks, cache, writer, deleters, env>>

StatusSave ==
    /\ spc = "save"
    /\ IF snode \in ssnap
       THEN KeepIndex
       ELSE /\ index' = ssnap \cup {snode}
            /\ indexKey' = "real"
    /\ slist' = slist \ {snode}
    /\ spc' = "load" /\ snode' = NoNode /\ ssnap' = {}
    /\ UNCHANGED <<file, wal, plain, daemon, locks, cache, writer, deleters, env>>

StatusDropWAL ==
    /\ spc = "load" /\ slist = {}
    /\ wal' = {}
    /\ spc' = "idle"
    /\ UNCHANGED <<file, idx, plain, daemon, locks, cache, writer, deleters, snode, slist, ssnap, env>>

\* Time passes.
Age(n) ==
    /\ n \in born \ old
    /\ old' = old \cup {n}
    /\ UNCHANGED <<disk, daemon, locks, cache, writer, deleters, status, born, faults, crashes>>

-----------------------------------------------------------------------------
WriterStep ==
    \/ LogWrite \/ CreateFile \/ FillFile
    \/ LoadForAppend \/ SaveAppended \/ CacheWritten

DeleterStep(d) ==
    \/ List(d)
    \/ \E n \in Nodes : RemoveFile(d, n)
    \/ LoadForRemove(d) \/ SaveRemoved(d) \/ Evict(d)

StartStep == Start \/ Migrate \/ OpenWAL \/ (\E n \in Nodes : Reindex(n)) \/ DropWAL

StatusStep ==
    \/ StatusOpen \/ StatusSave \/ StatusDropWAL
    \/ \E n \in Nodes : StatusLoad(n)

Next ==
    \/ \E n \in Nodes : Seal(n) \/ Age(n)
    \/ WriterStep
    \/ \E d \in Deleters : DeleterStep(d)
    \/ StartStep \/ Close \/ Exit \/ Crash
    \/ StatusStep

SafeSpec == Init /\ [][Next]_vars

\* The goroutines run whenever they can, the daemon is started again after it
\* ended, and the sweep comes round every night.
Fairness ==
    /\ WF_vars(WriterStep)
    /\ \A d \in Deleters : WF_vars(DeleterStep(d))
    /\ WF_vars(StartStep)
    /\ WF_vars(Exit)

Spec == SafeSpec /\ Fairness

-----------------------------------------------------------------------------
\* Something still leads to the node: index.enc, the log that will be
\* replayed, or an index.json that is still to be migrated.
Recoverable(n) ==
    \/ n \in index /\ indexKey = "real"
    \/ n \in wal
    \/ n \in plain /\ ~HasIndex

\* No node file is ever left behind that nothing leads to: such a file could
\* be neither read nor found by the retention sweep (jsonstore.go:142-162,
\* 278-286, 403-486).
NoOrphan == \A n \in Nodes : file[n] # "none" => Recoverable(n)

\* An entry leaves the index only after its node file is gone, in whatever
\* order writes, deletions, crashes and replays come (jsonstore.go:551-579).
EntryOutlivesFile ==
    [][\A n \in index \ index' : file[n] = "none"]_vars

\* Once started, every listed readable node with an embedding is found by the
\* vector search, except the one whose write has not come to that yet
\* (lancedb.go:145-154, jsonstore.go:241-276).
Searchable ==
    phase = "up" =>
        \A n \in index \cap Vectors :
            file[n] = "whole" => n \in cache \/ (wpc = "cache" /\ wnode = n)

\* Nothing outlives the retention period for good, not even what a crash left
\* half written; only after an I/O error may a record wait in the log for the
\* next start (retention.go:78-108, jsonstore.go:142-162).
OldNodesGo ==
    \A n \in Nodes : n \in old /\ file[n] # "none" ~>
        file[n] = "none" \/ (faults > 0 /\ n \in wal \ index)

\* A deletion that failed half way is finished by a later sweep: an old entry
\* always leaves the index, whether or not its file is still there
\* (jsonstore.go:278-286, retention.go:96-104).
OldEntriesGo ==
    \A n \in Nodes : n \in old /\ n \in index ~> n \notin index

Life(n) ==
    IF n \notin born THEN "unused"
    ELSE IF file[n] = "whole" /\ Recoverable(n) THEN "live"
    ELSE IF wnode = n /\ wpc \in {"sealed", "create", "fill"} THEN "open"
    ELSE "dead"

Promise ==
    INSTANCE NodeLife WITH
        life <- [n \in Nodes |-> Life(n)],
        asked <- UNION {dlist[d] : d \in Deleters}

\* Across crashes and restarts a node is committed once, stays until a deletion
\* that listed it, and never comes back.
ImplementsNodeLife == Promise!Spec

\* A record is written once: whatever fails, and whichever process replays the
\* log, the file of a node that is gone never reappears, and a whole record goes
\* only by a deletion that listed it (jsonstore.go:142-162, 460-476).
RecordWrittenOnce ==
    [][\A n \in born :
          /\ file[n] = "none" /\ wnode # n => file'[n] = "none"
          /\ file[n] = "whole" /\ file'[n] # "whole" =>
                \E d \in Deleters : n \in dlist[d]]_vars

\* Whatever fails inside it, an operation lets go of the store's lock, so that
\* one bad file cannot stop the others (jsonstore.go:142-162, 278-286).
LockReleased == mu # "none" ~> mu = "none"

\* Under the lock means holding it: no two goroutines are between Lock and
\* Unlock at a time, on the error paths as well (jsonstore.go:143-144, 279-280).
LockDiscipline ==
    /\ mu = "writer" <=> wpc \in {"create", "fill", "load", "save"}
    /\ \A d \in Deleters : mu = d <=> dpc[d] \in {"load", "save"}

-----------------------------------------------------------------------------
\* What the comments and the documents say, and the code does not do.

\* lancedb.go:149, "keep embedding cache in sync": with no call in progress the
\* cache names no node that is gone.
CacheInSync ==
    wpc = "idle" /\ (\A d \in Deleters : dlist[d] = {}) =>
        \A n \in cache : file[n] # "none"
=============================================================================
