--------------------------- MODULE MCMemoryStore ---------------------------
(***************************************************************************)
(* Model values for MemoryStore, and the sets of hazards its runs share.   *)
(***************************************************************************)
EXTENDS MemoryStore

CONSTANTS n1, n2, sweep, api

ToleratedErrors == Tolerated

Everything ==
    Tolerated \cup {"write.wal", "write.load", "replay.load", "replay.save",
                    "migrate", "shutdown", "timeout", "status"}
=============================================================================
