------------------------------ MODULE NodeLife ------------------------------
(***************************************************************************)
(* What the memory store promises about each node, whatever process runs,  *)
(* crashes or restarts in between: an id is drawn once; its write either   *)
(* commits or is lost; a committed node stays until a deletion that was    *)
(* asked for; and a deleted or lost node never comes back.                 *)
(* MemoryStore.tla is the code.                                            *)
(***************************************************************************)
CONSTANTS
    Nodes,      \* node ids
    Legacy      \* the nodes a previous version left behind

VARIABLES
    life,       \* "unused", "open", "live" or "dead", for each id
    asked       \* the ids some deletion loop is working on: an input

vars == <<life, asked>>

Init ==
    /\ life = [n \in Nodes |-> IF n \in Legacy THEN "live" ELSE "unused"]
    /\ asked = {}

Become(n, from, to) ==
    /\ life[n] = from
    /\ life' = [life EXCEPT ![n] = to]

Draw(n) == Become(n, "unused", "open")
Commit(n) == Become(n, "open", "live")
Lose(n) == Become(n, "open", "dead")
Remove(n) == n \in asked /\ Become(n, "live", "dead")

Next ==
    /\ asked' \subseteq Nodes
    /\ \/ \E n \in Nodes : Draw(n) \/ Commit(n) \/ Lose(n) \/ Remove(n)
       \/ UNCHANGED life

Spec == Init /\ [][Next]_vars
=============================================================================
