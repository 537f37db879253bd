--------------------------- MODULE DurableCanvas ---------------------------
(***************************************************************************)
(* What saving the canvas to a file is for: the canvas on disk is always a *)
(* canvas the server once had, as a whole, and a server that is started    *)
(* again goes on from it.  A checkpoint is taken at one moment (Snapshot)  *)
(* and becomes the canvas on disk at a later one (Commit), or never.       *)
(***************************************************************************)
CONSTANTS Canvases,   \* all canvases
          Blank       \* the canvas of a server that finds nothing on disk

VARIABLES mem,     \* the canvas in memory
          snap,    \* the last checkpoint taken
          disk     \* the canvas a server that starts now begins with

durableVars == <<mem, snap, disk>>

Init == mem = Blank /\ snap = Blank /\ disk = Blank

Draw == mem' \in Canvases /\ UNCHANGED <<snap, disk>>

Snapshot == snap' = mem /\ UNCHANGED <<mem, disk>>

Commit == disk' = snap /\ UNCHANGED <<mem, snap>>

(* A checkpoint that never makes it to disk. *)
Abandon == snap' = disk /\ UNCHANGED <<mem, disk>>

(* The process dies and is started again. *)
Restart == mem' = disk /\ snap' = disk /\ UNCHANGED disk

Next == Draw \/ Snapshot \/ Commit \/ Abandon \/ Restart

Spec == Init /\ [][Next]_durableVars
=============================================================================
