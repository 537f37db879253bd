--------------------------- MODULE MCCountServer ---------------------------
(* Instances of CountServer: two or three connections and what they send.  *)
EXTENDS CountServer, TLC

CONSTANTS a, b, d, white, red

Do(kind) == [kind |-> kind]
Draw(kind, at) == [kind |-> kind, at |-> at, color |-> red]

(* A page draws, one pixel in one segment and one in two, and closes;      *)
(* another one joins; a third connection is not a page.                    *)
ScriptDraw == a :> <<Do("upgrade"), Draw("draw", 1), Do("head"), Draw("tail", 2), Do("close")>> @@
              b :> <<Do("upgrade"), Draw("draw", 0)>> @@
              d :> <<Do("other")>>

(* Pages that come and go, one of them drawing.                            *)
ScriptJoin == a :> <<Do("upgrade"), Draw("draw", 1)>> @@
              b :> <<Do("upgrade"), Do("close")>> @@
              d :> <<Do("upgrade")>>

(* Requests that are refused before one that is a page.                    *)
ScriptRefuse == a :> <<Do("other")>> @@
                b :> <<Do("upgrade")>> @@
                d :> <<Do("upgrade")>>

(* Two pages come, one may go.                                             *)
ScriptCome == a :> <<Do("upgrade")>> @@ b :> <<Do("upgrade")>> @@ d :> <<>>

(* A page draws the last cell before another one joins.                    *)
ScriptDrawLast == a :> <<Do("upgrade"), Draw("draw", 2)>> @@ b :> <<Do("upgrade")>> @@ d :> <<>>

(* A page goes on after its close frame, with a second one.                *)
ScriptClosing == a :> <<Do("upgrade"), Do("close"), Draw("draw", 1), Do("close")>> @@
                 b :> <<Do("upgrade")>> @@
                 d :> <<>>

(* A page sends a frame longer than the buffer, another one draws.         *)
ScriptBig == a :> <<Do("upgrade"), Draw("draw", 1), Do("big"), Do("big")>> @@
             b :> <<Do("upgrade"), Do("close"), Draw("draw", 1)>> @@
             d :> <<>>

World(conns, script, leaving, aborting, slow, saves, ctlFails, interrupts) ==
  [conns |-> conns, script |-> script, leaving |-> leaving, aborting |-> aborting,
   slow |-> slow, saves |-> saves, ctlFails |-> ctlFails, interrupts |-> interrupts]

CountWorlds ==
  [closing |-> World({a, b}, ScriptClosing, {}, {}, {}, FALSE, FALSE, FALSE),
   full    |-> World({a, b}, ScriptBig, {}, {}, {}, FALSE, FALSE, FALSE),
   drawing |-> World({a, b}, ScriptDraw, {a}, {}, {}, FALSE, FALSE, FALSE),
   refused |-> World({a, b, d}, ScriptRefuse, {b}, {}, {}, FALSE, FALSE, FALSE),
   faults  |-> World({a, b}, ScriptJoin, {b}, {b}, {b}, FALSE, TRUE, TRUE),
   saving  |-> World({a, b}, ScriptDrawLast, {}, {}, {}, TRUE, FALSE, FALSE),
   freeing |-> World({a, b}, ScriptCome, {a}, {}, {}, TRUE, FALSE, FALSE)]
=============================================================================
