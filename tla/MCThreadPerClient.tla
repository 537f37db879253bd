------------------------- MODULE MCThreadPerClient -------------------------
(* Instances of ThreadPerClient: two or three pages.                       *)
EXTENDS ThreadPerClient, TLC

CONSTANTS a, b, d, white, red, blue, green

Do(kind) == [kind |-> kind]
Draw(at, color) == [kind |-> "draw", at |-> at, color |-> color]

(* Two pages draw the same cell.                                           *)
ScriptSame == a :> <<Do("upgrade"), Draw(1, red), Draw(1, white)>> @@
              b :> <<Do("upgrade"), Draw(1, blue), Draw(1, green)>> @@
              d :> <<Do("upgrade")>>

(* Pages that draw and go.                                                 *)
ScriptGo == a :> <<Do("upgrade"), Draw(1, red), Do("close")>> @@
            b :> <<Do("upgrade"), Do("ignored"), Draw(2, blue)>> @@
            d :> <<Do("other")>>

World(conns, script, leaving, aborting, slow, createFails) ==
  [conns |-> conns, script |-> script, leaving |-> leaving, aborting |-> aborting,
   slow |-> slow, createFails |-> createFails]

ThreadWorlds ==
  [drawing |-> World({a, b}, ScriptSame, {}, {}, {}, FALSE),
   going   |-> World({a, b, d}, ScriptGo, {b, d}, {}, {}, TRUE),
   resets  |-> World({a, b}, ScriptGo, {}, {a, b}, {b}, FALSE)]
=============================================================================
