--------------------------- MODULE MCUsageServer ---------------------------
(* Instances of UsageServer: two or three connections and what they send.  *)
EXTENDS UsageServer, TLC

CONSTANTS a, b, d, white, red, blue

Do(kind) == [kind |-> kind]
Draw(kind, at, color) == [kind |-> kind, at |-> at, color |-> color]

(* Two pages draw, one of them in two segments.                            *)
ScriptTwo == a :> <<Do("upgrade"), Draw("draw", 3, red), Do("head"), Draw("tail", 1, red)>> @@
             b :> <<Do("upgrade"), Draw("draw", 2, blue)>> @@
             d :> <<>>

(* Two pages draw while a third comes.                                     *)
ScriptSync == a :> <<Do("upgrade"), Draw("draw", 3, red)>> @@
              b :> <<Do("upgrade"), Draw("draw", 2, blue)>> @@
              d :> <<Do("upgrade")>>

(* A page goes in the middle of a frame, another one takes its slot.       *)
ScriptReuse == a :> <<Do("upgrade"), Do("head")>> @@
               b :> <<Do("upgrade"), Draw("draw", 1, blue), Do("close")>> @@
               d :> <<Do("other")>>

(* A page draws while another one is there.                                *)
ScriptDraw == a :> <<Do("upgrade"), Draw("draw", 1, red)>> @@
              b :> <<Do("upgrade")>> @@
              d :> <<>>

World(conns, script, leaving, aborting, slow, saves, kills, ctlFails) ==
  [conns |-> conns, script |-> script, leaving |-> leaving, aborting |-> aborting,
   slow |-> slow, saves |-> saves, kills |-> kills, ctlFails |-> ctlFails]

UsageWorlds ==
  [reuse  |-> World({a, b, d}, ScriptReuse, {a}, {}, {}, FALSE, FALSE, FALSE),
   fails  |-> World({a, b}, ScriptReuse, {a}, {b}, {}, FALSE, FALSE, TRUE),
   sync   |-> World({a, b, d}, ScriptSync, {d}, {}, {d}, FALSE, FALSE, FALSE),
   quiet  |-> World({a, b}, ScriptTwo, {}, {}, {}, FALSE, FALSE, FALSE),
   saving |-> World({a, b}, ScriptDraw, {a}, {}, {}, TRUE, TRUE, FALSE)]

(* A frame longer than the buffer of a client, and the rest of it.         *)
ScriptBig == a :> <<Do("upgrade"), Do("big"), Do("big")>> @@ b :> <<>> @@ d :> <<>>

(* A page whose connection is reset while the canvas is saved; a stale     *)
(* event; a full buffer.                                                   *)
ClaimWorlds ==
  [saving |-> World({a, b}, ScriptDraw, {}, {a}, {}, TRUE, TRUE, FALSE),
   reuse  |-> World({a, b, d}, ScriptReuse, {a}, {b}, {}, FALSE, FALSE, TRUE),
   full   |-> World({a}, ScriptBig, {}, {}, {}, FALSE, FALSE, FALSE)]
=============================================================================
