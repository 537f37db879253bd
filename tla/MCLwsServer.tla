---------------------------- MODULE MCLwsServer ----------------------------
(* Three pages: two draw on the same cell, one of them off the canvas too, *)
(* and one only looks and may leave.                                       *)
EXTENDS LwsServer, TLC

CONSTANTS a, b, d, white, red, blue

Draw(at, color) == [len |-> 3, at |-> at, color |-> color]

ScriptPages == a :> <<Draw(1, red)>>
            @@ b :> <<Draw(3, red), Draw(1, blue)>>
            @@ d :> <<>>
=============================================================================
