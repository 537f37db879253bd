------------------------- MODULE MCSharedListServer -------------------------
(***************************************************************************)
(* Instances of SharedListServer for TLC: up to three clients, two         *)
(* descriptors (so that numbers come back), a canvas of two pixels.        *)
(***************************************************************************)
EXTENDS SharedListServer, TLC

CONSTANTS a, b, d, white, red, blue, n1, n2, n3,
          odd   \* not a color

Pixel(at, color) == [kind |-> "pixel", at |-> at, color |-> color]
Begin == [kind |-> "begin"]
End(at, color) == [kind |-> "end", at |-> at, color |-> color]

Silent == [c \in Conns |-> <<>>]

ScriptDraw == [Silent EXCEPT ![a] = <<Pixel(1, red), Pixel(1, blue), Begin, End(2, red)>>,
                             ![b] = <<Pixel(3, red)>>]

ScriptInvalid == [Silent EXCEPT ![a] = <<[kind |-> "object"], Pixel(1, odd), Pixel(1, red)>>]

ScriptOne == [Silent EXCEPT ![a] = <<Pixel(1, red)>>]

ScriptLong == [Silent EXCEPT ![a] = <<Pixel(1, red), Pixel(2, red), Pixel(1, blue)>>]

World(conns, script, leaving, aborting, slow, ctlFails) ==
  [conns |-> conns, script |-> script, leaving |-> leaving, aborting |-> aborting,
   slow |-> slow, ctlFails |-> ctlFails]

ListWorlds ==
  [drawing |-> World({a, b}, ScriptDraw, {}, {}, {b}, TRUE),
   invalid |-> World({a}, ScriptInvalid, {}, {}, {}, FALSE),
   leaving |-> World({a, b, d}, Silent, {a, b}, {}, {}, FALSE),
   reset   |-> World({a, b}, ScriptOne, {a}, {b}, {}, FALSE),
   quiet   |-> World({a, b}, ScriptLong, {}, {}, {}, FALSE)]

(* With enough clients for freed memory to be used twice.                  *)
ClaimWorlds == ListWorlds @@ [crowd |-> World(Conns, Silent, {a, b, d}, {}, {}, FALSE)]
=============================================================================
