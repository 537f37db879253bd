------------------------- MODULE MCThreadPoolServer -------------------------
(* Instances of ThreadPoolServer: two workers, two or three clients.       *)
EXTENDS ThreadPoolServer, TLC

CONSTANTS a, b, d, w1, w2, white, red, blue,
          odd   \* not a color

Pixel(at, color) == [kind |-> "pixel", at |-> at, color |-> color]
Begin == [kind |-> "begin"]
End(at, color) == [kind |-> "end", at |-> at, color |-> color]

ScriptTwo == a :> <<Pixel(1, red), Pixel(1, blue)>> @@ b :> <<Pixel(2, red)>> @@ d :> <<>>

ScriptSplit == a :> <<Begin, End(1, red), Pixel(2, blue)>> @@ b :> <<>> @@ d :> <<>>

ScriptOne == a :> <<Pixel(1, odd)>> @@ b :> <<Pixel(3, red)>> @@ d :> <<>>

ScriptEnd == a :> <<[kind |-> "object"]>> @@ b :> <<>> @@ d :> <<>>

World(conns, script, leaving, aborting, slow, ctlFails) ==
  [conns |-> conns, script |-> script, leaving |-> leaving, aborting |-> aborting,
   slow |-> slow, ctlFails |-> ctlFails]

PoolWorlds ==
  [drawing |-> World({a, b}, ScriptTwo, {}, {}, {}, FALSE),
   pieces  |-> World({a}, ScriptSplit, {}, {}, {}, FALSE),
   leaving |-> World({a, b, d}, ScriptEnd, {a}, {}, {}, FALSE),
   failing |-> World({a, b}, ScriptOne, {}, {a}, {b}, TRUE)]
=============================================================================
