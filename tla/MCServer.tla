------------------------------ MODULE MCServer ------------------------------
(* Instances of Server: two or three connections and what they send. *)
EXTENDS Server, TLC

CONSTANTS a, b, d, k1, k2, white, red, blue, mauve

Do(kind) == [kind |-> kind]
Pixel(k, v) == [kind |-> "pixel", key |-> k, val |-> v]

(* A page is reloaded (its websocket is closed, then a new connection is   *)
(* made), while another connection only fetches a file.                    *)
ScriptReload == a :> <<Do("upgrade"), Do("close")>> @@
                b :> <<Do("upgrade")>> @@
                d :> <<Do("get")>>

(* Requests and messages in pieces; mauve is not a valid color. *)
ScriptPieces == a :> <<Do("uhead"), Do("utail"), Pixel(k1, mauve),
                       Do("frag"), Do("frag"), Pixel(k1, red), Do("close")>> @@
                b :> <<Do("get")>> @@
                d :> <<>>

(* A file request in two pieces, and its connection may go away between. *)
ScriptSplit == a :> <<Do("ghead"), Do("gtail")>> @@
               b :> <<Do("get")>> @@
               d :> <<>>

(* A message in two fragments. *)
ScriptFragments == a :> <<Do("upgrade"), Do("frag"), Do("cont")>> @@
                   b :> <<>> @@
                   d :> <<>>

(* One user draws a pixel twice while another one joins and draws it too. *)
ScriptJoin == a :> <<Do("upgrade"), Pixel(k1, red), Pixel(k1, blue)>> @@
              b :> <<Do("upgrade"), Pixel(k1, white)>> @@
              d :> <<>>

(* A websocket, and a connection that is no websocket yet. *)
ScriptMixed == a :> <<Do("upgrade"), Pixel(k1, red)>> @@
               b :> <<Do("upgrade")>> @@
               d :> <<Do("get")>>

World(conns, script, leaving, slow) ==
  [conns |-> conns, script |-> script, leaving |-> leaving, slow |-> slow]

SafetyWorlds == [reload |-> World({a, b, d}, ScriptReload, {a}, {}),
                 pieces |-> World({a, b}, ScriptPieces, {}, {}),
                 split |-> World({a, b}, ScriptSplit, {a}, {}),
                 join |-> World({a, b}, ScriptJoin, {}, {b})]
MixedWorlds == [mixed |-> World({a, b}, ScriptMixed, {a}, {})]
ClaimWorlds == [reload |-> World({a, b}, ScriptReload, {a}, {}),
                fragments |-> World({a}, ScriptFragments, {}, {}),
                mixed |-> World({a, b}, ScriptMixed, {a}, {})]
StayingWorlds == [mixed |-> World({a, b}, ScriptMixed, {}, {})]
=============================================================================
