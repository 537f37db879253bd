---------------------------- MODULE MCPollServer ----------------------------
(* Instances of PollServer: clicks, pages and requests in two pieces. *)
EXTENDS PollServer, TLC

CONSTANTS a, b, c, p, q, r

Do(kind) == [kind |-> kind]
Post(pixel) == [kind |-> "post", pixel |-> pixel]

World(conns, script, leaving, aborting, kills, ctlFails) ==
  [conns |-> conns, script |-> script, leaving |-> leaving, aborting |-> aborting,
   slow |-> {}, kills |-> kills, ctlFails |-> ctlFails]

Cut(kind, pixel) == <<Do(kind), [kind |-> "body", pixel |-> pixel]>>

(* Three clicks, and the server may be killed. *)
Clicks == a :> <<Post(p)>> @@ b :> <<Post(q)>> @@ c :> <<Post(r)>>

(* Clicks in two pieces, and a whole one. *)
Pieces == a :> Cut("posthead", p) @@ b :> Cut("postpart", q) @@ c :> <<Post(r)>>

(* A click cut in its header, another one, and a page that goes away. *)
Headers == a :> Cut("postline", p) @@ b :> <<Post(q)>> @@ c :> <<Do("pixels")>>

(* A page is loaded, something else is asked for, and a click is made. *)
Gets == a :> <<Do("page")>> @@ b :> <<Do("other")>> @@ c :> <<Post(r)>>

PollWorlds == [clicks  |-> World({a, b, c}, Clicks, {}, {a}, TRUE, FALSE),
               pieces  |-> World({a, b, c}, Pieces, {}, {}, FALSE, FALSE),
               headers |-> World({a, b, c}, Headers, {c}, {c}, FALSE, TRUE),
               gets    |-> World({a, b, c}, Gets, {a, b}, {a}, FALSE, FALSE)]
=============================================================================
