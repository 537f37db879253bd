------------------------------ MODULE Network ------------------------------
(***************************************************************************)
(* What the 1.2v server talks to: the browsers and the kernel's TCP        *)
(* sockets and epoll instance.  None of it is code of the repository       *)
(* except the handlers of the page (static/script.js); it is modelled from *)
(* the calls main.c and client_manager.c make.                             *)
(*                                                                         *)
(* A connection c sends the chunks Script[c][1], Script[c][2], ... in      *)
(* order, and if in Leaving may close its end at any time.  A chunk is     *)
(* identified by its connection and its place in the script,               *)
(* [conn |-> c, n |-> i]; its content is Script[c][i], a record whose      *)
(* field kind is                                                           *)
(*   "get"      a complete HTTP request for a static file                  *)
(*   "upgrade"  a complete HTTP request for a websocket                    *)
(*   "ghead", "gtail"  a file request in two pieces                        *)
(*   "uhead", "utail"  a websocket request in two pieces                   *)
(*   "pixel"    a text frame that sets pixel `key` to `val`                *)
(*   "frag"     a first fragment (FIN = 0) of such a message               *)
(*   "cont"     its last fragment (FIN = 1, opcode 0)                      *)
(*   "close"    a close frame                                              *)
(* Frames are sent only on a websocket, that is after the 101 response.    *)
(***************************************************************************)
EXTENDS Naturals, Sequences, SequencesExt

CONSTANTS Conns,      \* the connections clients may make, each at most once
          Fds,        \* descriptors the kernel can hand out to accept
          Listen,     \* the descriptor of the listening socket
          None,       \* "no connection"
          Keys,       \* indices of the pixels on the canvas
          Colors,     \* valid colors
          White,      \* the color a canvas starts with
          Worlds,     \* the surroundings the server may be started in:
                      \* records with the fields
                      \*   conns    the connections that are made
                      \*   script   what each connection sends
                      \*   leaving  connections whose browser may go away
                      \*   slow     connections that may leave their receive
                      \*            window full
          RecvUnits   \* chunks one recv of REQUEST_BUFFER_SIZE bytes returns

ASSUME NetworkAssumption == /\ Fds \subseteq Nat \ {0}
                            /\ Listen \notin Fds
                            /\ None \notin Conns
                            /\ White \in Colors
                            /\ \A w \in DOMAIN Worlds :
                                 /\ UNION {Worlds[w].conns, Worlds[w].leaving, Worlds[w].slow} \subseteq Conns
                                 /\ \A c \in Conns : Worlds[w].script[c] \in Seq(Range(Worlds[w].script[c]))
                            /\ RecvUnits \in Nat \ {0}

VARIABLES world,    \* the name of the world, which never changes
          peer,     \* peer[c]: "new", "up", or "fin" once c has closed its end
          sent,     \* sent[c]: how many chunks of its script c has sent
          wire,     \* wire[c]: what c's browser takes the bytes it gets for:
                    \* "http", "websocket", or "broken" once they make no sense
          screen,   \* screen[c]: the canvas as c's browser shows it
          behind,   \* behind[c]: pixels of which c was not sent the last update,
                    \* or which it painted itself since
          backlog,  \* connections the kernel has completed and not handed out
          sock,     \* sock[f]: the connection descriptor f refers to, or None
          rx,       \* rx[c]: chunks of c in the socket's receive buffer
          ready     \* the ready list of the (edge-triggered) epoll instance

netVars == <<world, peer, sent, wire, screen, behind, backlog, sock, rx, ready>>
browserVars == <<wire, screen, behind>>
kernelVars == <<world, peer, sent, backlog, sock, rx, ready>>

Script == Worlds[world].script
Leaving == Worlds[world].leaving
Slow == Worlds[world].slow

NetInit == /\ world \in DOMAIN Worlds
           /\ peer = [c \in Conns |-> "new"]
           /\ sent = [c \in Conns |-> 0]
           /\ wire = [c \in Conns |-> "http"]
           /\ screen = [c \in Conns |-> [k \in Keys |-> None]]
           /\ behind = [c \in Conns |-> Keys]
           /\ backlog = <<>>
           /\ sock = [f \in Fds |-> None]
           /\ rx = [c \in Conns |-> <<>>]
           /\ ready = <<>>

Content(chunk) == Script[chunk.conn][chunk.n]
Kind(chunk) == Content(chunk).kind

(* The connections whose browser has a working websocket. *)
opened == {c \in Conns : wire[c] = "websocket"}

FrameKinds == {"pixel", "frag", "cont", "close"}

(***************************************************************************)
(* epoll, edge-triggered: an arrival puts the descriptor on the ready list *)
(* once; epoll_wait hands out the entries that can be read and empties it. *)
(***************************************************************************)
(* The elements of s at the places P, in order. *)
Picked(s, P) ==
  LET first[n \in 0 .. Len(s)] ==    \* those among the first n elements
        IF n = 0 THEN <<>>
        ELSE IF n \in P THEN Append(first[n - 1], s[n]) ELSE first[n - 1]
  IN  first[Len(s)]

Notified(r, f) == IF Contains(r, f) THEN r ELSE Append(r, f)

Accepted == {c \in Conns : \E f \in Fds : sock[f] = c}
FdOf(c) == CHOOSE f \in Fds : sock[f] = c

NotifiedOf(c) == IF c \in Accepted THEN Notified(ready, FdOf(c)) ELSE ready

Readable(f) == IF f = Listen
               THEN backlog # <<>>
               ELSE sock[f] # None /\ (rx[sock[f]] # <<>> \/ peer[sock[f]] = "fin")

Connect(c) == /\ peer[c] = "new" /\ c \in Worlds[world].conns
              /\ peer' = [peer EXCEPT ![c] = "up"]
              /\ backlog' = Append(backlog, c)
              /\ ready' = Notified(ready, Listen)
              /\ UNCHANGED <<sent, wire, screen, behind, sock, rx>>

(* A connection the server has neither accepted nor left in the backlog is *)
(* gone, and what its browser sends is lost.                               *)
Alive(c) == peer[c] = "up" /\ (c \in Accepted \/ Contains(backlog, c))

(* A click on the page paints the pixel at once, and sends it: the page    *)
(* shows what it drew before (and whether or not) the server has it.  A    *)
(* click before the websocket is open, which only paints, is left out: the *)
(* init message goes over it.                                              *)
Click(c, chunk) ==
  IF /\ Kind(chunk) = "pixel"
     /\ Content(chunk).key \in Keys /\ Content(chunk).val \in Colors
  THEN /\ screen' = [screen EXCEPT ![c][Content(chunk).key] = Content(chunk).val]
       /\ behind' = [behind EXCEPT ![c] = @ \cup {Content(chunk).key}]
  ELSE UNCHANGED <<screen, behind>>

ClientSend(c) ==
  LET chunk == [conn |-> c, n |-> sent[c] + 1] IN
  /\ Alive(c)
  /\ sent[c] < Len(Script[c])
  /\ Kind(chunk) \in FrameKinds => c \in opened
  /\ sent' = [sent EXCEPT ![c] = @ + 1]
  /\ rx' = [rx EXCEPT ![c] = Append(@, chunk)]
  /\ ready' = NotifiedOf(c)
  /\ Click(c, chunk)
  /\ UNCHANGED <<peer, wire, backlog, sock>>

ClientClose(c) == /\ c \in Leaving
                  /\ peer[c] = "up"
                  /\ peer' = [peer EXCEPT ![c] = "fin"]
                  /\ ready' = NotifiedOf(c)
                  /\ UNCHANGED <<sent, wire, screen, behind, backlog, sock, rx>>

Browser(c) == Connect(c) \/ ClientSend(c) \/ ClientClose(c)

(***************************************************************************)
(* What send can return for a connection: everything was queued, an error  *)
(* (the peer is gone, or its window is full), or a short count.            *)
(***************************************************************************)
SendResults(c) == {"all"} \cup (IF peer[c] = "fin" THEN {"error"} ELSE {})
                          \cup (IF c \in Slow THEN {"error", "short"} ELSE {})

(* The 101 response was sent to c with this result. *)
Switched(c, result) ==
  wire' = [wire EXCEPT ![c] = CASE result = "error" -> @
                                [] result = "all" /\ @ = "http" -> "websocket"
                                [] OTHER -> "broken"]

(***************************************************************************)
(* ws.onmessage of static/script.js for a message that sets the pixels in  *)
(* the domain of m.  An init message sets them all.                        *)
(***************************************************************************)
Shown(s, m) == [k \in Keys |-> IF k \in DOMAIN m THEN m[k] ELSE s[k]]

(* Message m was meant for the connections in Meant, and sent with these   *)
(* results.  A frame that was cut short, or that reaches a browser that    *)
(* has no websocket, ends what the browser can make sense of.              *)
Deliver(m, Meant, result) ==
  LET Got == {c \in DOMAIN result \cap opened : result[c] = "all"} IN
  /\ screen' = [c \in Conns |-> IF c \in Got THEN Shown(screen[c], m) ELSE screen[c]]
  /\ behind' = [c \in Conns |-> IF c \in Got THEN behind[c] \ DOMAIN m
                               ELSE IF c \in Meant THEN behind[c] \cup DOMAIN m
                               ELSE behind[c]]
  /\ wire' = [c \in Conns |-> IF c \in DOMAIN result \ Got /\ result[c] # "error"
                             THEN "broken" ELSE wire[c]]
=============================================================================
