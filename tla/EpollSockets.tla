---------------------------- MODULE EpollSockets ----------------------------
(***************************************************************************)
(* What the single-threaded epoll servers (eunhye_files/server.c,          *)
(* eunhye_files/epoll_usage/server.c, 3.epoll_clicnt/server.c) talk to:    *)
(* the kernel's descriptors, sockets and edge-triggered epoll instance,    *)
(* and the pages.  External, but for what the page of 3.epoll_clicnt does  *)
(* with a message.                                                         *)
(*                                                                         *)
(* A world says which connections are made and what may go wrong; Worlds   *)
(* is a record of worlds, records with at least the fields                 *)
(*   conns     the connections that are made                               *)
(*   script    what each connection sends                                  *)
(*   leaving   connections whose page may close its end                    *)
(*   aborting  connections that may be reset                               *)
(*   slow      connections that may leave their receive window full        *)
(*                                                                         *)
(* Connection c sends Script[c][1], Script[c][2], ...: records whose field *)
(* kind is                                                                 *)
(*   "upgrade"  a request for a websocket                                  *)
(*   "other"    anything else that is not one                              *)
(*   "draw"     a binary frame that sets cell `at` to `color`              *)
(*   "head", "tail"  such a frame in two segments                          *)
(*   "big"      as much of a frame as goes in the buffer of the server     *)
(*   "close"    a close frame                                              *)
(* The first thing sent is a request, the rest are frames.                 *)
(***************************************************************************)
EXTENDS Naturals, Sequences, SequencesExt

CONSTANTS Conns,      \* the connections clients may make, each at most once
          Fds,        \* descriptor numbers accept and fopen can return
          Listener,   \* the listening socket
          Closed,     \* a descriptor number not in use
          TmpFile,    \* the open canvas.tmp
          Worlds      \* the surroundings the server may be started in, by name

(* The rest of a frame comes right after its first segment.                *)
FramesWhole(s) == \A k \in DOMAIN s : s[k].kind = "tail" <=> k > 1 /\ s[k - 1].kind = "head"

ASSUME SocketsAssumption == /\ Fds \subseteq Nat \ {0}
                            /\ {Closed, TmpFile, Listener} \cap Conns = {} /\ TmpFile # Closed
                            /\ \A w \in DOMAIN Worlds :
                                 /\ UNION {Worlds[w].conns, Worlds[w].leaving, Worlds[w].aborting, Worlds[w].slow}
                                      \subseteq Conns
                                 /\ \A c \in Conns : Worlds[w].script[c] \in Seq(Range(Worlds[w].script[c]))
                                 /\ \A c \in Conns : FramesWhole(Worlds[w].script[c])

VARIABLES world,    \* the name of the world, which never changes
          peer,     \* "new", "up", "fin" (closed its end), "rst" (aborted),
                    \* "finrst" (closed its end, then refused what was sent)
          sent,     \* how much of its script each connection has sent
          backlog,  \* connections not accepted yet
          fds,      \* fds[f]: what descriptor f refers to
          rx,       \* what has arrived for each connection and was not read
          ready,    \* the ready list of the epoll instance
          wire      \* what the page takes the bytes it gets for: "http",
                    \* "open" (a websocket), "broken" (makes no sense any more)

netVars == <<world, peer, sent, backlog, fds, rx, ready, wire>>

Script == Worlds[world].script
Leaving == Worlds[world].leaving
Aborting == Worlds[world].aborting
Slow == Worlds[world].slow

(* Nothing goes wrong, and nobody goes away.                               *)
Quiet == Leaving \cup Aborting \cup Slow = {}

NetInit == /\ world \in DOMAIN Worlds
           /\ peer = [c \in Conns |-> "new"]
           /\ sent = [c \in Conns |-> 0]
           /\ backlog = <<>>
           /\ fds = [f \in Fds |-> Closed]
           /\ rx = [c \in Conns |-> <<>>]
           /\ ready = <<>>
           /\ wire = [c \in Conns |-> "http"]

NetTypeOK == /\ peer \in [Conns -> {"new", "up", "fin", "rst", "finrst"}]
             /\ \A c \in Conns : sent[c] \in 0 .. Len(Script[c])
             /\ ToSet(backlog) \subseteq Conns
             /\ fds \in [Fds -> Conns \cup {Closed, TmpFile}]
             /\ ToSet(ready) \subseteq Conns \cup {Listener}
             /\ wire \in [Conns -> {"http", "open", "broken"}]

(* The elements of s at the places P, in order.                            *)
Picked(s, P) ==
  LET first[n \in 0 .. Len(s)] ==    \* those among the first n elements
        IF n = 0 THEN <<>>
        ELSE IF n \in P THEN Append(first[n - 1], s[n]) ELSE first[n - 1]
  IN  first[Len(s)]

(***************************************************************************)
(* epoll: an arrival puts the socket on the ready list, once; closing the  *)
(* only descriptor of a socket removes it from the epoll instance.         *)
(***************************************************************************)
Notified(s) == IF Contains(ready, s) THEN ready ELSE Append(ready, s)
Registered(c) == \E f \in Fds : fds[f] = c
NotifiedOf(c) == IF Registered(c) THEN Notified(c) ELSE ready

CanRead(c) == rx[c] # <<>> \/ peer[c] \in {"fin", "rst", "finrst"}
Hup(c) == peer[c] \in {"rst", "finrst"}

(* What epoll_wait reports of an entry: the number registered with it.     *)
Event(s) == [fd |-> IF s = Listener THEN 0 ELSE CHOOSE f \in Fds : fds[f] = s,
             in |-> s = Listener \/ CanRead(s), hup |-> s # Listener /\ Hup(s)]
Reportable(s) == IF s = Listener THEN backlog # <<>> ELSE CanRead(s)
Reported == Picked(ready, {k \in DOMAIN ready : Reportable(ready[k])})

(* epoll_wait empties the ready list, but the listening socket, which is   *)
(* level-triggered, goes to its end again when it was reported.            *)
Relisted == IF Contains(Reported, Listener) THEN <<Listener>> ELSE <<>>

(***************************************************************************)
(* Descriptors.                                                            *)
(***************************************************************************)
Available == {f \in Fds : fds[f] = Closed}
Lowest == CHOOSE f \in Available : \A g \in Available : f <= g

Without(s) == Picked(ready, {k \in DOMAIN ready : ready[k] # s})

(* close(f): closing a number that is not in use changes nothing.          *)
CloseFd(f) == /\ fds' = [fds EXCEPT ![f] = Closed]
              /\ ready' = IF fds[f] \in Conns THEN Without(fds[f]) ELSE ready

(***************************************************************************)
(* What recv and a send or writev on descriptor f may answer.  After a FIN *)
(* the stream ends with 0, even if a reset followed; writing to a socket   *)
(* that was reset fails, and after a FIN raises SIGPIPE, whose default     *)
(* action ends the process ("killed").  writev can also reach canvas.tmp   *)
(* ("file"); what that does to the file is left out.                       *)
(***************************************************************************)
RecvResult(f) ==
  IF fds[f] \notin Conns THEN "error"
  ELSE CASE rx[fds[f]] # <<>> -> "data"
         [] rx[fds[f]] = <<>> /\ peer[fds[f]] = "up" -> "again"
         [] rx[fds[f]] = <<>> /\ peer[fds[f]] = "rst" -> "error"
         [] rx[fds[f]] = <<>> /\ peer[fds[f]] \in {"fin", "finrst"} -> "end"

SendResults(f) ==
  IF f \notin Fds \/ fds[f] = Closed THEN {"error"}
  ELSE IF fds[f] = TmpFile THEN {"file"}
  ELSE CASE peer[fds[f]] = "rst" -> {"error"}
         [] peer[fds[f]] = "finrst" -> {"killed"}
         [] peer[fds[f]] = "fin" -> {"all"}
         [] peer[fds[f]] = "up" -> {"all"} \cup (IF fds[f] \in Slow THEN {"short", "error"}
                                                                  ELSE {})

(***************************************************************************)
(* The buffer of a client, where recv appends all that has arrived and     *)
(* that it has room for, and the frames in it.                             *)
(***************************************************************************)
Fills(s) == {k \in DOMAIN s : s[k].kind = "big"}
RoomFor(s) == IF Fills(s) = {} THEN Len(s) ELSE CHOOSE k \in Fills(s) : \A j \in Fills(s) : k <= j

Segments(buf) == IF Head(buf).kind = "head" THEN 2 ELSE 1   \* of the first frame
WholeFrame(buf) == buf # <<>> /\ Segments(buf) <= Len(buf) /\ Head(buf).kind # "big"
FirstFrame(buf) == buf[Segments(buf)]

(* What memmove leaves of the buffer; mutant: nothing.                     *)
Leftover_none(buf) == <<>>
Leftover(buf) == SubSeq(buf, Segments(buf) + 1, Len(buf))

(***************************************************************************)
(* The clients.                                                            *)
(***************************************************************************)
Connect(c) == /\ peer[c] = "new" /\ c \in Worlds[world].conns
              /\ peer' = [peer EXCEPT ![c] = "up"]
              /\ backlog' = Append(backlog, c)
              /\ ready' = Notified(Listener)
              /\ UNCHANGED <<sent, fds, rx, wire>>

Alive(c) == peer[c] = "up" /\ (Registered(c) \/ Contains(backlog, c))

FrameKinds == {"draw", "head", "tail", "big", "close"}

(* Frames are sent only on a websocket.                                    *)
ClientSend(c) ==
  LET chunk == Script[c][sent[c] + 1] IN
  /\ Alive(c)
  /\ sent[c] < Len(Script[c])
  /\ chunk.kind \in FrameKinds => wire[c] = "open"
  /\ sent' = [sent EXCEPT ![c] = @ + 1]
  /\ rx' = [rx EXCEPT ![c] = Append(@, chunk)]
  /\ ready' = NotifiedOf(c)
  /\ UNCHANGED <<peer, backlog, fds, wire>>

(* The page goes away.  One that was sent something it did not read, or is *)
(* sent something after it went, answers with a reset.                     *)
Ended(c, how) == /\ Registered(c) \/ Contains(backlog, c)
                 /\ peer' = [peer EXCEPT ![c] = how]
                 /\ ready' = NotifiedOf(c)
                 /\ UNCHANGED <<sent, backlog, fds, rx, wire>>

ClientLeave(c) ==
  \/ c \in Leaving /\ peer[c] = "up" /\ Ended(c, "fin")
  \/ c \in Aborting /\ peer[c] = "up" /\ Ended(c, "rst")
  \/ c \in Aborting /\ peer[c] = "fin" /\ wire[c] # "http" /\ Ended(c, "finrst")

Client(c) == Connect(c) \/ ClientSend(c) \/ ClientLeave(c)
=============================================================================
