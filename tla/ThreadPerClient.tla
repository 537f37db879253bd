-------------------------- MODULE ThreadPerClient --------------------------
(***************************************************************************)
(* 2.multithreading/server.c: main accepts connections, and each gets a    *)
(* thread of its own, which runs handle_client on a slot of the table      *)
(* clients with blocking calls.  The threads share the table, under        *)
(* clients_mutex when they broadcast, and the canvas, under canvas_mutex   *)
(* (held for one step at a time, and therefore left out).                  *)
(*                                                                         *)
(* The thread of connection c is called c, too.  It keeps a pointer to its *)
(* slot and reads socket_fd from it at each use.                           *)
(***************************************************************************)
EXTENDS Naturals, Sequences, FiniteSets, SequencesExt

CONSTANTS Conns, Fds, Closed,
          MaxClients,    \* MAX_CLIENTS
          Cells, Colors, Blank,
          Worlds         \* the surroundings the server may be started in:
                         \* records with the fields
                         \*   conns     the pages that connect
                         \*   script    what each sends: records with a kind,
                         \*             "upgrade", "other", "draw", "close" or
                         \*             "ignored"
                         \*   leaving, aborting, slow   pages that may end their
                         \*             connection, that may be reset, that do
                         \*             not read what they get
                         \*   createFails   pthread_create may fail

NoThread == 0

ASSUME ThreadPerClientAssumption ==
  /\ Fds \subseteq Nat \ {0} /\ {Closed, NoThread} \cap Conns = {}
  /\ MaxClients \in Nat \ {0} /\ Cells \in Nat \ {0} /\ Blank \in Colors
  /\ \A w \in DOMAIN Worlds :
       /\ Worlds[w].conns \subseteq Conns
       /\ \A c \in Conns : Worlds[w].script[c] \in Seq(Range(Worlds[w].script[c]))

VARIABLES world, peer, sent, backlog, fds, rx,   \* as in EpollSockets
          wire,     \* what the page takes the next bytes for: "http", "open",
                    \* "header" (a payload is to follow), "broken"
          screen,   \* what the page shows
          seen,     \* the pixels the page was sent
          slots,    \* clients
          new,      \* new_socket of main, accepted and not placed yet, and
                    \* the connection it was accepted for; or <<>>
          mutex,    \* the holder of clients_mutex, "main" excepted
          thread,   \* for each connection its thread
          canvas,
          crashed

pageVars == <<peer, sent, wire, screen, seen>>
vars == <<world, peer, sent, backlog, fds, rx, wire, screen, seen, slots, new, mutex, thread, canvas,
          crashed>>

Script == Worlds[world].script
Leaving == Worlds[world].leaving
Aborting == Worlds[world].aborting
Slow == Worlds[world].slow
CreateFails == Worlds[world].createFails

(* Nobody goes away and nothing fails.                                     *)
Quiet == Leaving \cup Aborting \cup Slow = {} /\ ~CreateFails

Slots == 1 .. MaxClients
Filled(color) == [i \in 1 .. Cells |-> color]
NoSlot == [fd |-> 0, active |-> FALSE]
Unborn == [pc |-> "unborn", cli |-> 1, on |-> Closed, copy |-> Blank, msg |-> <<>>,
           at |-> 1, init |-> "null"]

(* Bound and listening, and nobody has connected: main returns otherwise.  *)
setup_server == /\ backlog = <<>> /\ fds = [f \in Fds |-> Closed]
                /\ rx = [c \in Conns |-> <<>>]

Init == /\ world \in DOMAIN Worlds
        /\ peer = [c \in Conns |-> "new"] /\ sent = [c \in Conns |-> 0]
        /\ setup_server
        /\ wire = [c \in Conns |-> "http"] /\ screen = [c \in Conns |-> Filled(Blank)]
        /\ seen = [c \in Conns |-> <<>>]
        /\ slots = [i \in Slots |-> NoSlot]
        /\ new = <<>> /\ mutex = NoThread
        /\ thread = [c \in Conns |-> Unborn]
        /\ canvas = Filled(Blank)
        /\ crashed = FALSE

Least(S) == CHOOSE i \in S : \A j \in S : i <= j
Available == {f \in Fds : fds[f] = Closed}
Close(f) == fds' = [fds EXCEPT ![f] = Closed]

(* The connection that socket_fd of a thread's slot refers to now.         *)
Socket(t) == fds[slots[thread[t].cli].fd]

Goto(t, place) == thread' = [thread EXCEPT ![t].pc = place]
At(t, place) == ~crashed /\ thread[t].pc = place

(***************************************************************************)
(* main.                                                                   *)
(***************************************************************************)
AcceptClient == /\ ~crashed
                /\ new = <<>> /\ backlog # <<>> /\ Available # {}
                /\ new' = <<Least(Available), Head(backlog)>>
                /\ fds' = [fds EXCEPT ![new'[1]] = new'[2]]
                /\ backlog' = Tail(backlog)
                /\ UNCHANGED <<pageVars, rx, slots, mutex, thread, canvas, crashed>>

Inactive == {i \in Slots : ~slots[i].active}

(* Mutant: active is set although there is no thread.                      *)
Unplaced_active(i) == slots' = [slots EXCEPT ![i] = [fd |-> new[1], active |-> TRUE]]
Unplaced(i) == slots' = [slots EXCEPT ![i] = [fd |-> new[1], active |-> FALSE]]

(* The table is locked from the search to the pthread_create.              *)
PlaceClient ==
  LET i == Least(Inactive) IN
  /\ ~crashed
  /\ new # <<>> /\ mutex = NoThread
  /\ new' = <<>>
  /\ \/ /\ Inactive # {}
        /\ slots' = [slots EXCEPT ![i] = [fd |-> new[1], active |-> TRUE]]
        /\ thread' = [thread EXCEPT ![new[2]] = [Unborn EXCEPT !.pc = "handshake", !.cli = i]]
        /\ UNCHANGED fds
     \/ /\ Inactive # {} /\ CreateFails
        /\ Unplaced(i)
        /\ Close(new[1]) /\ UNCHANGED thread
     \/ /\ Inactive = {}
        /\ Close(new[1]) /\ UNCHANGED <<slots, thread>>
  /\ UNCHANGED <<pageVars, backlog, rx, mutex, canvas, crashed>>

(***************************************************************************)
(* Blocking calls on a socket.  recv is called on the socket the slot has  *)
(* at that moment and returns when there is something to return.  A send   *)
(* to a page that was reset fails, to one that refused what it was sent    *)
(* after it closed it raises SIGPIPE, and to one that does not read it     *)
(* does not return.                                                        *)
(***************************************************************************)
CallRecv(t, from, to) == /\ At(t, from)
                         /\ thread' = [thread EXCEPT ![t].pc = to, ![t].on = Socket(t)]
                         /\ UNCHANGED <<pageVars, backlog, fds, rx, slots, new, mutex, canvas,
                                        crashed>>

RecvFails(s) == s \in Conns => (rx[s] = <<>> /\ peer[s] # "up")
RecvReturns(s) == s \in Conns /\ rx[s] # <<>>

SendFails(s) == s \in Conns => peer[s] = "rst"
SendKills(s) == s \in Conns /\ peer[s] = "finrst"
SendReturns(s) == s \in Conns /\ peer[s] \in {"up", "fin"} /\ s \notin Slow

Killed == /\ crashed' = TRUE
          /\ UNCHANGED <<pageVars, backlog, fds, rx, slots, new, mutex, thread, canvas>>

(* What the page makes of bytes of this kind.                              *)
Parsed(state, bytes) ==
  CASE state = "http" /\ bytes = "response" -> "open"
    [] state = "open" /\ bytes = "frame" -> "open"
    [] state = "open" /\ bytes = "header" -> "header"
    [] state = "header" /\ bytes = "payload" -> "open"
    [] OTHER -> "broken"

Hears(s, bytes) == wire' = [wire EXCEPT ![s] = Parsed(wire[s], bytes)]

(***************************************************************************)
(* handle_client.                                                          *)
(***************************************************************************)
HandshakeRecv(t) ==
  LET s == thread[t].on IN
  /\ At(t, "handshake recv")
  /\ \/ /\ RecvReturns(s) => Head(rx[s]).kind # "upgrade"
        /\ RecvFails(s) \/ RecvReturns(s)
        /\ rx' = IF RecvReturns(s) THEN [rx EXCEPT ![s] = Tail(@)] ELSE rx
        /\ Goto(t, "cleanup")
     \/ /\ RecvReturns(s) /\ Head(rx[s]).kind = "upgrade"
        /\ rx' = [rx EXCEPT ![s] = Tail(@)]
        /\ Goto(t, "respond")
  /\ UNCHANGED <<pageVars, backlog, fds, slots, new, mutex, canvas, crashed>>

Respond(t) ==
  LET s == Socket(t) IN
  /\ At(t, "respond")
  /\ \/ SendKills(s) /\ Killed
     \/ /\ SendFails(s)
        /\ Goto(t, "cleanup")
        /\ UNCHANGED <<wire, crashed>>
        /\ UNCHANGED <<peer, sent, screen, seen, backlog, fds, rx, slots, new, mutex, canvas>>
     \/ /\ SendReturns(s)
        /\ Hears(s, "response")
        /\ Goto(t, "copy")
        /\ UNCHANGED <<peer, sent, screen, seen, backlog, fds, rx, slots, new, mutex, canvas,
                       crashed>>

(* init_msg is allocated and gets the canvas, under canvas_mutex.          *)
CopyCanvas(t) == /\ At(t, "copy")
                 /\ thread' = [thread EXCEPT ![t].pc = "initial", ![t].copy = canvas,
                                             ![t].init = "allocated"]
                 /\ UNCHANGED <<pageVars, backlog, fds, rx, slots, new, mutex, canvas, crashed>>

(* The initial canvas is sent and init_msg freed.                          *)
SendInitial(t) ==
  LET s == Socket(t) IN
  /\ At(t, "initial")
  /\ \/ SendKills(s) /\ Killed
     \/ /\ SendFails(s)
        /\ Goto(t, "cleanup")
        /\ UNCHANGED <<pageVars, backlog, fds, rx, slots, new, mutex, canvas, crashed>>
     \/ /\ SendReturns(s)
        /\ Hears(s, "frame")
        /\ screen' = IF wire[s] = "open" THEN [screen EXCEPT ![s] = thread[t].copy] ELSE screen
        /\ thread' = [thread EXCEPT ![t].pc = "read", ![t].copy = Blank, ![t].init = "freed"]
        /\ UNCHANGED <<peer, sent, seen, backlog, fds, rx, slots, new, mutex, canvas, crashed>>

(***************************************************************************)
(* websocket_read and what handle_client does with the frame: the opcode   *)
(* is not looked at, so a close frame without a payload ends the loop      *)
(* ("close"), others are skipped ("ignored").                              *)
(***************************************************************************)
InRange_inclusive(frame) == frame.at \in 1 .. Cells + 1   \* mutant
InRange(frame) == frame.at \in 1 .. Cells

PixelOf(frame) == <<frame.at, frame.color>>

ReadFrame(t) ==
  LET s == thread[t].on
      frame == Head(rx[s])
  IN
  /\ At(t, "read recv")
  /\ \/ /\ RecvFails(s)
        /\ Goto(t, "cleanup")
        /\ UNCHANGED <<rx, canvas>>
     \/ /\ RecvReturns(s)
        /\ rx' = [rx EXCEPT ![s] = Tail(@)]
        /\ \/ /\ frame.kind = "draw" /\ InRange(frame)
              /\ canvas' = [canvas EXCEPT ![frame.at] = frame.color]
              /\ thread' = [thread EXCEPT ![t].pc = "lock", ![t].msg = PixelOf(frame)]
           \/ /\ frame.kind = "draw" /\ ~InRange(frame)
              /\ Goto(t, "read") /\ UNCHANGED canvas
           \/ frame.kind = "ignored" /\ Goto(t, "read") /\ UNCHANGED canvas
           \/ frame.kind \in {"close", "upgrade", "other"} /\ Goto(t, "cleanup") /\ UNCHANGED canvas
  /\ UNCHANGED <<pageVars, backlog, fds, slots, new, mutex, crashed>>

(***************************************************************************)
(* broadcast_to_clients.                                                   *)
(***************************************************************************)
(* Mutant: the mutex is not taken.                                         *)
LockClients_free(t) == /\ At(t, "lock")
                       /\ thread' = [thread EXCEPT ![t].pc = "header", ![t].at = 1]
                       /\ UNCHANGED <<pageVars, backlog, fds, rx, slots, new, mutex, canvas,
                                      crashed>>

LockClients(t) == /\ At(t, "lock")
                  /\ mutex = NoThread
                  /\ mutex' = t
                  /\ thread' = [thread EXCEPT ![t].pc = "header", ![t].at = 1]
                  /\ UNCHANGED <<pageVars, backlog, fds, rx, slots, new, canvas, crashed>>

Remaining(t) == {i \in Slots : slots[i].active /\ i >= thread[t].at}
Target(t) == Least(Remaining(t))

(* A failed send deactivates the slot and closes its socket.               *)
SendFailed(t, i) == /\ slots' = [slots EXCEPT ![i].active = FALSE]
                    /\ Close(slots[i].fd)
                    /\ thread' = [thread EXCEPT ![t].pc = "header", ![t].at = i + 1]
                    /\ UNCHANGED <<pageVars, backlog, rx, new, mutex, canvas, crashed>>

SendHeader(t) ==
  LET i == Target(t)
      s == fds[slots[i].fd]
  IN
  /\ At(t, "header") /\ Remaining(t) # {}
  /\ \/ SendKills(s) /\ Killed
     \/ SendFails(s) /\ SendFailed(t, i)
     \/ /\ SendReturns(s)
        /\ Hears(s, "header")
        /\ thread' = [thread EXCEPT ![t].pc = "payload", ![t].at = i]
        /\ UNCHANGED <<peer, sent, screen, seen, backlog, fds, rx, slots, new, mutex, canvas,
                       crashed>>

SendPayload(t) ==
  LET i == thread[t].at
      s == fds[slots[i].fd]
      msg == thread[t].msg
  IN
  /\ At(t, "payload")
  /\ \/ SendKills(s) /\ Killed
     \/ SendFails(s) /\ SendFailed(t, i)
     \/ /\ SendReturns(s)
        /\ Hears(s, "payload")
        /\ IF wire[s] = "header"
           THEN /\ screen' = [screen EXCEPT ![s][msg[1]] = msg[2]]
                /\ seen' = [seen EXCEPT ![s] = Append(@, msg)]
           ELSE UNCHANGED <<screen, seen>>
        /\ thread' = [thread EXCEPT ![t].pc = "header", ![t].at = i + 1]
        /\ UNCHANGED <<peer, sent, backlog, fds, rx, slots, new, mutex, canvas, crashed>>

(* Mutant: a return in the loop leaves the mutex locked.                   *)
UnlockClients_held(t) == /\ At(t, "header") /\ Remaining(t) = {}
                         /\ Goto(t, "read")
                         /\ UNCHANGED <<pageVars, backlog, fds, rx, slots, new, mutex, canvas,
                                        crashed>>

UnlockClients(t) == /\ At(t, "header") /\ Remaining(t) = {}
                    /\ mutex' = NoThread
                    /\ thread' = [thread EXCEPT ![t].pc = "read", ![t].msg = <<>>]
                    /\ UNCHANGED <<pageVars, backlog, fds, rx, slots, new, canvas, crashed>>

(***************************************************************************)
(* cleanup: init_msg is freed (again), the socket closed, and then, under  *)
(* the mutex, the slot given back.  The C library ends the process when    *)
(* memory is freed twice, or does not notice.                              *)
(***************************************************************************)
FreeInit(t) == /\ At(t, "cleanup")
               /\ \/ /\ thread[t].init = "freed"
                     /\ crashed' \in BOOLEAN
                  \/ /\ thread[t].init # "freed"
                     /\ UNCHANGED crashed
               /\ thread' = [thread EXCEPT ![t].pc = "close",
                               ![t].init = IF @ = "freed" THEN "freed twice"
                                           ELSE IF @ = "allocated" THEN "freed" ELSE @]
               /\ UNCHANGED <<pageVars, backlog, fds, rx, slots, new, mutex, canvas>>

CloseSocket(t) == /\ At(t, "close")
                  /\ Close(slots[thread[t].cli].fd)
                  /\ Goto(t, "release")
                  /\ UNCHANGED <<pageVars, backlog, rx, slots, new, mutex, canvas, crashed>>

ReleaseSlot(t) == /\ At(t, "release")
                  /\ mutex = NoThread
                  /\ slots' = [slots EXCEPT ![thread[t].cli].active = FALSE]
                  /\ Goto(t, "ended")
                  /\ UNCHANGED <<pageVars, backlog, fds, rx, new, mutex, canvas, crashed>>

HandleClient(t) ==
  /\ \/ CallRecv(t, "handshake", "handshake recv") \/ HandshakeRecv(t) \/ Respond(t)
     \/ CopyCanvas(t) \/ SendInitial(t)
     \/ CallRecv(t, "read", "read recv") \/ ReadFrame(t)
     \/ LockClients(t) \/ SendHeader(t) \/ SendPayload(t) \/ UnlockClients(t)
     \/ FreeInit(t) \/ CloseSocket(t) \/ ReleaseSlot(t)
  /\ UNCHANGED world

(***************************************************************************)
(* The pages.                                                              *)
(***************************************************************************)
Attached(c) == Contains(backlog, c) \/ \E f \in Fds : fds[f] = c

Connect(c) == /\ peer[c] = "new" /\ c \in Worlds[world].conns
              /\ peer' = [peer EXCEPT ![c] = "up"]
              /\ backlog' = Append(backlog, c)
              /\ UNCHANGED <<sent, rx>>

PageSends(c) == /\ peer[c] = "up" /\ Attached(c)
                /\ sent[c] < Len(Script[c])
                /\ LET next == Script[c][sent[c] + 1] IN
                     /\ next.kind \in {"draw", "close", "ignored"} => wire[c] \in {"open", "header"}
                     /\ rx' = [rx EXCEPT ![c] = Append(@, next)]
                /\ sent' = [sent EXCEPT ![c] = @ + 1]
                /\ UNCHANGED <<peer, backlog>>

PageEnds(c) == /\ Attached(c)
               /\ \/ c \in Leaving /\ peer[c] = "up" /\ peer' = [peer EXCEPT ![c] = "fin"]
                  \/ c \in Aborting /\ peer[c] = "up" /\ peer' = [peer EXCEPT ![c] = "rst"]
                  \/ c \in Aborting /\ peer[c] = "fin" /\ peer' = [peer EXCEPT ![c] = "finrst"]
               /\ UNCHANGED <<sent, backlog, rx>>

Page(c) == /\ Connect(c) \/ PageSends(c) \/ PageEnds(c)
           /\ UNCHANGED <<world, fds, wire, screen, seen, slots, new, mutex, thread, canvas, crashed>>

MainThread == (AcceptClient \/ PlaceClient) /\ UNCHANGED world

Next == MainThread \/ (\E t \in Conns : HandleClient(t)) \/ (\E c \in Conns : Page(c))

Spec == Init /\ [][Next]_vars

(* The threads run; pages send what they have to send.                     *)
FairSpec == /\ Spec
            /\ WF_vars(MainThread)
            /\ \A t \in Conns : WF_vars(HandleClient(t))
            /\ \A c \in Conns : WF_vars(Page(c))
-----------------------------------------------------------------------------
Places == {"unborn", "handshake", "handshake recv", "respond", "copy", "initial", "read",
           "read recv", "lock", "header", "payload", "cleanup", "close", "release", "ended"}

TypeOK ==
  /\ peer \in [Conns -> {"new", "up", "fin", "rst", "finrst"}]
  /\ fds \in [Fds -> Conns \cup {Closed}]
  /\ wire \in [Conns -> {"http", "open", "header", "broken"}]
  /\ screen \in [Conns -> [1 .. Cells -> Colors]]
  /\ slots \in [Slots -> [fd : Fds \cup {0}, active : BOOLEAN]]
  /\ new = <<>> \/ new \in Fds \X Conns
  /\ mutex \in Conns \cup {NoThread}
  /\ \A t \in Conns : /\ thread[t].pc \in Places /\ thread[t].cli \in Slots
                      /\ thread[t].msg = <<>> \/ thread[t].msg \in (1 .. Cells) \X Colors
                      /\ thread[t].init \in {"null", "allocated", "freed", "freed twice"}
  /\ canvas \in [1 .. Cells -> Colors]

Alive(t) == thread[t].pc \notin {"unborn", "release", "ended"}

(***************************************************************************)
(* No slot is lost: each active slot has a thread that will give it back,  *)
(* although threads end in any order and slots are taken over too early.   *)
(***************************************************************************)
SlotsHaveThreads ==
  \A i \in Slots : slots[i].active =>
    \E t \in Conns : thread[t].cli = i /\ thread[t].pc \notin {"unborn", "ended"}

(***************************************************************************)
(* Pages are sent the pixels in one order: no page is sent x before y and  *)
(* another one (or the same one again) y before x, whatever broadcasts,    *)
(* resets and reused slots come between.  A page may miss pixels, when     *)
(* another thread closes its socket, or be sent one twice, when a stale    *)
(* slot has its descriptor too.  Pixels that are drawn twice would come    *)
(* twice in any case.                                                      *)
(***************************************************************************)
DrawnOnce ==
  \A c, d \in Conns : \A i \in DOMAIN Script[c], j \in DOMAIN Script[d] :
    /\ Script[c][i].kind = "draw" /\ Script[d][j].kind = "draw"
    /\ PixelOf(Script[c][i]) = PixelOf(Script[d][j])
    => c = d /\ i = j

Before(s, x, y) == \E i, j \in DOMAIN s : i < j /\ s[i] = x /\ s[j] = y
SameOrder ==
  DrawnOnce => \A c, d \in Conns : \A x, y \in ToSet(seen[c]) :
                 x # y /\ Before(seen[c], x, y) => ~Before(seen[d], y, x)

(***************************************************************************)
(* When nobody leaves, every page gets to send what it has to send, unless *)
(* a broadcast got into its handshake, and all of it is read and           *)
(* broadcast: nobody waits for the mutex for ever.                         *)
(***************************************************************************)
AllRead ==
  Quiet => <>[](\A t \in Worlds[world].conns :
                  /\ sent[t] = Len(Script[t]) \/ wire[t] = "broken"
                  /\ rx[t] = <<>> /\ thread[t].pc \in {"read recv", "ended"})

(***************************************************************************)
(* "Broadcasts the change to all clients" (line 333): when everything was  *)
(* read and sent, a connected page shows the canvas.                       *)
(***************************************************************************)
PagesShowCanvas ==
  (\A t \in Worlds[world].conns : thread[t].pc = "read recv" /\ rx[t] = <<>>) /\ ~crashed =>
    \A c \in Worlds[world].conns : screen[c] = canvas

(***************************************************************************)
(* `if (init_msg) free(init_msg)` (line 343): what is freed there was not  *)
(* freed before.                                                           *)
(***************************************************************************)
FreedOnce == \A t \in Conns : thread[t].init # "freed twice"

(***************************************************************************)
(* "Creates a thread that handles the new client" (line 434): each thread  *)
(* works on its own socket from its creation to its close.                 *)
(***************************************************************************)
ThreadOwnsSocket == \A t \in Conns : Alive(t) /\ ~crashed => Socket(t) = t

(***************************************************************************)
(* "Broadcasts to all clients" (line 39): a broadcast gets to its end,     *)
(* also when a page does not read.                                         *)
(***************************************************************************)
BroadcastEnds == \A t \in Conns : mutex = t ~> mutex # t
=============================================================================
