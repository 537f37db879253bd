----------------------------- MODULE SlotServer -----------------------------
(***************************************************************************)
(* eunhye_files/server.c: one thread, an edge-triggered epoll instance, a  *)
(* table of MAX_CLIENTS clients, and a broadcast to all of them from       *)
(* within the processing of each frame.                                    *)
(*                                                                         *)
(* The mutexes of this program are only ever taken by its one thread, one  *)
(* at a time and never twice, and are left out.                            *)
(***************************************************************************)
EXTENDS EpollSockets, FiniteSets

CONSTANTS MaxClients,   \* MAX_CLIENTS
          Cells,        \* WIDTH * HEIGHT
          Colors, Blank

(* Drawings have colors.                                                   *)
ASSUME SlotServerAssumption == /\ MaxClients \in Nat \ {0}
                               /\ Cells \in Nat \ {0}
                               /\ Blank \in Colors
                               /\ \A w \in DOMAIN Worlds : \A c \in Conns :
                                    \A chunk \in Range(Worlds[w].script[c]) :
                                      chunk.kind \in {"draw", "tail"} => chunk.color \in Colors

(* More of a world: epoll_ctl may fail.                                    *)
CtlFails == Worlds[world].ctlFails

VARIABLES slots,    \* clients: descriptor, active, handshake_done
          buffers,  \* and buffer: what was read and is no frame yet
          pc, batch, cur,   \* the event loop: place, events left, cli
          call,     \* the broadcast under way: the cell, the next slot
          canvas,
          screen    \* what each page shows

loopVars == <<slots, buffers, pc, batch, cur, call>>
drawVars == <<canvas, screen>>
slotVars == <<netVars, loopVars, drawVars>>

Slots == 1 .. MaxClients
Free == [fd |-> 0, active |-> FALSE, done |-> FALSE]
Filled(color) == [i \in 1 .. Cells |-> color]

(* Bound and listening, and nobody has connected: main returns otherwise.  *)
setup_server == NetInit

SlotInit == /\ setup_server
            /\ slots = [i \in Slots |-> Free]
            /\ buffers = [i \in Slots |-> <<>>]
            /\ pc = "wait" /\ batch = <<>> /\ cur = 1
            /\ call = [cell |-> 1, at |-> 1]
            /\ canvas = Filled(Blank)
            /\ screen = [c \in Conns |-> Filled(Blank)]

Least(S) == CHOOSE i \in S : \A j \in S : i <= j

Active == {i \in Slots : slots[i].active}
Open == {i \in Active : slots[i].done}
ConnOf(i) == fds[slots[i].fd]
GoTo(place) == pc' = place

(* close(socket_fd), active = 0.                                           *)
Drop(i) == /\ CloseFd(slots[i].fd)
           /\ slots' = [slots EXCEPT ![i].active = FALSE]

Stay == UNCHANGED <<fds, ready, slots>>

(***************************************************************************)
(* epoll_wait, and one event after the other.  When a batch is done the    *)
(* loop waits again.                                                       *)
(***************************************************************************)
EpollWait == /\ pc = "wait"
             /\ ready # <<>>
             /\ ready' = Relisted
             /\ \/ /\ Reported # <<>>
                   /\ batch' = [k \in DOMAIN Reported |-> Event(Reported[k])]
                   /\ GoTo("dispatch")
                \/ Reported = <<>> /\ UNCHANGED <<batch, pc>>
             /\ UNCHANGED <<peer, sent, backlog, fds, rx, wire, drawVars, slots, buffers, cur, call>>

(* Mutant: one event of each batch is handled.                             *)
NextEvent_first == /\ pc = "next"
                   /\ batch' = <<>>
                   /\ GoTo("wait")
                   /\ UNCHANGED <<netVars, drawVars, slots, buffers, cur, call>>

NextEvent == /\ pc = "next"
             /\ batch' = Tail(batch)
             /\ GoTo(IF Len(batch) = 1 THEN "wait" ELSE "dispatch")
             /\ UNCHANGED <<netVars, drawVars, slots, buffers, cur, call>>

(* The client of an event is the first active slot with its number.        *)
Matching(f) == {i \in Active : slots[i].fd = f}

Dispatch ==
  LET event == Head(batch) IN
  /\ pc = "dispatch"
  /\ \/ /\ event.fd = 0
        /\ GoTo("accept")
        /\ UNCHANGED <<fds, ready, cur>>
     \/ /\ event.fd # 0 /\ Matching(event.fd) = {}
        /\ CloseFd(event.fd)
        /\ GoTo("next")
        /\ UNCHANGED cur
     \/ /\ event.fd # 0 /\ Matching(event.fd) # {}
        /\ cur' = Least(Matching(event.fd))
        /\ GoTo(IF ~event.in THEN "hangup"
                ELSE IF slots[cur'].done THEN "recv" ELSE "handshake")
        /\ UNCHANGED <<fds, ready>>
  /\ UNCHANGED <<peer, sent, backlog, rx, wire, drawVars, slots, buffers, batch, call>>

(***************************************************************************)
(* The accept loop.                                                        *)
(***************************************************************************)
Unused == Slots \ Active

AcceptEnds == /\ pc = "accept"
              /\ backlog = <<>> \/ Available = {}
              /\ GoTo("next")
              /\ UNCHANGED <<netVars, drawVars, slots, buffers, batch, cur, call>>

Taken == [Free EXCEPT !.fd = Lowest, !.active = TRUE]

Accept ==
  LET c == Head(backlog) IN
  /\ pc = "accept"
  /\ backlog # <<>> /\ Available # {}
  /\ backlog' = Tail(backlog)
  /\ buffers' = IF Unused # {} THEN [buffers EXCEPT ![Least(Unused)] = <<>>] ELSE buffers
  /\ \/ /\ Unused # {}
        /\ slots' = [slots EXCEPT ![Least(Unused)] = Taken]
        /\ fds' = [fds EXCEPT ![Lowest] = c]
        /\ ready' = IF CanRead(c) THEN Notified(c) ELSE ready
     \/ /\ Unused # {} /\ CtlFails
        /\ slots' = [slots EXCEPT ![Least(Unused)] = [Taken EXCEPT !.active = FALSE]]
        /\ UNCHANGED <<fds, ready>>
     \/ Unused = {} /\ Stay
  /\ UNCHANGED <<peer, sent, rx, wire, drawVars, pc, batch, cur, call>>

(***************************************************************************)
(* websocket_handshake: one recv must bring the whole request.  Without    *)
(* a handshake the client is dropped.                                      *)
(***************************************************************************)
Request == /\ ConnOf(cur) \in Conns
           /\ \E k \in DOMAIN rx[ConnOf(cur)] : rx[ConnOf(cur)][k].kind = "upgrade"

Handshake ==
  /\ pc = "handshake"
  /\ rx' = IF ConnOf(cur) \in Conns THEN [rx EXCEPT ![ConnOf(cur)] = <<>>] ELSE rx
  /\ \/ /\ ~Request
        /\ Drop(cur) /\ GoTo("hangup") /\ UNCHANGED wire
     \/ /\ Request
        /\ \E result \in SendResults(slots[cur].fd) :
             \/ /\ result = "killed"
                /\ GoTo("dead") /\ Stay /\ UNCHANGED wire
             \/ /\ result = "error"
                /\ Drop(cur) /\ GoTo("hangup") /\ UNCHANGED wire
             \/ /\ result \in {"all", "short"}
                /\ wire' = [wire EXCEPT ![ConnOf(cur)] = IF result = "all" THEN "open" ELSE "broken"]
                /\ GoTo("initial") /\ Stay
  /\ UNCHANGED <<peer, sent, backlog, drawVars, buffers, batch, cur, call>>

(***************************************************************************)
(* What writev does to the page at the other end: it shows the new pixels  *)
(* if it gets a whole message, and makes nothing of what follows a message *)
(* that was cut short.                                                     *)
(***************************************************************************)
Told(c, cells, result) ==
  /\ wire' = IF result = "short" THEN [wire EXCEPT ![c] = "broken"] ELSE wire
  /\ screen' = IF result = "all" /\ wire[c] = "open"
               THEN [screen EXCEPT ![c] = [k \in 1 .. Cells |-> IF k \in cells THEN canvas[k]
                                                                               ELSE @[k]]]
               ELSE screen

Whole == 1 .. Cells

Initial ==
  /\ pc = "initial"
  /\ \E result \in SendResults(slots[cur].fd) :
       \/ /\ result = "killed"
          /\ GoTo("dead") /\ Stay /\ UNCHANGED <<wire, screen>>
       \/ /\ result = "error"
          /\ CloseFd(slots[cur].fd)
          /\ slots' = [slots EXCEPT ![cur].active = FALSE, ![cur].done = TRUE]
          /\ GoTo("next") /\ UNCHANGED <<wire, screen>>
       \/ /\ result \in {"all", "short"}
          /\ slots' = [slots EXCEPT ![cur].done = TRUE]
          /\ Told(ConnOf(cur), Whole, result)
          /\ GoTo("hangup") /\ UNCHANGED <<fds, ready>>
       \/ /\ result = "file"
          /\ slots' = [slots EXCEPT ![cur].done = TRUE]
          /\ GoTo("hangup") /\ UNCHANGED <<fds, ready, wire, screen>>
  /\ UNCHANGED <<peer, sent, backlog, rx, canvas, buffers, batch, cur, call>>

(***************************************************************************)
(* The recv loop.  When the buffer is full recv has room for nothing, and  *)
(* its 0 is taken for the end of the connection.                           *)
(***************************************************************************)
Received == LET result == RecvResult(slots[cur].fd) IN
            IF result = "data" /\ Fills(buffers[cur]) # {} THEN "end" ELSE result

Recv ==
  LET c == ConnOf(cur)
      n == RoomFor(rx[c])
  IN
  /\ pc = "recv"
  /\ \/ /\ Received = "data"
        /\ buffers' = [buffers EXCEPT ![cur] = @ \o SubSeq(rx[c], 1, n)]
        /\ rx' = [rx EXCEPT ![c] = SubSeq(@, n + 1, Len(@))]
        /\ GoTo("frames") /\ Stay
     \/ /\ Received \in {"end", "error"}
        /\ Drop(cur) /\ GoTo("hangup") /\ UNCHANGED <<buffers, rx>>
     \/ /\ Received = "again"
        /\ GoTo("hangup") /\ Stay /\ UNCHANGED <<buffers, rx>>
  /\ UNCHANGED <<peer, sent, backlog, wire, drawVars, batch, cur, call>>

InRange(frame) == frame.at \in 1 .. Cells

(* process_websocket_frame for the frames in the buffer, one after the     *)
(* other, also when one of them has closed the descriptor.                 *)
ProcessFrame ==
  LET frame == FirstFrame(buffers[cur]) IN
  /\ pc = "frames"
  /\ WholeFrame(buffers[cur])
  /\ buffers' = [buffers EXCEPT ![cur] = Leftover(@)]
  /\ \/ /\ frame.kind \in {"draw", "tail"} /\ InRange(frame)
        /\ canvas' = [canvas EXCEPT ![frame.at] = frame.color]
        /\ call' = [cell |-> frame.at, at |-> 1]
        /\ GoTo("send") /\ Stay
     \/ /\ frame.kind \in {"draw", "tail"} /\ ~InRange(frame)
        /\ GoTo("frames") /\ Stay /\ UNCHANGED <<canvas, call>>
     \/ /\ frame.kind = "close"
        /\ Drop(cur) /\ GoTo("frames") /\ UNCHANGED <<canvas, call>>
  /\ UNCHANGED <<peer, sent, backlog, rx, wire, screen, batch, cur>>

FramesEnd == /\ pc = "frames"
             /\ ~WholeFrame(buffers[cur])
             /\ GoTo("recv")
             /\ UNCHANGED <<netVars, drawVars, slots, buffers, batch, cur, call>>

(* EPOLLHUP and EPOLLERR, whatever was done with the event before.         *)
Hangup == /\ pc = "hangup"
          /\ IF Head(batch).hup THEN Drop(cur) ELSE Stay
          /\ GoTo("next")
          /\ UNCHANGED <<peer, sent, backlog, rx, wire, drawVars, buffers, batch, cur, call>>

(***************************************************************************)
(* broadcast_to_clients: one writev per open slot; a slot whose writev     *)
(* fails is dropped.                                                       *)
(***************************************************************************)
Rest_strict == {i \in Open : i > call.at}   \* mutant
Rest == {i \in Open : i >= call.at}

(* Mutant: a failed writev leaves the slot active.                         *)
SendFails_active(i) == CloseFd(slots[i].fd) /\ UNCHANGED slots
SendFails(i) == Drop(i)

Send ==
  LET i == Least(Rest) IN
  /\ pc = "send"
  /\ Rest # {}
  /\ \E result \in SendResults(slots[i].fd) :
       \/ /\ result = "killed"
          /\ GoTo("dead") /\ Stay /\ UNCHANGED <<call, wire, screen>>
       \/ /\ result = "error"
          /\ SendFails(i)
          /\ call' = [call EXCEPT !.at = i + 1]
          /\ UNCHANGED <<pc, wire, screen>>
       \/ /\ result \in {"all", "short"}
          /\ Told(ConnOf(i), {call.cell}, result)
          /\ call' = [call EXCEPT !.at = i + 1]
          /\ Stay /\ UNCHANGED pc
       \/ /\ result = "file"
          /\ call' = [call EXCEPT !.at = i + 1]
          /\ Stay /\ UNCHANGED <<pc, wire, screen>>
  /\ UNCHANGED <<peer, sent, backlog, rx, canvas, buffers, batch, cur>>

SendEnds == /\ pc = "send"
            /\ Rest = {}
            /\ GoTo("frames")
            /\ UNCHANGED <<netVars, drawVars, slots, buffers, batch, cur, call>>

Main == /\ \/ EpollWait \/ NextEvent \/ Dispatch \/ AcceptEnds \/ Accept
           \/ Handshake \/ Initial \/ Recv \/ ProcessFrame \/ FramesEnd \/ Hangup \/ Send \/ SendEnds
        /\ UNCHANGED world

Clients == (\E c \in Conns : Client(c)) /\ UNCHANGED <<world, loopVars, drawVars>>

SlotNext == Main \/ Clients

SlotSpec == SlotInit /\ [][SlotNext]_slotVars
-----------------------------------------------------------------------------
SlotTypeOK ==
  /\ NetTypeOK
  /\ slots \in [Slots -> [fd : Fds \cup {0}, active : BOOLEAN, done : BOOLEAN]]
  /\ \A i \in Slots : ToSet(buffers[i]) \subseteq UNION {Range(Script[c]) : c \in Conns}
  /\ pc \in {"wait", "next", "dispatch", "accept", "handshake", "initial", "recv", "frames",
             "hangup", "send", "dead"}
  /\ cur \in Slots
  /\ call \in [cell : 1 .. Cells, at : 1 .. MaxClients + 1]
  /\ canvas \in [1 .. Cells -> Colors]
  /\ screen \in [Conns -> [1 .. Cells -> Colors]]

Idle == pc = "wait"

(***************************************************************************)
(* The table and the descriptors agree at every step: each active slot has *)
(* an open socket of its own, and each open socket has a slot, although    *)
(* descriptors are closed twice, events outlive their sockets and closed   *)
(* numbers come back.                                                      *)
(***************************************************************************)
TableMatchesSockets ==
  /\ \A i \in Active : ConnOf(i) \in Conns
  /\ \A i, j \in Active : slots[i].fd = slots[j].fd => i = j
  /\ \A f \in Fds : fds[f] \in Conns => \E i \in Active : slots[i].fd = f

(***************************************************************************)
(* Between two rounds the page of each open slot shows the canvas, unless  *)
(* a message to it was cut short.                                          *)
(***************************************************************************)
OpenPagesInSync ==
  Idle => \A i \in Open : wire[ConnOf(i)] = "open" => screen[ConnOf(i)] = canvas

(***************************************************************************)
(* What a page that is still connected has drawn, and nobody else draws    *)
(* over, is on the canvas once all it sent was read: in one segment or     *)
(* two, whatever the slot was used for before.                             *)
(***************************************************************************)
DrawnBy(c) == {k \in 1 .. sent[c] : Script[c][k].kind \in {"draw", "tail"}}
Cell(c, k) == Script[c][k].at
Alone(c, k) == /\ Cell(c, k) \in 1 .. Cells
               /\ \A d \in Conns : \A m \in DrawnBy(d) :
                    Cell(d, m) = Cell(c, k) => d = c /\ m <= k

DrawingsApplied ==
  Idle => \A i \in Open : LET c == ConnOf(i) IN
            rx[c] = <<>> => \A k \in DrawnBy(c) :
                              Alone(c, k) => canvas[Cell(c, k)] = Script[c][k].color

(***************************************************************************)
(* Everything the pages draw ends up on the canvas, and all pages show it. *)
(***************************************************************************)
Settled == LET conns == Worlds[world].conns IN
           /\ Idle
           /\ \A c \in conns : sent[c] = Len(Script[c]) /\ rx[c] = <<>>
           /\ \A i \in Open : screen[ConnOf(i)] = canvas
           /\ Cardinality(Open) = Cardinality(conns)

(***************************************************************************)
(* A client that is disconnected "due to EPOLLHUP/EPOLLERR" (line 584) or  *)
(* at "the end of the client's connection" (line 575) is one whose         *)
(* connection has ended.                                                   *)
(***************************************************************************)
Closes(c) == Registered(c) /\ ~Registered(c)'
HangupIsClients ==
  [][pc = "hangup" => \A c \in Conns : Closes(c) => peer[c] # "up"]_slotVars
EndIsClients ==
  [][pc = "recv" /\ Received = "end" => \A c \in Conns : Closes(c) => peer[c] # "up"]_slotVars
=============================================================================
