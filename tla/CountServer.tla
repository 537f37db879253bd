---------------------------- MODULE CountServer ----------------------------
(***************************************************************************)
(* 3.epoll_clicnt/server.c: one thread that waits for events, keeps its    *)
(* clients in a table of MAX_CLIENTS slots, broadcasts every pixel at once *)
(* and tells all pages how many clients there are; and the thread that     *)
(* saves the canvas (CanvasFile), which shares the canvas and the          *)
(* descriptor numbers of the process with it.                              *)
(*                                                                         *)
(* clients_mutex is taken by the event thread only; it is not recursive.   *)
(* canvas_mutex is held for one step at a time.                            *)
(***************************************************************************)
EXTENDS EpollSockets, CanvasFile, FiniteSets

CONSTANTS MaxClients,  \* MAX_CLIENTS
          CountSize    \* the count is an unsigned of this many values

ASSUME CountServerAssumption == /\ MaxClients \in Nat \ {0}
                                /\ CountSize \in Nat /\ MaxClients < CountSize

(* More of a world: epoll_ctl may fail, SIGINT may arrive, pthread_create  *)
(* of the saving thread succeeded.                                         *)
CtlFails == Worlds[world].ctlFails
Interrupts == Worlds[world].interrupts
SaverRuns == Worlds[world].saves

VARIABLES slots,      \* clients: descriptor, active, handshake_done
          buffers,    \* and buffer: what was read and is no frame yet
          clientCnt,
          pc,         \* where the event thread is
          batch,      \* what epoll_wait returned and was not handled yet
          cur,        \* cli, the slot of the event being handled
          held,       \* clients_mutex is locked
          call,       \* the broadcast under way
          file,       \* the descriptor of the saving thread's stream
          screen,     \* what each page shows
          shown       \* the count each page shows

loopVars == <<slots, buffers, clientCnt, pc, batch, cur, held, call>>
pageVars == <<screen, shown>>
vars == <<netVars, fileVars, loopVars, pageVars, file>>

Slots == 1 .. MaxClients
Free == [fd |-> 0, active |-> FALSE, done |-> FALSE]
NoCall == [kind |-> "none", at |-> 1, cell |-> 1, cnt |-> 0, ret |-> "next"]

(* Bound and listening, and nobody has connected: main returns otherwise.  *)
setup_server == NetInit

(* main up to the loop: canvas loaded (here: no file), table cleared.      *)
Init == /\ setup_server /\ FileInit
        /\ slots = [i \in Slots |-> Free]
        /\ buffers = [i \in Slots |-> <<>>]
        /\ clientCnt = 0
        /\ pc = "wait" /\ batch = <<>> /\ cur = 1
        /\ held = FALSE /\ call = NoCall
        /\ file = 0
        /\ screen = [c \in Conns |-> Filled(White)]
        /\ shown = [c \in Conns |-> 0]

Least(S) == CHOOSE i \in S : \A j \in S : i <= j

(***************************************************************************)
(* The slots a broadcast sends to, and the calls of the two broadcasts.    *)
(***************************************************************************)
Open == {i \in Slots : slots[i].active /\ slots[i].done}
ConnOf(i) == fds[slots[i].fd]

CallCount(cnt, ret) == /\ call' = [NoCall EXCEPT !.kind = "count", !.cnt = cnt, !.ret = ret]
                       /\ pc' = "lock"
CallPixel(cell, ret) == /\ call' = [NoCall EXCEPT !.kind = "pixel", !.cell = cell, !.ret = ret]
                        /\ pc' = "lock"

Fewer == (clientCnt + CountSize - 1) % CountSize
More == (clientCnt + 1) % CountSize

(* Mutant: the count is broadcast as it was.                               *)
Drop_kept(i, ret) == /\ CloseFd(slots[i].fd)
                     /\ slots' = [slots EXCEPT ![i].active = FALSE]
                     /\ CallCount(clientCnt, ret)
                     /\ UNCHANGED clientCnt

(* Mutant: the new count is not broadcast.                                 *)
Drop_silent(i, ret) == /\ CloseFd(slots[i].fd)
                       /\ slots' = [slots EXCEPT ![i].active = FALSE]
                       /\ clientCnt' = Fewer
                       /\ pc' = ret /\ UNCHANGED call

(* close(socket_fd), active = 0, clientCnt--, broadcast_client_count.      *)
Drop(i, ret) == /\ CloseFd(slots[i].fd)
                /\ slots' = [slots EXCEPT ![i].active = FALSE]
                /\ clientCnt' = Fewer
                /\ CallCount(Fewer, ret)

GoTo(place) == pc' = place /\ UNCHANGED call

Dies == /\ GoTo("dead")
        /\ UNCHANGED <<fds, ready, slots, clientCnt, held>>

(***************************************************************************)
(* main: epoll_wait, and one event after the other.                        *)
(***************************************************************************)
EpollWait == /\ pc = "wait"
             /\ ready # <<>>
             /\ ready' = Relisted
             /\ \/ /\ Reported # <<>>
                   /\ batch' = [k \in DOMAIN Reported |-> Event(Reported[k])]
                   /\ GoTo("dispatch")
                \/ Reported = <<>> /\ UNCHANGED <<batch, pc, call>>
             /\ UNCHANGED <<peer, sent, backlog, fds, rx, wire>>
             /\ UNCHANGED <<fileVars, pageVars, slots, clientCnt, cur, held, buffers, file>>

(* Mutant: one event of each batch is handled.                             *)
NextEvent_first == /\ pc = "next"
                   /\ batch' = <<>>
                   /\ GoTo("wait")
                   /\ UNCHANGED <<netVars, fileVars, pageVars, slots, clientCnt, cur, held, buffers, file>>

NextEvent == /\ pc = "next"
             /\ batch' = Tail(batch)
             /\ GoTo(IF Len(batch) = 1 THEN "wait" ELSE "dispatch")
             /\ UNCHANGED <<netVars, fileVars, pageVars, slots, clientCnt, cur, held, buffers, file>>

(* The client is the first active slot with the number of the event.       *)
Matching(f) == {i \in Slots : slots[i].active /\ slots[i].fd = f}

Dispatch ==
  LET event == Head(batch) IN
  /\ pc = "dispatch"
  /\ \/ /\ event.fd = 0
        /\ GoTo("accept")
        /\ UNCHANGED <<netVars, cur>>
     \/ /\ event.fd # 0
        /\ Matching(event.fd) = {}
        /\ CloseFd(event.fd)
        /\ GoTo("next")
        /\ UNCHANGED <<peer, sent, backlog, rx, wire, cur>>
     \/ /\ event.fd # 0
        /\ Matching(event.fd) # {}
        /\ cur' = Least(Matching(event.fd))
        /\ GoTo(IF ~event.in THEN "sweep"
                ELSE IF slots[cur'].done THEN "recv" ELSE "handshake")
        /\ UNCHANGED netVars
  /\ UNCHANGED <<fileVars, pageVars, slots, clientCnt, batch, held, buffers, file>>

(***************************************************************************)
(* The accept loop.  The new descriptor is closed when there is no slot    *)
(* for it; when epoll_ctl fails, the count is broadcast with clients_mutex *)
(* held.  Without a connection (or a descriptor) the loop ends.            *)
(***************************************************************************)
Unused == {i \in Slots : ~slots[i].active}

AcceptEnds == /\ pc = "accept"
              /\ backlog = <<>> \/ Available = {}
              /\ GoTo("next")
              /\ UNCHANGED <<netVars, fileVars, pageVars, slots, clientCnt, batch, cur, held, buffers, file>>

Accept ==
  LET c == Head(backlog) IN
  /\ pc = "accept"
  /\ backlog # <<>> /\ Available # {}
  /\ backlog' = Tail(backlog)
  /\ buffers' = IF Unused # {} THEN [buffers EXCEPT ![Least(Unused)] = <<>>] ELSE buffers
  /\ \/ /\ Unused # {}
        /\ slots' = [slots EXCEPT ![Least(Unused)] = [Free EXCEPT !.fd = Lowest, !.active = TRUE]]
        /\ fds' = [fds EXCEPT ![Lowest] = c]
        /\ ready' = IF CanRead(c) THEN Notified(c) ELSE ready
        /\ GoTo("accept")
        /\ UNCHANGED <<clientCnt, held>>
     \/ /\ Unused # {} /\ CtlFails
        /\ slots' = [slots EXCEPT ![Least(Unused)] = [Free EXCEPT !.fd = Lowest, !.active = TRUE]]
        /\ clientCnt' = Fewer
        /\ held' = TRUE
        /\ CallCount(Fewer, "accept")
        /\ UNCHANGED <<fds, ready>>
     \/ /\ Unused = {}
        /\ GoTo("accept")
        /\ UNCHANGED <<slots, fds, ready, clientCnt, held>>
  /\ UNCHANGED <<peer, sent, rx, wire, fileVars, pageVars, batch, cur, file>>

(***************************************************************************)
(* websocket_handshake: one recv must bring the whole request.  When it    *)
(* fails the descriptor is closed and the count broadcast, but the slot    *)
(* stays active; a failed send has the count lowered before that.          *)
(***************************************************************************)
Request == LET c == ConnOf(cur) IN
           fds[slots[cur].fd] \in Conns /\ \E k \in DOMAIN rx[c] : rx[c][k].kind = "upgrade"

TakeAll == rx' = IF ConnOf(cur) \in Conns THEN [rx EXCEPT ![ConnOf(cur)] = <<>>] ELSE rx

(* Mutant: handshake_done is set before the handshake is known to succeed. *)
Refuse_done == /\ CloseFd(slots[cur].fd)
               /\ slots' = [slots EXCEPT ![cur].done = TRUE]
               /\ CallCount(clientCnt, "sweep")
               /\ UNCHANGED <<clientCnt, held, wire>>

Refuse == /\ CloseFd(slots[cur].fd)
          /\ CallCount(clientCnt, "sweep")
          /\ UNCHANGED <<slots, clientCnt, held, wire>>

Handshake ==
  /\ pc = "handshake"
  /\ TakeAll
  /\ \/ ~Request /\ Refuse
     \/ /\ Request
        /\ \E result \in SendResults(slots[cur].fd) :
             \/ result = "killed" /\ Dies /\ UNCHANGED wire
             \/ /\ result = "error"
                /\ clientCnt' = Fewer
                /\ CallCount(Fewer, "refuse")
                /\ UNCHANGED <<fds, ready, slots, held, wire>>
             \/ /\ result \in {"all", "short"}
                /\ wire' = [wire EXCEPT ![ConnOf(cur)] = IF result = "all" THEN "open" ELSE "broken"]
                /\ GoTo("initial")
                /\ UNCHANGED <<fds, ready, slots, clientCnt, held>>
  /\ UNCHANGED <<peer, sent, backlog, fileVars, pageVars, batch, cur, buffers, file>>

HandshakeFailed == /\ pc = "refuse"
                   /\ Refuse
                   /\ UNCHANGED <<peer, sent, backlog, rx, fileVars, pageVars, batch, cur, buffers, file>>

(***************************************************************************)
(* The initial canvas: the message is one byte longer than iov_len says,   *)
(* so the page is not sent the color of the last cell.                     *)
(***************************************************************************)
Told == 1 .. Cells - 1

(* What a page makes of a message sent with this result.                   *)
Heard(c, result) == /\ wire' = IF result = "short" THEN [wire EXCEPT ![c] = "broken"] ELSE wire
                    /\ IF result = "all" /\ wire[c] = "open"
                       THEN TRUE ELSE UNCHANGED pageVars

Initial ==
  LET c == ConnOf(cur) IN
  /\ pc = "initial"
  /\ \E result \in SendResults(slots[cur].fd) :
       \/ result = "killed" /\ Dies /\ UNCHANGED <<wire, pageVars>>
       \/ /\ result = "error"
          /\ CloseFd(slots[cur].fd)
          /\ slots' = [slots EXCEPT ![cur].active = FALSE, ![cur].done = TRUE]
          /\ clientCnt' = Fewer
          /\ CallCount(Fewer, "next")
          /\ UNCHANGED <<held, wire, pageVars>>
       \/ /\ result \in {"all", "short"}
          /\ slots' = [slots EXCEPT ![cur].done = TRUE]
          /\ Heard(c, result)
          /\ result = "all" /\ wire[c] = "open" =>
               /\ screen' = [screen EXCEPT ![c] =
                               [i \in 1 .. Cells |-> IF i \in Told THEN canvas[i] ELSE @[i]]]
               /\ UNCHANGED shown
          /\ clientCnt' = More
          /\ CallCount(More, "sweep")
          /\ UNCHANGED <<fds, ready, held>>
  /\ UNCHANGED <<peer, sent, backlog, rx, fileVars, batch, cur, buffers, file>>

(***************************************************************************)
(* The recv loop of an open client.  When the buffer is full recv has room *)
(* for nothing, and its 0 is taken for the end of the connection.          *)
(***************************************************************************)
Received == LET result == RecvResult(slots[cur].fd) IN
            IF result = "data" /\ Fills(buffers[cur]) # {} THEN "end" ELSE result

Recv ==
  LET c == ConnOf(cur)
      n == RoomFor(rx[c])
  IN
  /\ pc = "recv"
  /\ \/ /\ Received = "data"
        /\ buffers' = [buffers EXCEPT ![cur] = @ \o SubSeq(rx[c], 1, n)]
        /\ rx' = [rx EXCEPT ![c] = SubSeq(@, n + 1, Len(@))]
        /\ GoTo("frames")
        /\ UNCHANGED <<fds, ready, slots, clientCnt>>
     \/ /\ Received = "end"
        /\ Drop(cur, "sweep")
        /\ UNCHANGED <<buffers, rx>>
     \/ /\ Received \in {"again", "error"}
        /\ GoTo("sweep")
        /\ UNCHANGED <<buffers, rx, fds, ready, slots, clientCnt>>
  /\ UNCHANGED <<peer, sent, backlog, wire, fileVars, pageVars, batch, cur, held, file>>

(* process_websocket_frame for the frames in the buffer, one after the     *)
(* other.  A close frame does not end this loop: what comes after it in    *)
(* the buffer is processed, and a second one is counted down again.        *)
ProcessFrame ==
  LET frame == FirstFrame(buffers[cur]) IN
  /\ pc = "frames"
  /\ WholeFrame(buffers[cur])
  /\ buffers' = [buffers EXCEPT ![cur] = Leftover(@)]
  /\ \/ /\ frame.kind \in {"draw", "tail"} /\ frame.at \in 1 .. Cells
        /\ SetPixel(frame.at, frame.color)
        /\ CallPixel(frame.at, "frames")
        /\ UNCHANGED <<fds, ready, slots, clientCnt>>
     \/ /\ frame.kind \in {"draw", "tail"} /\ frame.at \notin 1 .. Cells
        /\ GoTo("frames")
        /\ UNCHANGED <<canvas, fds, ready, slots, clientCnt>>
     \/ /\ frame.kind = "close"
        /\ Drop(cur, "frames")
        /\ UNCHANGED canvas
  /\ UNCHANGED <<peer, sent, backlog, rx, wire, tmp, dat, buffer, saver, written>>
  /\ UNCHANGED <<pageVars, batch, cur, held, file>>

FramesEnd == /\ pc = "frames"
             /\ ~WholeFrame(buffers[cur])
             /\ GoTo("recv")
             /\ UNCHANGED <<netVars, fileVars, pageVars, slots, clientCnt, batch, cur, held, buffers, file>>

(* The test for EPOLLHUP and EPOLLERR, whatever was done before it.        *)
Sweep == /\ pc = "sweep"
         /\ \/ /\ Head(batch).hup
               /\ Drop(cur, "next")
            \/ /\ ~Head(batch).hup
               /\ GoTo("next")
               /\ UNCHANGED <<fds, ready, slots, clientCnt>>
         /\ UNCHANGED <<peer, sent, backlog, rx, wire, fileVars, pageVars, batch, cur, held, buffers, file>>

(***************************************************************************)
(* broadcast_to_clients and broadcast_client_count: lock clients_mutex,    *)
(* one writev per open slot.  When one fails the slot is closed, and       *)
(* broadcast_client_count is called with the mutex held.                   *)
(***************************************************************************)
Lock == /\ pc = "lock"
        /\ ~held
        /\ held' = TRUE
        /\ GoTo("send")
        /\ UNCHANGED <<netVars, fileVars, pageVars, slots, clientCnt, batch, cur, buffers, file>>

Rest_second == {i \in Open : i > call.at}   \* mutant
Rest == {i \in Open : i >= call.at}

Unlock == /\ pc = "send"
          /\ Rest = {}
          /\ held' = FALSE
          /\ GoTo(IF call.kind = "pixel" THEN "log" ELSE call.ret)
          /\ UNCHANGED <<netVars, fileVars, pageVars, slots, clientCnt, batch, cur, buffers, file>>

(* ws.onmessage of index.html.                                             *)
OnMessage(c) ==
  IF call.kind = "pixel"
  THEN screen' = [screen EXCEPT ![c][call.cell] = canvas[call.cell]] /\ UNCHANGED shown
  ELSE shown' = [shown EXCEPT ![c] = call.cnt] /\ UNCHANGED screen

(* The next writev; failed is what is done with the count if it fails.     *)
Send(failed) ==
  LET i == Least(Rest) IN
  /\ pc = "send"
  /\ Rest # {}
  /\ \E result \in SendResults(slots[i].fd) :
       \/ result = "killed" /\ Dies /\ UNCHANGED <<wire, pageVars>>
       \/ /\ result = "error"
          /\ CloseFd(slots[i].fd)
          /\ slots' = [slots EXCEPT ![i].active = FALSE]
          /\ failed
          /\ UNCHANGED <<held, wire, pageVars>>
       \/ /\ result \in {"all", "short"}
          /\ Heard(ConnOf(i), result)
          /\ result = "all" /\ wire[ConnOf(i)] = "open" => OnMessage(ConnOf(i))
          /\ call' = [call EXCEPT !.at = i + 1]
          /\ UNCHANGED <<pc, fds, ready, slots, clientCnt, held>>
       \/ /\ result = "file"
          /\ call' = [call EXCEPT !.at = i + 1]
          /\ UNCHANGED <<pc, fds, ready, slots, clientCnt, held, wire, pageVars>>
  /\ UNCHANGED <<peer, sent, backlog, rx, fileVars, batch, cur, buffers, file>>

(* Its parameter clientCnt hides the global one.                           *)
broadcast_client_count ==
  /\ call.kind = "count"
  /\ Send(UNCHANGED clientCnt /\ CallCount((call.cnt + CountSize - 1) % CountSize, "send"))

broadcast_to_clients ==
  /\ call.kind = "pixel"
  /\ Send(clientCnt' = Fewer /\ CallCount(Fewer, "send"))

(* The line for broadcast_log.csv, under log_file_mutex.                   *)
Log == /\ \/ pc = "log" /\ GoTo("logging")
          \/ pc = "logging" /\ GoTo(call.ret)
       /\ UNCHANGED <<netVars, fileVars, pageVars, slots, clientCnt, batch, cur, held, buffers, file>>

(* cleanup, the handler of SIGINT, on the thread it interrupts: it locks   *)
(* log_file_mutex and exits.                                               *)
Sigint == /\ Interrupts
          /\ pc # "dead"
          /\ pc # "stuck"
          /\ GoTo(IF pc = "logging" THEN "stuck" ELSE "dead")
          /\ UNCHANGED <<netVars, fileVars, pageVars, slots, clientCnt, batch, cur, held, buffers, file>>

Main == /\ \/ EpollWait \/ NextEvent \/ Dispatch \/ AcceptEnds \/ Accept
           \/ Handshake \/ HandshakeFailed \/ Initial \/ Recv \/ ProcessFrame \/ FramesEnd \/ Sweep
           \/ Lock \/ Unlock \/ broadcast_client_count \/ broadcast_to_clients \/ Log
        /\ UNCHANGED world

(***************************************************************************)
(* The saving thread.  Its stream is a descriptor like the others: when    *)
(* the event thread has closed the number, fwrite and fclose reach what    *)
(* the number refers to by then.                                           *)
(***************************************************************************)
SaverOpens == /\ Available # {}
              /\ OpenTmp
              /\ file' = Lowest
              /\ fds' = [fds EXCEPT ![Lowest] = TmpFile]
              /\ UNCHANGED <<ready, wire, pc>>

SaverWrites == \/ /\ WriteTmp(Cells)
                  /\ fds[file] = TmpFile
                  /\ UNCHANGED <<fds, ready, wire, file, pc>>
               \/ /\ saver = "open"
                  /\ fds[file] # TmpFile
                  /\ \E result \in SendResults(file) :
                       /\ written' = IF result = "all" THEN Cells ELSE 0
                       /\ wire' = IF result \in {"error", "killed"} THEN wire
                                  ELSE [wire EXCEPT ![fds[file]] = "broken"]
                       /\ pc' = IF result = "killed" THEN "dead" ELSE pc
                  /\ saver' = "written"
                  /\ UNCHANGED <<canvas, tmp, dat, buffer, fds, ready, file>>

SaverCloses == /\ CloseTmp(fds[file] = TmpFile)
               /\ CloseFd(file)
               /\ file' = 0
               /\ UNCHANGED <<wire, pc>>

Saver == /\ SaverRuns
         /\ pc # "dead"
         /\ \/ SaverOpens \/ SaverWrites \/ SaverCloses
            \/ (GiveUp \/ Rename) /\ UNCHANGED <<fds, ready, wire, file, pc>>
         /\ UNCHANGED <<world, peer, sent, backlog, rx, pageVars>>
         /\ UNCHANGED <<slots, buffers, clientCnt, batch, cur, held, call>>

Clients == /\ \E c \in Conns : Client(c)
           /\ UNCHANGED <<world, fileVars, loopVars, pageVars, file>>

(* The module CanvasFile has a specification of its own.                   *)
ServerNext == Main \/ Sigint \/ Saver \/ Clients

ServerSpec == Init /\ [][ServerNext]_vars
ServerFairSpec == ServerSpec /\ WF_vars(Main) /\ WF_vars(Saver)
-----------------------------------------------------------------------------
ServerTypeOK ==
  /\ NetTypeOK
  /\ slots \in [Slots -> [fd : Fds \cup {0}, active : BOOLEAN, done : BOOLEAN]]
  /\ DOMAIN buffers = Slots
  /\ clientCnt \in 0 .. CountSize - 1
  /\ cur \in Slots /\ held \in BOOLEAN /\ file \in Fds \cup {0}
  /\ call.at \in 1 .. MaxClients + 1 /\ call.kind \in {"none", "pixel", "count"}
  /\ screen \in [Conns -> Canvases] /\ shown \in [Conns -> 0 .. CountSize - 1]

(* Between two rounds of the loop.                                         *)
Idle == pc = "wait"

OpenConns == {ConnOf(i) : i \in Open}

(***************************************************************************)
(* Every open slot has a socket of its own, although refused clients leave *)
(* active slots with closed descriptors behind, whose numbers come back.   *)
(***************************************************************************)
SlotsOwnSockets ==
  /\ \A i \in Open : ConnOf(i) \in Conns
  /\ \A i, j \in Open : i # j => slots[i].fd # slots[j].fd

(***************************************************************************)
(* Between two rounds an open page whose stream was never cut short shows  *)
(* the canvas, but for the last cell, which the initial message lacks.     *)
(***************************************************************************)
PagesFollowCanvas ==
  Idle => \A c \in OpenConns : wire[c] = "open" =>
            \A k \in Told : screen[c][k] = canvas[k]

(***************************************************************************)
(* Between two rounds all of them show the count the server has, right or  *)
(* wrong: every change of the count is broadcast.                          *)
(***************************************************************************)
PagesShowCount ==
  Idle => \A c \in OpenConns : wire[c] = "open" => shown[c] = clientCnt

(***************************************************************************)
(* The count is the number of open clients ("the number of concurrent      *)
(* users", line 83), as long as no send fails or falls short, no           *)
(* connection is reset, epoll_ctl does not fail and no page sends a second *)
(* close frame: the paths that handle these count clients down twice, or   *)
(* ones never counted.                                                     *)
(***************************************************************************)
ClosesOnce == \A c \in Conns : \A k, m \in DOMAIN Script[c] :
                Script[c][k].kind = "close" /\ Script[c][m].kind = "close" => k = m
SoundCount == Aborting \cup Slow = {} /\ ~CtlFails /\ ClosesOnce
CountExact == SoundCount /\ Idle => clientCnt = Cardinality(Open)
CountAlwaysExact == Idle => clientCnt = Cardinality(Open)

(***************************************************************************)
(* A client is refused for want of a slot ("no slot for a new client",     *)
(* "Maximum clients connected", lines 682 and 683) only when MAX_CLIENTS   *)
(* clients are connected.                                                  *)
(***************************************************************************)
ConnectedConns == {c \in Conns : Registered(c)}
RefusedOnlyWhenFull ==
  [][pc = "accept" /\ backlog # <<>> /\ Len(backlog') < Len(backlog) /\ UNCHANGED <<fds, clientCnt>>
     => Cardinality(ConnectedConns) = MaxClients]_vars

(***************************************************************************)
(* A broadcast gets to its end ("broadcasts to all clients", lines 83 and  *)
(* 180).                                                                   *)
(***************************************************************************)
BroadcastEnds == pc = "lock" ~> pc \notin {"lock", "send"}

(***************************************************************************)
(* A page that asks for a websocket and stays gets one, with the canvas,   *)
(* whatever the others do in the meantime, when there is a slot for every  *)
(* connection made and no fault is met.                                    *)
(***************************************************************************)
Roomy == Cardinality(Worlds[world].conns) <= MaxClients
Asks(c) == \E k \in DOMAIN rx[c] : rx[c][k].kind = "upgrade"
PagesServed ==
  \A c \in Conns :
    (SoundCount /\ ~Interrupts /\ Roomy /\ c \notin Leaving /\ Asks(c)) ~> c \in OpenConns

(***************************************************************************)
(* A page that was sent the initial canvas shows it, all of it.            *)
(***************************************************************************)
InitialCanvasWhole ==
  Idle => \A c \in OpenConns : wire[c] = "open" => screen[c] = canvas

(* SIGINT ends the server ("SIGINT handler", line 570).                    *)
SigintExits == pc # "stuck"
=============================================================================
