-------------------------- MODULE ThreadPoolServer --------------------------
(***************************************************************************)
(* The 1.0v server: the event loop (main.c) reads from the clients and     *)
(* pushes tasks on one queue, and a pool of workers (thread_pool.c) pops   *)
(* them.  A worker that gets a TASK_NEW_CLIENT accepts a client            *)
(* (server.c), with a struct epoll_event that all workers share, and adds  *)
(* it to the list (client_manager.c); one that gets a TASK_PIXEL_UPDATE    *)
(* broadcasts what was received and then draws it (canvas.c).              *)
(*                                                                         *)
(* The list is protected by a mutex, which is held during a broadcast; the *)
(* canvas by another one, which is held for one pixel at a time.           *)
(*                                                                         *)
(* Clients send text over TCP: "pixel" is a JSON object with a pixel,      *)
(* "begin" and "end" such an object in two segments, "object" a JSON       *)
(* object without a pixel.                                                 *)
(***************************************************************************)
EXTENDS EpollSockets, FiniteSets

CONSTANTS Workers,     \* the threads of the pool
          Nobody,      \* no thread
          QueueSize,   \* the size of the task queue, which holds one less
          RecvUnits,   \* segments that fit in BUFFER_SIZE
          Cells, Colors, White

ASSUME ThreadPoolAssumption == /\ Nobody \notin Workers
                               /\ QueueSize \in Nat \ {0, 1} /\ RecvUnits \in Nat \ {0}
                               /\ Cells \in Nat \ {0} /\ White \in Colors

(* More of a world: epoll_ctl may fail.                                    *)
CtlFails == Worlds[world].ctlFails

(* What addClient is given when accept_new_client fails: -1, which is no   *)
(* descriptor.                                                             *)
Invalid == 0

VARIABLES queue,     \* the tasks
          dropped,   \* segments in tasks that push_task dropped
          worker,    \* for each worker where it is and its local variables
          loop,      \* the event loop: where it is, and its events
          list,      \* the descriptors of the clients, head first
          mutex,     \* the holder of manager->mutex
          ev,        \* sm->ev.data.fd
          tag,       \* the number each connection was registered with, or 0
          pixels,    \* canvas->pixels
          seen,      \* the messages each client was sent
          crashed

poolVars == <<queue, dropped, worker, loop, list, mutex, ev, tag, pixels, seen, crashed>>
vars == <<netVars, poolVars>>

Resting == [pc |-> "pop", fd |-> Invalid, at |-> 1, data |-> <<>>]

(***************************************************************************)
(* main: init_context and init_thread_pool.  The program exits when one of *)
(* them fails.                                                             *)
(***************************************************************************)
init_server == /\ NetInit
               /\ ev = 0 /\ tag = [c \in Conns |-> 0]
               /\ loop = [pc |-> "wait", batch |-> <<>>]
initClientManager == list = <<>> /\ mutex = Nobody
init_task_queue == queue = <<>> /\ dropped = {}
canvas_init == pixels = [k \in 1 .. Cells |-> White]
init_thread_pool == worker = [w \in Workers |-> Resting]

Init == /\ init_server /\ initClientManager /\ init_task_queue /\ canvas_init
        /\ init_thread_pool
        /\ seen = [c \in Conns |-> <<>>]
        /\ crashed = FALSE

(* push_task: a task for which there is no room is dropped.                *)
Full == Len(queue) >= QueueSize - 1
Pushed(task) == IF Full THEN queue ELSE Append(queue, task)

(***************************************************************************)
(* The event loop.  All descriptors are edge-triggered: an event gets one  *)
(* TASK_NEW_CLIENT or one recv, on the number the socket was registered    *)
(* with.                                                                   *)
(***************************************************************************)
Observed == SelectSeq(Reported, LAMBDA s : s = Listener \/ tag[s] # 0)

EpollWait == /\ loop.pc = "wait"
             /\ ready # <<>>
             /\ ready' = <<>>
             /\ loop' = [pc |-> IF Observed = <<>> THEN "wait" ELSE "event",
                         batch |-> [k \in DOMAIN Observed |->
                                      IF Observed[k] = Listener THEN 0 ELSE tag[Observed[k]]]]
             /\ UNCHANGED <<fds, rx, queue, dropped, list, tag>>

(* Mutant: the rest of the events is forgotten.                            *)
NextEvent_first == [pc |-> "wait", batch |-> <<>>]
NextEvent == [pc |-> IF Len(loop.batch) = 1 THEN "wait" ELSE "event", batch |-> Tail(loop.batch)]

Event1 == Head(loop.batch)

AcceptEvent == /\ loop.pc = "event" /\ Event1 = 0
               /\ queue' = Pushed([type |-> "TASK_NEW_CLIENT"])
               /\ loop' = NextEvent
               /\ UNCHANGED <<fds, ready, rx, dropped, list, tag>>

RecvEvent ==
  LET c == fds[Event1]
      n == IF Len(rx[c]) < RecvUnits THEN Len(rx[c]) ELSE RecvUnits
      data == SubSeq(rx[c], 1, n)
  IN
  /\ loop.pc = "event" /\ Event1 # 0
  /\ RecvResult(Event1) = "data"
  /\ rx' = [rx EXCEPT ![c] = SubSeq(@, n + 1, Len(@))]
  /\ queue' = Pushed([type |-> "TASK_PIXEL_UPDATE", data |-> data])
  /\ dropped' = IF Full THEN dropped \cup Range(data) ELSE dropped
  /\ loop' = NextEvent
  /\ UNCHANGED <<fds, ready, list, tag>>

(* recv returned 0 or -1, for whatever reason: removeClient is called.     *)
EndEvent == /\ loop.pc = "event" /\ Event1 # 0
            /\ RecvResult(Event1) # "data"
            /\ loop' = [loop EXCEPT !.pc = "remove"]
            /\ UNCHANGED <<fds, ready, rx, queue, dropped, list, tag>>

(* Mutant: the socket is closed although there is no node.                 *)
RemoveUnlisted_closes == CloseFd(Event1) /\ UNCHANGED <<list, tag>>
RemoveUnlisted == UNCHANGED <<fds, ready, list, tag>>

(* The first node with this number is removed and its socket closed.       *)
RemoveClient ==
  /\ loop.pc = "remove" /\ mutex = Nobody
  /\ loop' = [loop EXCEPT !.pc = "del"]
  /\ \/ /\ Contains(list, Event1)
        /\ list' = RemoveFirst(list, Event1)
        /\ CloseFd(Event1)
        /\ tag' = [c \in Conns |-> IF fds[Event1] = c THEN 0 ELSE tag[c]]
     \/ ~Contains(list, Event1) /\ RemoveUnlisted
  /\ UNCHANGED <<rx, queue, dropped>>

(* EPOLL_CTL_DEL of the number, whatever it refers to by now.              *)
EpollDel == /\ loop.pc = "del"
            /\ tag' = [c \in Conns |-> IF fds[Event1] = c THEN 0 ELSE tag[c]]
            /\ loop' = NextEvent
            /\ UNCHANGED <<fds, ready, rx, queue, dropped, list>>

EventLoop == /\ ~crashed
             /\ EpollWait \/ AcceptEvent \/ RecvEvent \/ EndEvent \/ RemoveClient \/ EpollDel
             /\ UNCHANGED <<world, peer, sent, backlog, wire, worker, mutex, ev, pixels, seen, crashed>>

(***************************************************************************)
(* A worker.                                                               *)
(***************************************************************************)
At(w, place) == worker[w].pc = place
Goto(w, place) == worker' = [worker EXCEPT ![w].pc = place]
Rests(w) == worker' = [worker EXCEPT ![w] = Resting]

PopTask(w) ==
  LET task == Head(queue) IN
  /\ At(w, "pop") /\ queue # <<>>
  /\ queue' = Tail(queue)
  /\ IF task.type = "TASK_NEW_CLIENT"
     THEN Goto(w, "accept")
     ELSE worker' = [worker EXCEPT ![w].pc = "broadcast", ![w].data = task.data]
  /\ UNCHANGED <<backlog, fds, ready, wire, list, mutex, ev, tag, pixels, seen, crashed>>

(* accept_new_client: accept, the event is filled in, epoll_ctl.           *)
Accept(w) ==
  /\ At(w, "accept")
  /\ \/ /\ backlog = <<>> \/ Available = {}
        /\ Goto(w, "add")
        /\ UNCHANGED <<backlog, fds, wire>>
     \/ /\ backlog # <<>> /\ Available # {}
        /\ backlog' = Tail(backlog)
        /\ fds' = [fds EXCEPT ![Lowest] = Head(backlog)]
        /\ wire' = [wire EXCEPT ![Head(backlog)] = "open"]
        /\ worker' = [worker EXCEPT ![w].pc = "fill", ![w].fd = Lowest]
  /\ UNCHANGED <<queue, ready, list, mutex, ev, tag, pixels, seen, crashed>>

Fill(w) == /\ At(w, "fill")
           /\ ev' = worker[w].fd
           /\ Goto(w, "register")
           /\ UNCHANGED <<queue, backlog, fds, ready, wire, list, mutex, tag, pixels, seen, crashed>>

Register(w) ==
  LET c == fds[worker[w].fd] IN
  /\ At(w, "register")
  /\ \/ /\ tag' = [tag EXCEPT ![c] = ev]
        /\ ready' = IF CanRead(c) THEN Notified(c) ELSE ready
        /\ Goto(w, "add")
        /\ UNCHANGED fds
     \/ /\ CtlFails
        /\ CloseFd(worker[w].fd)
        /\ worker' = [worker EXCEPT ![w].pc = "add", ![w].fd = Invalid]
        /\ UNCHANGED tag
  /\ UNCHANGED <<queue, backlog, wire, list, mutex, ev, pixels, seen, crashed>>

AddClient(w) ==
  /\ At(w, "add") /\ mutex = Nobody
  /\ list' = <<worker[w].fd>> \o list
  /\ Rests(w)
  /\ UNCHANGED <<queue, backlog, fds, ready, wire, mutex, ev, tag, pixels, seen, crashed>>

(* Mutant: the mutex is not taken.                                         *)
Lock_free(w) == UNCHANGED mutex
Lock(w) == mutex = Nobody /\ mutex' = w

BroadcastClients(w) ==
  /\ At(w, "broadcast") /\ Lock(w)
  /\ worker' = [worker EXCEPT ![w].pc = "send", ![w].at = 1]
  /\ UNCHANGED <<queue, backlog, fds, ready, wire, list, ev, tag, pixels, seen, crashed>>

(* One send, whose errors are ignored, but for SIGPIPE.                    *)
Send(w) ==
  LET f == list[worker[w].at]
      c == fds[f]
  IN
  /\ At(w, "send") /\ worker[w].at <= Len(list)
  /\ worker' = [worker EXCEPT ![w].at = @ + 1]
  /\ \E result \in SendResults(f) :
       /\ crashed' = (result = "killed")
       /\ seen' = IF result = "all" THEN [seen EXCEPT ![c] = Append(@, worker[w].data)] ELSE seen
       /\ wire' = IF result # "all" /\ f # Invalid THEN [wire EXCEPT ![c] = "broken"] ELSE wire
  /\ UNCHANGED <<queue, backlog, fds, ready, list, mutex, ev, tag, pixels>>

(***************************************************************************)
(* parse_pixel_json: what is no object with a pixel gives NULL.            *)
(***************************************************************************)
parse_pixel_json(chunk) == chunk.kind \in {"pixel", "end"}

is_valid_coordinate(chunk) == chunk.at \in 1 .. Cells
is_valid_hex_color(chunk) == chunk.color \in Colors

(***************************************************************************)
(* process_buffer looks for objects in what one recv brought: an object    *)
(* whose end is in the next segment is lost, and the end of one at the     *)
(* start of a segment makes the count of braces negative, so that nothing  *)
(* in that segment is found.  Invalid pixels are skipped.                  *)
(***************************************************************************)
process_buffer(data) ==
  LET Valid(chunk) == /\ parse_pixel_json(chunk)
                      /\ is_valid_coordinate(chunk) /\ is_valid_hex_color(chunk)
  IN  IF data[1].kind = "end" THEN <<>> ELSE SelectSeq(data, Valid)

SendEnds(w) ==
  /\ At(w, "send") /\ worker[w].at > Len(list)
  /\ mutex' = IF mutex = w THEN Nobody ELSE mutex
  /\ worker' = [worker EXCEPT ![w].pc = "draw", ![w].data = process_buffer(@)]
  /\ UNCHANGED <<queue, backlog, fds, ready, wire, list, ev, tag, pixels, seen, crashed>>

(* canvas_update_pixel for the next object; then the buffer is freed.      *)
Draw(w) ==
  LET data == worker[w].data IN
  /\ At(w, "draw")
  /\ \/ /\ data # <<>>
        /\ pixels' = [pixels EXCEPT ![Head(data).at] = Head(data).color]
        /\ worker' = [worker EXCEPT ![w].data = Tail(@)]
     \/ /\ data = <<>>
        /\ Rests(w) /\ UNCHANGED pixels
  /\ UNCHANGED <<queue, backlog, fds, ready, wire, list, mutex, ev, tag, seen, crashed>>

Worker(w) == /\ ~crashed
             /\ \/ PopTask(w) \/ Accept(w) \/ Fill(w) \/ Register(w) \/ AddClient(w)
                \/ BroadcastClients(w) \/ Send(w) \/ SendEnds(w) \/ Draw(w)
             /\ UNCHANGED <<world, peer, sent, rx, loop, dropped>>

Clients == (\E c \in Conns : Client(c)) /\ UNCHANGED <<world, poolVars>>

Next == EventLoop \/ (\E w \in Workers : Worker(w)) \/ Clients

Spec == Init /\ [][Next]_vars

(* The threads run, clients send what they have to send.                   *)
FairSpec == /\ Spec
            /\ WF_vars(EventLoop) /\ WF_vars(Clients)
            /\ \A w \in Workers : WF_vars(Worker(w))
-----------------------------------------------------------------------------
(***************************************************************************)
(* The list and the descriptors agree at every step, whatever the order in *)
(* which clients are accepted, added, reported and removed: a listed       *)
(* descriptor is open and listed once, and an open one is listed or in the *)
(* hands of the worker that will list it.                                  *)
(***************************************************************************)
ListedFds == ToSet(list) \ {Invalid}
Handled == {worker[w].fd : w \in Workers} \ {Invalid}
ListMatchesSockets ==
  /\ {f \in Fds : fds[f] # Closed} = ListedFds \cup Handled
  /\ ListedFds \cap Handled = {}
  /\ \A i, j \in DOMAIN list : list[i] = list[j] /\ list[i] # Invalid => i = j

(***************************************************************************)
(* Clients are sent the messages in one order: when no broadcast is under  *)
(* way, what a client saw that came later is the end of what another saw.  *)
(***************************************************************************)
IsSuffixOf(s, t) == Len(s) <= Len(t) /\ s = SubSeq(t, Len(t) - Len(s) + 1, Len(t))
SameOrder ==
  mutex = Nobody =>
    \A c, d \in {fds[f] : f \in ListedFds} :
      wire[c] = "open" /\ wire[d] = "open" =>
        IsSuffixOf(seen[c], seen[d]) \/ IsSuffixOf(seen[d], seen[c])

(***************************************************************************)
(* When nobody goes away, what a client draws where no one else draws gets *)
(* on the canvas, unless the queue was full when it was pushed: if clients *)
(* send whole objects, no more than one recv takes, and if no client was   *)
(* registered with the number of another one.                              *)
(***************************************************************************)
OwnNumber(c) == \E f \in Fds : fds[f] = c /\ tag[c] = f
NumbersRight == \A c \in Conns : tag[c] # 0 => OwnNumber(c)
SendsWhole(c) == /\ Len(Script[c]) <= RecvUnits
                 /\ \A k \in DOMAIN Script[c] : Script[c][k].kind = "pixel"
DrawsAlone(c, k) == /\ k \in DOMAIN Script[c]
                    /\ is_valid_coordinate(Script[c][k]) /\ is_valid_hex_color(Script[c][k])
                    /\ \A d \in Worlds[world].conns : \A m \in DOMAIN Script[d] :
                         Script[d][m].at = Script[c][k].at => d = c /\ m = k
Applied(c, k) == pixels[Script[c][k].at] = Script[c][k].color
Orderly == /\ Quiet /\ ~CtlFails /\ NumbersRight
           /\ \A c \in Worlds[world].conns : SendsWhole(c)

DrawingsApplied ==
  <>[](Orderly => \A c \in Worlds[world].conns : OwnNumber(c) =>
                    \A k \in 1 .. sent[c] :
                      DrawsAlone(c, k) /\ Script[c][k] \notin dropped => Applied(c, k))

(***************************************************************************)
(* "Client disconnected" (main.c:49, client_manager.c:70): the server      *)
(* closes the socket of a client only after the client has closed it.      *)
(***************************************************************************)
RemoveOnlyEnded ==
  [][loop.pc = "remove" /\ loop'.pc = "del" => \A c \in Conns : Registered(c) /\ ~Registered(c)' => peer[c] # "up"]_vars

(***************************************************************************)
(* "Removes the client" (client_manager.c:50): a client whose end was      *)
(* handled is not in the list when no thread has anything left to do.      *)
(***************************************************************************)
EndedRemoved ==
  loop.pc = "wait" /\ ready = <<>> /\ queue = <<>> /\ (\A w \in Workers : At(w, "pop")) =>
    \A f \in ListedFds : peer[fds[f]] = "up"
=============================================================================
