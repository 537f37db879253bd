-------------------------- MODULE SharedListServer --------------------------
(***************************************************************************)
(* The 1.1v server: three threads and two task queues.  The event loop     *)
(* (main.c) reads from the clients and removes those that end from the     *)
(* list, the client manager (client_manager.c) accepts clients, puts them  *)
(* at the head of the list and walks it to broadcast, the canvas           *)
(* (canvas.c) applies what was drawn.  Nothing protects the list: every    *)
(* step of addClient, removeClient and broadcastClients that touches it    *)
(* or a descriptor is an action of its own.                                *)
(*                                                                         *)
(* Clients send text over TCP: "pixel" is a JSON object with a pixel,      *)
(* "begin" and "end" such an object in two segments, "object" a JSON       *)
(* object without a pixel.                                                 *)
(***************************************************************************)
EXTENDS EpollSockets, Queues, FiniteSets

CONSTANTS Nodes,       \* addresses malloc can return for a list node
          Null,        \* the null pointer; nothing told yet
          Cells, Colors, White,
          RecvUnits    \* segments that fit in REQUEST_BUFFER_SIZE

ASSUME SharedListAssumption == /\ Null \notin Nodes \cup Colors
                               /\ Cells \in Nat \ {0} /\ RecvUnits \in Nat \ {0}
                               /\ White \in Colors
                               /\ IsFiniteSet(Nodes) /\ IsFiniteSet(Conns)
                               /\ Cardinality(Nodes) >= Cardinality(Conns)

(* More of a world: epoll_ctl may fail.                                    *)
CtlFails == Worlds[world].ctlFails

VARIABLES watched,    \* connections registered with epoll
          head,       \* manager->head
          node,       \* what is in memory at the addresses of nodes
          used,       \* addresses that are allocated
          loop,       \* event loop: where it is, its events, prev and current
          mgr,        \* client manager: where it is and its local variables
          pixels,     \* canvas->pixels
          modified,   \* canvas->modified_pixels
          due,        \* a second has passed since the last broadcast
          told,       \* what each client was sent last of each pixel
          lost,       \* pixels of a broadcast that push_task dropped
          crashed

sockVars == <<world, peer, sent, backlog, fds, rx, ready, wire>>
listVars == <<head, node, used>>
canvasVars == <<pixels, modified, due, lost>>
listServerVars == <<sockVars, watched, listVars, loop, mgr, canvasVars, told, crashed, cm_queue, canvas_queue>>

(***************************************************************************)
(* init_context.  The program exits when a part of it fails.               *)
(***************************************************************************)
initClientManager == /\ NetInit
                     /\ watched = {} /\ head = Null /\ used = {}
                     /\ node = [n \in Nodes |-> [fd |-> 0, next |-> Null]]
                     /\ cm_queue = <<>>
                     /\ mgr = [pc |-> "pop", fd |-> 0, at |-> Null, msg |-> <<>>]

init_canvas == /\ pixels = [k \in 1 .. Cells |-> White]
               /\ canvas_queue = <<>>
               /\ modified = <<>> /\ due = TRUE /\ lost = {}

ListInit == /\ initClientManager /\ init_canvas
            /\ loop = [pc |-> "wait", batch |-> <<>>, prev |-> Null, current |-> Null]
            /\ told = [c \in Conns |-> [k \in 1 .. Cells |-> Null]]
            /\ crashed = FALSE

(* Memory that was freed may still hold what it held, or the access ends   *)
(* the process.                                                            *)
Touch(n) == crashed' \in IF n \in used THEN {FALSE} ELSE BOOLEAN

(***************************************************************************)
(* The event loop.  All descriptors are edge-triggered: an event gets one  *)
(* TASK_NEW_CLIENT or one recv.                                            *)
(***************************************************************************)
Observed == Picked(ready, {k \in DOMAIN ready : /\ Reportable(ready[k])
                                                /\ ready[k] \in watched \cup {Listener}})

EpollWait == /\ loop.pc = "wait"
             /\ ready # <<>>
             /\ ready' = <<>>
             /\ loop' = [loop EXCEPT !.pc = IF Observed = <<>> THEN "wait" ELSE "event",
                                     !.batch = [k \in DOMAIN Observed |-> Event(Observed[k])]]
             /\ UNCHANGED <<peer, sent, backlog, fds, rx, wire, watched, listVars, mgr, canvasVars,
                            told, crashed, cm_queue, canvas_queue>>

Done == [loop EXCEPT !.pc = IF Len(loop.batch) = 1 THEN "wait" ELSE "event",
                     !.batch = Tail(@), !.prev = Null, !.current = Null]
(* Mutant: the rest of the events is forgotten.                            *)
NextEvent_first == [loop EXCEPT !.pc = "wait", !.batch = <<>>, !.prev = Null, !.current = Null]
NextEvent == Done

fd == Head(loop.batch).fd

AcceptEvent == /\ loop.pc = "event" /\ fd = 0
               /\ cm_queue' = Pushed(cm_queue, [type |-> "TASK_NEW_CLIENT"])
               /\ loop' = NextEvent
               /\ UNCHANGED <<sockVars, watched, listVars, mgr, canvasVars, told, crashed,
                              canvas_queue>>

RecvEvent ==
  LET c == fds[fd]
      n == IF Len(rx[c]) < RecvUnits THEN Len(rx[c]) ELSE RecvUnits
  IN
  /\ loop.pc = "event" /\ fd # 0
  /\ RecvResult(fd) = "data"
  /\ rx' = [rx EXCEPT ![c] = SubSeq(@, n + 1, Len(@))]
  /\ canvas_queue' = Pushed(canvas_queue, [type |-> "TASK_PIXEL_UPDATE", data |-> SubSeq(rx[c], 1, n)])
  /\ loop' = NextEvent
  /\ UNCHANGED <<peer, sent, backlog, fds, ready, wire, watched, listVars, mgr, canvasVars, told,
                 crashed, cm_queue>>

(* recv returned 0 or -1, for whatever reason: removeClient begins.        *)
EndEvent == /\ loop.pc = "event" /\ fd # 0
            /\ RecvResult(fd) # "data"
            /\ loop' = [loop EXCEPT !.pc = "search", !.current = head]
            /\ UNCHANGED <<sockVars, watched, listVars, mgr, canvasVars, told, crashed, cm_queue,
                           canvas_queue>>

Found == loop.current # Null /\ node[loop.current].fd = fd

Search == /\ loop.pc = "search"
          /\ \/ /\ loop.current = Null
                /\ loop' = [loop EXCEPT !.pc = "del"]
                /\ UNCHANGED crashed
             \/ /\ loop.current # Null
                /\ Touch(loop.current)
                /\ loop' = IF Found THEN [loop EXCEPT !.pc = "unlink"]
                           ELSE [loop EXCEPT !.prev = loop.current,
                                             !.current = node[loop.current].next]
          /\ UNCHANGED <<sockVars, watched, listVars, mgr, canvasVars, told, cm_queue, canvas_queue>>

Unlink == LET next == node[loop.current].next IN
          /\ loop.pc = "unlink"
          /\ Touch(loop.current)
          /\ IF loop.prev = Null
             THEN head' = next /\ UNCHANGED node
             ELSE node' = [node EXCEPT ![loop.prev].next = next] /\ UNCHANGED head
          /\ loop' = [loop EXCEPT !.pc = "close"]
          /\ UNCHANGED <<sockVars, watched, used, mgr, canvasVars, told, cm_queue, canvas_queue>>

CloseClient == LET f == node[loop.current].fd IN
               /\ loop.pc = "close"
               /\ Touch(loop.current)
               /\ CloseFd(f)
               /\ watched' = watched \ {fds[f]}
               /\ loop' = [loop EXCEPT !.pc = "free"]
               /\ UNCHANGED <<peer, sent, backlog, rx, wire, listVars, mgr, canvasVars, told,
                              cm_queue, canvas_queue>>

FreeNode == /\ loop.pc = "free"
            /\ Touch(loop.current)
            /\ used' = used \ {loop.current}
            /\ loop' = [loop EXCEPT !.pc = "del"]
            /\ UNCHANGED <<sockVars, watched, head, node, mgr, canvasVars, told, cm_queue,
                           canvas_queue>>

(* EPOLL_CTL_DEL of the number, whatever it refers to by now.              *)
EpollDel == /\ loop.pc = "del"
            /\ watched' = watched \ {fds[fd]}
            /\ loop' = NextEvent
            /\ UNCHANGED <<sockVars, listVars, mgr, canvasVars, told, crashed, cm_queue,
                           canvas_queue>>

EventLoop == /\ ~crashed
             /\ \/ EpollWait \/ AcceptEvent \/ RecvEvent \/ EndEvent
                \/ Search \/ Unlink \/ CloseClient \/ FreeNode \/ EpollDel
             /\ UNCHANGED world

(***************************************************************************)
(* The client manager.                                                     *)
(***************************************************************************)
TakeNewClient == /\ mgr.pc = "pop" /\ cm_queue # <<>>
                 /\ Head(cm_queue).type = "TASK_NEW_CLIENT"
                 /\ cm_queue' = Tail(cm_queue)
                 /\ mgr' = [mgr EXCEPT !.pc = "accept"]
                 /\ UNCHANGED <<sockVars, watched, listVars, loop, canvasVars, told, crashed,
                                canvas_queue>>

Accept == /\ mgr.pc = "accept"
          /\ \/ /\ backlog = <<>> \/ Available = {}
                /\ mgr' = [mgr EXCEPT !.pc = "pop"]
                /\ UNCHANGED <<backlog, fds, wire>>
             \/ /\ backlog # <<>> /\ Available # {}
                /\ backlog' = Tail(backlog)
                /\ fds' = [fds EXCEPT ![Lowest] = Head(backlog)]
                /\ wire' = [wire EXCEPT ![Head(backlog)] = "open"]
                /\ mgr' = [mgr EXCEPT !.pc = "register", !.fd = Lowest]
          /\ UNCHANGED <<peer, sent, rx, ready, watched, listVars, loop, canvasVars, told, crashed,
                         cm_queue, canvas_queue>>

Register == LET c == fds[mgr.fd] IN
            /\ mgr.pc = "register"
            /\ \/ /\ c \in Conns
                  /\ watched' = watched \cup {c}
                  /\ ready' = IF CanRead(c) THEN Notified(c) ELSE ready
                  /\ mgr' = [mgr EXCEPT !.pc = "insert"]
                  /\ UNCHANGED fds
               \/ /\ c \notin Conns \/ CtlFails
                  /\ CloseFd(mgr.fd)
                  /\ mgr' = [mgr EXCEPT !.pc = "pop", !.fd = 0]
                  /\ UNCHANGED watched
            /\ UNCHANGED <<peer, sent, backlog, rx, wire, listVars, loop, canvasVars, told, crashed,
                           cm_queue, canvas_queue>>

(* malloc hands out memory that was freed, if there is any, and memory     *)
(* that was never used otherwise.                                          *)
Freed == {n \in Nodes \ used : node[n].fd # 0}
Malloc == IF Freed # {} THEN Freed ELSE {CHOOSE n \in Nodes \ used : TRUE}

(* malloc, and new_client->next = manager->head.                           *)
Insert == /\ mgr.pc = "insert"
          /\ \E n \in Malloc :
               /\ used' = used \cup {n}
               /\ node' = [node EXCEPT ![n] = [fd |-> mgr.fd, next |-> head]]
               /\ mgr' = [mgr EXCEPT !.pc = "publish", !.at = n]
          /\ UNCHANGED <<sockVars, watched, head, loop, canvasVars, told, crashed, cm_queue,
                         canvas_queue>>

(* manager->head = new_client.                                             *)
Publish == /\ mgr.pc = "publish"
           /\ head' = mgr.at
           /\ mgr' = [mgr EXCEPT !.pc = "pop", !.fd = 0, !.at = Null]
           /\ UNCHANGED <<sockVars, watched, node, used, loop, canvasVars, told, crashed, cm_queue,
                          canvas_queue>>

TakeBroadcast == /\ mgr.pc = "pop" /\ cm_queue # <<>>
                 /\ Head(cm_queue).type = "TASK_BROADCAST"
                 /\ cm_queue' = Tail(cm_queue)
                 /\ mgr' = [mgr EXCEPT !.pc = "walk", !.at = head, !.msg = Head(cm_queue).data]
                 /\ UNCHANGED <<sockVars, watched, listVars, loop, canvasVars, told, crashed,
                                canvas_queue>>

Overlaid(base, changes) ==
  [k \in 1 .. Cells |-> IF k \in DOMAIN changes THEN changes[k] ELSE base[k]]

(* Mutant: a client that cannot take the message is closed.                *)
Send_closes ==
  LET c == fds[node[mgr.at].fd] IN
  /\ mgr.pc = "walk" /\ mgr.at # Null
  /\ mgr' = [mgr EXCEPT !.at = node[mgr.at].next]
  /\ \E result \in SendResults(node[mgr.at].fd) :
       /\ IF result = "killed" THEN crashed' = TRUE ELSE Touch(mgr.at)
       /\ told' = IF result = "all" THEN [told EXCEPT ![c] = Overlaid(@, mgr.msg)] ELSE told
       /\ wire' = wire
       /\ IF result # "all" THEN CloseFd(node[mgr.at].fd) ELSE UNCHANGED <<fds, ready>>

(* send and current->next; errors are ignored, but for SIGPIPE.            *)
Send ==
  LET c == fds[node[mgr.at].fd] IN
  /\ mgr.pc = "walk" /\ mgr.at # Null
  /\ mgr' = [mgr EXCEPT !.at = node[mgr.at].next]
  /\ \E result \in SendResults(node[mgr.at].fd) :
       /\ IF result = "killed" THEN crashed' = TRUE ELSE Touch(mgr.at)
       /\ told' = IF result = "all" THEN [told EXCEPT ![c] = Overlaid(@, mgr.msg)] ELSE told
       /\ wire' = IF result # "all" /\ c \in Conns THEN [wire EXCEPT ![c] = "broken"] ELSE wire
  /\ UNCHANGED <<fds, ready>>

Walk == /\ Send
        /\ UNCHANGED <<peer, sent, backlog, rx, watched, listVars, loop, canvasVars,
                       cm_queue, canvas_queue>>

WalkEnds == /\ mgr.pc = "walk" /\ mgr.at = Null
            /\ mgr' = [mgr EXCEPT !.pc = "pop", !.msg = <<>>]
            /\ UNCHANGED <<sockVars, watched, listVars, loop, canvasVars, told, crashed, cm_queue,
                           canvas_queue>>

Manager == /\ ~crashed
           /\ \/ TakeNewClient \/ Accept \/ Register \/ Insert \/ Publish
              \/ TakeBroadcast \/ Walk \/ WalkEnds
           /\ UNCHANGED world

(***************************************************************************)
(* The canvas.  process_buffer looks for objects in what one recv brought: *)
(* an object whose end is in the next segment is lost, and the end of one  *)
(* at the start of a segment makes its count of braces negative, so that   *)
(* nothing in that segment is found.                                       *)
(***************************************************************************)
Objects(data) == IF data[1].kind = "end" THEN {} ELSE {k \in DOMAIN data : data[k].kind # "begin"}

(* parse_pixel_json: what is no object with a pixel gives NULL.            *)
parse_pixel_json(object) == object.kind # "object"
is_valid_hex_color(object) == object.color \in Colors

(* The pixels set by the objects, each with the color of the last one.     *)
InRange(object) == object.at \in 1 .. Cells

Drawn(data) ==
  LET Valid(object) == parse_pixel_json(object) /\ InRange(object) /\ is_valid_hex_color(object)
      objects == {k \in Objects(data) : Valid(data[k])}
      Final(at) == CHOOSE k \in objects : data[k].at = at /\ \A j \in objects : data[j].at = at => j <= k
  IN  [at \in {data[k].at : k \in objects} |-> data[Final(at)].color]

(* Mutant: what is in the hash map already keeps its color.                *)
Recolored_first(changes) == [k \in DOMAIN modified \cup DOMAIN changes |->
                               IF k \in DOMAIN modified THEN modified[k] ELSE changes[k]]

Recolored(changes) == [k \in DOMAIN modified \cup DOMAIN changes |->
                         IF k \in DOMAIN changes THEN changes[k] ELSE modified[k]]

(* broadcast_updates: the map is emptied whether or not the queue had room. *)
BroadcastUpdates(changes) ==
  IF changes = <<>>
  THEN modified' = changes /\ UNCHANGED <<cm_queue, lost>>
  ELSE /\ cm_queue' = Pushed(cm_queue, [type |-> "TASK_BROADCAST", data |-> changes])
       /\ lost' = IF HasRoom(cm_queue) THEN lost \ DOMAIN changes ELSE lost \cup DOMAIN changes
       /\ modified' = <<>>

(* One turn of worker_thread: a task, and then a look at the clock.        *)
CanvasTask ==
  LET changes == Drawn(Head(canvas_queue).data) IN
  /\ ~crashed
  /\ canvas_queue # <<>>
  /\ canvas_queue' = Tail(canvas_queue)
  /\ pixels' = Overlaid(pixels, changes)
  /\ IF due THEN BroadcastUpdates(Recolored(changes))
     ELSE modified' = Recolored(changes) /\ UNCHANGED <<cm_queue, lost>>
  /\ due' = FALSE
  /\ UNCHANGED <<sockVars, watched, listVars, loop, mgr, told, crashed>>

(* A second passes.                                                        *)
Clock == /\ ~due /\ due' = TRUE
         /\ UNCHANGED <<sockVars, watched, listVars, loop, mgr, pixels, modified, lost, told,
                        crashed, cm_queue, canvas_queue>>

Clients == /\ \E c \in Conns : Client(c)
           /\ UNCHANGED <<world, watched, listVars, loop, mgr, canvasVars, told, crashed, cm_queue,
                          canvas_queue>>

ListNext == EventLoop \/ Manager \/ CanvasTask \/ Clock \/ Clients

ListSpec == ListInit /\ [][ListNext]_listServerVars

(* The threads run, time passes, clients send what they have to send.      *)
ListFairSpec == /\ ListSpec
                /\ WF_listServerVars(EventLoop) /\ WF_listServerVars(Manager) /\ WF_listServerVars(CanvasTask)
                /\ WF_listServerVars(Clock) /\ WF_listServerVars(Clients)
-----------------------------------------------------------------------------
Changes == UNION {[S -> Colors] : S \in SUBSET (1 .. Cells)}

ListTypeOK ==
  /\ NetTypeOK
  /\ watched \subseteq Conns /\ used \subseteq Nodes
  /\ head \in Nodes \cup {Null}
  /\ node \in [Nodes -> [fd : Fds \cup {0}, next : Nodes \cup {Null}]]
  /\ loop.pc \in {"wait", "event", "search", "unlink", "close", "free", "del"}
  /\ {loop.prev, loop.current, mgr.at} \subseteq Nodes \cup {Null}
  /\ mgr.pc \in {"pop", "accept", "register", "insert", "publish", "walk"}
  /\ pixels \in [1 .. Cells -> Colors]
  /\ modified \in Changes /\ mgr.msg \in Changes
  /\ told \in [Conns -> [1 .. Cells -> Colors \cup {Null}]]
  /\ Len(cm_queue) < QueueSize /\ Len(canvas_queue) < QueueSize

(* The nodes that lie behind n, with n: those of every chain it begins.    *)
Chain(S) == \A m \in S : node[m].next \in S \cup {Null}
Behind(n) == {m \in Nodes : \A S \in SUBSET Nodes : n \in S \cup {Null} /\ Chain(S) => m \in S}
Listed == Behind(head)
ConnOf(n) == fds[node[n].fd]

(***************************************************************************)
(* While nobody leaves: what a listed client was told last of a pixel is   *)
(* what the canvas shows, or the new color is on its way to it, in the     *)
(* hash map, a queued task or the walk under way, newest last, unless the  *)
(* broadcast with it found the queue full.                                 *)
(***************************************************************************)
Queued(k) == {i \in DOMAIN cm_queue : /\ cm_queue[i].type = "TASK_BROADCAST"
                                      /\ k \in DOMAIN cm_queue[i].data}
Newest(n, k) ==
  CASE k \in DOMAIN modified -> modified[k]
    [] k \notin DOMAIN modified /\ Queued(k) # {} ->
         cm_queue[CHOOSE i \in Queued(k) : \A j \in Queued(k) : j <= i].data[k]
    [] k \notin DOMAIN modified /\ Queued(k) = {} ->
         IF mgr.pc = "walk" /\ n \in Behind(mgr.at) /\ k \in DOMAIN mgr.msg THEN mgr.msg[k]
         ELSE told[ConnOf(n)][k]

ToldInSync ==
  Leaving \cup Aborting = {} => \A n \in Listed : \A k \in (1 .. Cells) \ lost :
    wire[ConnOf(n)] = "open" /\ told[ConnOf(n)][k] # Null => Newest(n, k) = pixels[k]

(***************************************************************************)
(* The server closes the socket of a client only after the client has      *)
(* closed it, but for one that epoll_ctl did not take: what recv returned  *)
(* for a descriptor, a slow reader or a descriptor that was handed out     *)
(* again do not mislead it.  So it is until a third client goes away (see  *)
(* RemovesOnlyIt).                                                         *)
(***************************************************************************)
Gone == {c \in Conns : peer[c] \notin {"new", "up"}}
Closes(c) == Registered(c) /\ ~Registered(c)'
Refuses(c) == mgr.pc = "register" /\ fds[mgr.fd] = c

RemoveOnlyEnded ==
  [][Cardinality(Gone) <= 2 => \A c \in Conns : Closes(c) /\ ~Refuses(c) => peer[c] # "up"]_listServerVars

(***************************************************************************)
(* removeClient "removes the client" (client_manager.c:211) whose end was  *)
(* reported.  When the list leads to freed memory, the node it has found   *)
(* may become that of a client just accepted before it closes the node's   *)
(* descriptor.                                                             *)
(***************************************************************************)
RemovesOnlyIt ==
  [][\A c \in Conns : Closes(c) /\ loop.pc = "close" => peer[c] # "up"]_listServerVars

(***************************************************************************)
(* What a registered client sends is read, although events are raised only *)
(* once and come in batches, where it sends no more than one recv takes    *)
(* and nobody goes away.                                                   *)
(***************************************************************************)
SegmentsRead ==
  \A c \in Conns :
    Quiet /\ Len(Script[c]) <= RecvUnits /\ c \in watched /\ rx[c] # <<>> ~> rx[c] = <<>>

(***************************************************************************)
(* "Receives data from the client's socket" (main.c:39): what was sent is  *)
(* received, also when it is more than one recv takes.                     *)
(***************************************************************************)
EverythingReceived == \A c \in Conns : c \in watched /\ rx[c] # <<>> ~> rx[c] = <<>>

(***************************************************************************)
(* "Sends the message to all clients" (client_manager.c:238) by walking    *)
(* the list: a client the manager has added and that is connected is in    *)
(* the list.                                                               *)
(***************************************************************************)
ListsEveryClient ==
  \A c \in watched : mgr.pc = "pop" /\ peer[c] = "up" => \E n \in Listed : ConnOf(n) = c

(***************************************************************************)
(* next is "the pointer that points to the next client" (client_manager.h, *)
(* line 11): while no thread is inside addClient or removeClient, every    *)
(* node of the list is one of a client.                                    *)
(***************************************************************************)
NextIsClient ==
  mgr.pc \in {"pop", "walk"} /\ loop.pc \in {"wait", "event"} => Listed \subseteq used

(***************************************************************************)
(* "Registers the client's socket with epoll" (client_manager.c:183): a    *)
(* client that is listed and connected gets its events.                    *)
(***************************************************************************)
ListedWatched ==
  \A n \in Listed : ConnOf(n) \in Conns /\ peer[ConnOf(n)] = "up" => ConnOf(n) \in watched

(***************************************************************************)
(* "Removes the client" (client_manager.c:211): a client whose end was     *)
(* handled is not in the list when the manager is done with it.            *)
(***************************************************************************)
EndedRemoved ==
  loop.pc = "wait" /\ ready = <<>> /\ mgr.pc = "pop" =>
    \A n \in Listed : ConnOf(n) \in Conns => (ConnOf(n) \in watched \/ peer[ConnOf(n)] = "up")
=============================================================================
