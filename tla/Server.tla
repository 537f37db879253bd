------------------------------- MODULE Server -------------------------------
(***************************************************************************)
(* The 1.2v server: the event loop (main.c), the client manager            *)
(* (client_manager.c, http_handler.c) and the canvas (canvas.c,            *)
(* parsing_json.c) run as three threads, joined by two task queues and by  *)
(* the kernel's sockets; context.c starts them.                            *)
(***************************************************************************)
EXTENDS ClientManager, EventLoop, Canvas, FiniteSets, FiniteSetsExt

vars == <<cm_queue, canvas_queue, netVars, cmVars, events, canvasVars>>

Init == /\ cm_queue = <<>>
        /\ canvas_queue = <<>>
        /\ NetInit
        /\ CMInit
        /\ LoopInit
        /\ CanvasInit

(* A null dereference in the client manager ends every thread. *)
Running == ~crashed

CMThread == /\ Running
            /\ CMStep
            /\ UNCHANGED <<world, events, canvasVars>>

LoopThread == /\ Running
              /\ \/ EpollWait /\ UNCHANGED cm_queue
                 \/ HandleEvent
              /\ UNCHANGED <<world, canvas_queue, cmVars, canvasVars>>

CanvasThread == /\ Running
                /\ CanvasStep
                /\ UNCHANGED <<netVars, cmVars, events>>

Clock == Running /\ Tick /\ UNCHANGED <<netVars, cmVars, events>>

Browsers == /\ \E c \in Conns : Browser(c)
            /\ UNCHANGED <<world, cm_queue, canvas_queue, cmVars, events, canvasVars>>

Next == CMThread \/ LoopThread \/ CanvasThread \/ Clock \/ Browsers

(***************************************************************************)
(* The three threads are scheduled and time passes; browsers need not do   *)
(* anything.                                                               *)
(***************************************************************************)
Fairness == /\ WF_vars(CMThread)
            /\ WF_vars(LoopThread)
            /\ WF_vars(CanvasThread)
            /\ WF_vars(Clock)

Spec == Init /\ [][Next]_vars /\ Fairness

(***************************************************************************)
(* Types                                                                   *)
(***************************************************************************)
Chunks == UNION {[conn : {c}, n : DOMAIN Script[c]] : c \in Conns}
States == {"handshake", "open"}
Canvases == [Keys -> Colors]
Patches == UNION {[D -> Colors] : D \in SUBSET Keys}

CMTaskOK(t) == \/ t.type = "NEW_CLIENT"
               \/ t.type = "INIT_CANAVAS" /\ t.fd \in Fds /\ t.data \in Canvases
               \/ t.type = "BROADCAST" /\ t.data \in Patches
               \/ /\ t.type \in ClientTaskTypes \cup {"WEBSOCKET_CLOSE"}
                  /\ t.fd \in Fds
                  /\ t.conn \in Conns \cup {None}
                  /\ t.data \in Seq(Chunks)

CanvasTaskOK(t) == \/ t.type = "NEW_CLIENT" /\ t.fd \in Fds
                   \/ t.type = "PIXEL_UPDATE" /\ t.data \in Seq(Chunks)

(* Type invariant of the whole server. *)
TypeOK == /\ cm_queue \in Seq(Range(cm_queue)) /\ \A i \in DOMAIN cm_queue : CMTaskOK(cm_queue[i])
          /\ canvas_queue \in Seq(Range(canvas_queue))
          /\ \A i \in DOMAIN canvas_queue : CanvasTaskOK(canvas_queue[i])
          /\ world \in DOMAIN Worlds
          /\ peer \in [Conns -> {"new", "up", "fin"}]
          /\ sent \in [Conns -> Nat] /\ \A c \in Conns : sent[c] <= Len(Script[c])
          /\ wire \in [Conns -> {"http", "websocket", "broken"}]
          /\ screen \in [Conns -> [Keys -> Colors \cup {None}]]
          /\ behind \in [Conns -> SUBSET Keys]
          /\ backlog \in Seq(Conns)
          /\ sock \in [Fds -> Conns \cup {None}]
          /\ rx \in [Conns -> Seq(Chunks)]
          /\ ready \in Seq(Fds \cup {Listen})
          /\ events \in Seq(Fds \cup {Listen})
          /\ clients \in Seq([fd : Fds, state : States, buf : Seq(Chunks), ihttp : BOOLEAN])
          /\ client_count \in Int
          /\ crashed \in BOOLEAN
          /\ pixels \in Canvases
          /\ modified_pixels \in Patches
          /\ canvas_pc \in {"pop", "timers"}
          /\ due \in BOOLEAN
          /\ lost \subseteq Keys

(***************************************************************************)
(* Safety                                                                  *)
(***************************************************************************)
(* addClient and removeClient keep the list and the sockets together: the  *)
(* open descriptors are exactly those of the nodes, one node each, and two *)
(* descriptors never share a connection.  Otherwise a descriptor leaks, or *)
(* a node outlives its socket and answers for the next one.                *)
ListMatchesSockets ==
  /\ {clients[i].fd : i \in DOMAIN clients} = {f \in Fds : sock[f] # None}
  /\ \A i, j \in DOMAIN clients : clients[i].fd = clients[j].fd => i = j
  /\ \A f, g \in Fds : sock[f] = sock[g] /\ sock[f] # None => f = g

OpenClients == {i \in DOMAIN clients : clients[i].state = "open"}

(* The count shown to the users never falls below the number of open       *)
(* websockets, whatever the order of upgrades, close frames and losses.    *)
CountNeverUnder == client_count >= Cardinality(OpenClients)

(* The chunks sent to the server that it has not finished with are in the  *)
(* data of tasks, the buffers of the nodes and the sockets.                *)
Data(t) == IF t.type \in {"NEW_CLIENT", "INIT_CANAVAS", "BROADCAST"} THEN <<>> ELSE t.data
Queued(q) == UNION {Range(Data(q[i])) : i \in DOMAIN q}
Buffered == UNION {Range(clients[i].buf) : i \in DOMAIN clients}
Unreceived == UNION {Range(rx[c]) : c \in Conns}

(* No connection sent a chunk of T before, or as, one of S. *)
Precede(S, T) == \A x \in S, y \in T : x.conn = y.conn => x.n < y.n

InOrder(s) == \A i, j \in DOMAIN s : i < j => Precede({s[i]}, {s[j]})

QueueInOrder(q) == \A i \in DOMAIN q :
                     /\ InOrder(Data(q[i]))
                     /\ \A j \in DOMAIN q : i < j => Precede(Range(Data(q[i])), Range(Data(q[j])))

(* Through two queues, a reassembly buffer and descriptors that are used   *)
(* again, nothing a client sent overtakes or repeats what it sent before:  *)
(* the pipeline from the canvas's end to the socket's holds it in the      *)
(* order it was sent, and no two nodes hold parts of it.                   *)
PipelineOrder ==
  /\ QueueInOrder(canvas_queue)
  /\ \A i \in DOMAIN clients : InOrder(clients[i].buf)
  /\ \A i, j \in DOMAIN clients : i # j => Precede(Range(clients[i].buf), Range(clients[j].buf))
  /\ QueueInOrder(cm_queue)
  /\ \A c \in Conns : InOrder(rx[c])
  /\ Precede(Queued(canvas_queue), Buffered \cup Queued(cm_queue) \cup Unreceived)
  /\ Precede(Buffered, Queued(cm_queue) \cup Unreceived)
  /\ Precede(Queued(cm_queue), Unreceived)

(* process_json writes a color to the pixel and to the hash map: what the  *)
(* next broadcast will say is what a new client would be shown.            *)
ModifiedMatchesCanvas == \A k \in DOMAIN modified_pixels : modified_pixels[k] = pixels[k]

Settled == Keys \ (DOMAIN modified_pixels \cup lost)

Mentions(i, k) == /\ cm_queue[i].type \in {"INIT_CANAVAS", "BROADCAST"}
                  /\ k \in DOMAIN cm_queue[i].data
Supersedes(i, k) == cm_queue[i].type = "BROADCAST" /\ k \in DOMAIN cm_queue[i].data

(* A snapshot of the canvas and broadcasts of changes share one queue: for *)
(* each pixel the last word in the queue is the color on the canvas,       *)
(* unless a change is still to be broadcast or its broadcast was dropped.  *)
MessagesCurrent ==
  \A i \in DOMAIN cm_queue : \A k \in Settled :
    Mentions(i, k) /\ (\A j \in DOMAIN cm_queue : j > i => ~Supersedes(j, k))
      => cm_queue[i].data[k] = pixels[k]

(* A browser that was sent the canvas and every change since shows what    *)
(* the canvas holds, once no change is on its way: joining while others    *)
(* draw loses nothing, and what a page painted itself when it was clicked  *)
(* gives way to what the server then sends of that pixel, in the right     *)
(* order.                                                                  *)
ReplicaInSync ==
  \A c \in opened : \A k \in Settled \ behind[c] :
    (\A j \in DOMAIN cm_queue : ~Supersedes(j, k)) => screen[c][k] = pixels[k]

(***************************************************************************)
(* Liveness                                                                *)
(***************************************************************************)
Idle == cm_queue = <<>> /\ canvas_queue = <<>> /\ events = <<>>

(* The two workers push into each other's queues, yet once the browsers    *)
(* are quiet the queues run empty.                                         *)
QueuesSettle == <>[](crashed \/ Idle)

(* A browser whose websocket was opened is sent the canvas, unless one of  *)
(* the two sides closes the connection or the websocket breaks.            *)
CanvasArrives ==
  \A c \in Conns : c \in opened ~>
    \/ \A k \in Keys : screen[c][k] # None
    \/ c \notin opened \/ c \notin Accepted \/ peer[c] = "fin" \/ crashed

(***************************************************************************)
(* What the comments in the code say                                       *)
(***************************************************************************)
(* client_manager.c:407, "send a message to all clients": a browser with   *)
(* an open websocket does not fall behind when a broadcast is handled,     *)
(* unless its connection is removed or its websocket breaks.               *)
BroadcastReachesAll ==
  [][Take("BROADCAST") =>
       \A i \in OpenClients : LET c == ConnOf(i) IN
         c \in opened' /\ (\E f \in Fds : sock'[f] = c) => behind'[c] \subseteq behind[c]]_vars

(* client_manager.h:45, "number of connected clients". *)
CountIsConnected == client_count = Cardinality(OpenClients)

(* main.c:182, "client disconnected", for the CLIENT_CLOSE task: only a    *)
(* connection that its client has closed is removed by one.                *)
CloseOnlyEnded ==
  [][Take("CLIENT_CLOSE") /\ find_client(Task.fd) # 0
       => peer[sock[Task.fd]] = "fin"]_vars

(* No task finds the client of a message or a close frame missing. *)
NoNullClient == ~crashed

(* canvas.c:28, "broadcast updates at regular intervals". *)
BroadcastPeriodically == \A k \in Keys : k \in DOMAIN modified_pixels ~> k \notin DOMAIN modified_pixels \/ crashed

(* main.c:170, "handle a new client connection". *)
EveryConnectionAccepted ==
  \A c \in Conns : Contains(backlog, c) ~> ~Contains(backlog, c) \/ crashed

(* task_queue.h:16, a FRAME_MESSAGE is "complete, or the last fragment":   *)
(* receiving a last fragment produces such a task.                         *)
LastFragmentDelivered ==
  [][DataEvent /\ HasRoom(cm_queue) /\ Kind(Head(rx[sock[Head(events)]])) = "cont"
       => cm_queue' # cm_queue]_vars
=============================================================================
