--------------------------- MODULE ClientManager ---------------------------
(***************************************************************************)
(* client_manager.c and http_handler.c (1.2v): the thread that owns the    *)
(* list of clients.  It pops a task, looks the client up by descriptor and *)
(* runs the handler of the task's type.  One action per task type, and     *)
(* inside it every call the handler makes.  A handler is one step: the     *)
(* list is private to the thread, and what other threads can see of a      *)
(* handler (one push, one change of client_count, the closing of the       *)
(* descriptor) they see through calls that commute with the rest of it.    *)
(***************************************************************************)
EXTENDS Queues, Requests

CONSTANT BufUnits       \* chunks that fit recv_buffer (REQUEST_BUFFER_SIZE)

ASSUME BufUnitsAssumption == BufUnits \in Nat \ {0}

VARIABLES clients,      \* the linked list from cm->head on; each node a record
                        \* [fd, state, buf, ihttp]
          client_count, \* cm->client_count
          crashed       \* the process has dereferenced a null pointer

cmVars == <<clients, client_count, crashed>>

CMInit == /\ clients = <<>>
          /\ client_count = 0
          /\ crashed = FALSE

Task == Head(cm_queue)

(* pop_task of the worker loop, and the switch on the type of the task. *)
Take(type) == /\ ~crashed
              /\ cm_queue # <<>>
              /\ Task.type = type
              /\ cm_queue' = Tail(cm_queue)

(* find_client: the place in the list of the first node with descriptor    *)
(* fd, or 0 for NULL.                                                      *)
find_client(fd) == LET At == {i \in DOMAIN clients : clients[i].fd = fd} IN
                   IF At = {} THEN 0 ELSE CHOOSE i \in At : \A j \in At : i <= j

ConnOf(i) == sock[clients[i].fd]

(***************************************************************************)
(* removeClient for the descriptors F: unlink the node, take the           *)
(* descriptor out of the epoll set, close it.  Bytes not yet received are  *)
(* discarded.                                                              *)
(***************************************************************************)
Close(F) == /\ sock' = [f \in Fds |-> IF f \in F THEN None ELSE sock[f]]
            /\ rx' = [c \in Conns |-> IF \E f \in F : sock[f] = c THEN <<>> ELSE rx[c]]
            /\ ready' = Picked(ready, {i \in DOMAIN ready : ready[i] \notin F})

(* mutant: the descriptor is not closed *)
removeClients_m(F) == /\ clients' = Picked(clients, {i \in DOMAIN clients : clients[i].fd \notin F})
                      /\ UNCHANGED <<peer, sent, backlog, sock, rx, ready>>
removeClients(F) == /\ clients' = Picked(clients, {i \in DOMAIN clients : clients[i].fd \notin F})
                    /\ Close(F)
                    /\ UNCHANGED <<peer, sent, backlog>>

Update(i, client) == clients' = [clients EXCEPT ![i] = client]

Ignore == UNCHANGED <<clients, client_count, crashed, canvas_queue, netVars>>

(* mutant: the task of an unknown client is put back to be tried later *)
NoClient_m(type) == /\ ~crashed /\ cm_queue # <<>> /\ Task.type = type
                    /\ find_client(Task.fd) = 0
                    /\ cm_queue' = Append(Tail(cm_queue), Task)
                    /\ Ignore
(* A task for a descriptor that is in no node is skipped (`continue`). *)
NoClient(type) == /\ Take(type)
                  /\ find_client(Task.fd) = 0
                  /\ Ignore

(***************************************************************************)
(* TASK_NEW_CLIENT                                                         *)
(***************************************************************************)
FreeFds == {f \in Fds : sock[f] = None}
LowestFree == CHOOSE f \in FreeFds : \A g \in FreeFds : f <= g

NewClient(fd) == [fd |-> fd, state |-> "handshake", buf |-> <<>>, ihttp |-> FALSE]

(* accept takes one connection; its node becomes the head of the list.     *)
(* What arrived before EPOLL_CTL_ADD makes the descriptor ready at once.   *)
AddClient ==
  /\ Take("NEW_CLIENT")
  /\ backlog # <<>> /\ FreeFds # {}
  /\ LET fd == LowestFree
         c  == Head(backlog)
     IN  /\ sock' = [sock EXCEPT ![fd] = c]
         /\ ready' = IF rx[c] # <<>> \/ peer[c] = "fin" THEN Append(ready, fd) ELSE ready
         /\ clients' = <<NewClient(fd)>> \o clients
  /\ backlog' = Tail(backlog)
  /\ UNCHANGED <<client_count, crashed, canvas_queue, peer, sent, rx, browserVars>>

(* Making it non-blocking, adding it to epoll or allocating the node       *)
(* fails: the connection is closed again.                                  *)
AddClientFails ==
  /\ Take("NEW_CLIENT")
  /\ backlog # <<>> /\ FreeFds # {}
  /\ backlog' = Tail(backlog)
  /\ rx' = [rx EXCEPT ![Head(backlog)] = <<>>]
  /\ UNCHANGED <<clients, client_count, crashed, canvas_queue, peer, sent, sock, ready, browserVars>>

(* accept has no connection to return, or no descriptor for it. *)
AcceptFails == /\ Take("NEW_CLIENT")
               /\ backlog = <<>> \/ FreeFds = {}
               /\ Ignore

(***************************************************************************)
(* process_buffer, and the requests it completes                           *)
(***************************************************************************)
Fits(i, data) == Len(clients[i].buf) + Len(data) < BufUnits

(* The node is removed; the statements after the call write into it after  *)
(* it has been freed, which reaches no other part of the state.            *)
Overflow(type) == LET i == find_client(Task.fd) IN
                  /\ Take(type)
                  /\ i # 0
                  /\ ~Fits(i, Task.data)
                  /\ removeClients({Task.fd})
                  /\ UNCHANGED <<client_count, crashed, canvas_queue, browserVars>>

Cleared(i) == [clients[i] EXCEPT !.buf = <<>>, !.ihttp = FALSE]

(* mutant: the canvas is not asked for its state *)
Upgrade_m(i) ==
  /\ \E result \in SendResults(ConnOf(i)) : Switched(ConnOf(i), result)
  /\ Update(i, [Cleared(i) EXCEPT !.state = "open"])
  /\ client_count' = client_count + 1
  /\ UNCHANGED <<canvas_queue, crashed, kernelVars, screen, behind>>
(* handle_websocket_upgrade.  The result of sending the 101 response is    *)
(* not looked at.                                                          *)
Upgrade(i) ==
  /\ \E result \in SendResults(ConnOf(i)) : Switched(ConnOf(i), result)
  /\ Update(i, [Cleared(i) EXCEPT !.state = "open"])
  /\ client_count' = client_count + 1
  /\ canvas_queue' = Pushed(canvas_queue, [type |-> "NEW_CLIENT", fd |-> clients[i].fd])
  /\ UNCHANGED <<crashed, kernelVars, screen, behind>>

(* handle_static_file_request, or an error response: nothing but a reply.  *)
Respond(i) == /\ Update(i, Cleared(i))
              /\ UNCHANGED <<client_count, crashed, canvas_queue, netVars>>

HandleHttp(i, req) == IF IsUpgrade(req) THEN Upgrade(i) ELSE Respond(i)

HttpRequest == LET i == find_client(Task.fd) IN
               /\ Take("HTTP_REQUEST")
               /\ i # 0
               /\ Fits(i, Task.data)
               /\ HandleHttp(i, clients[i].buf \o Task.data)

IncompleteHttp == LET i == find_client(Task.fd) IN
                  /\ Take("INCOMPLETE_HTTP")
                  /\ i # 0
                  /\ Fits(i, Task.data)
                  /\ Update(i, [clients[i] EXCEPT !.buf = @ \o Task.data, !.ihttp = TRUE])
                  /\ UNCHANGED <<client_count, crashed, canvas_queue, netVars>>

(* A piece that is neither a request nor a frame counts only if the client *)
(* is in the middle of a request; then whatever has arrived is handled.    *)
UnknownMessage == LET i == find_client(Task.fd)
                      req == clients[i].buf \o Task.data
                  IN  /\ Take("UNKNOWN_MESSAGE")
                      /\ i # 0
                      /\ clients[i].ihttp => Fits(i, Task.data)
                      /\ IF clients[i].ihttp /\ is_http_request(req)
                         THEN HandleHttp(i, req)
                         ELSE Respond(i)

UnknownOverflow == /\ Overflow("UNKNOWN_MESSAGE")
                   /\ clients[find_client(Task.fd)].ihttp

(***************************************************************************)
(* Frames                                                                  *)
(***************************************************************************)
(* mutant: recv_buffer_len is not reset *)
FrameMessage_m ==
  LET i == find_client(Task.fd)
      message == clients[i].buf \o Task.data
  IN  /\ Take("FRAME_MESSAGE")
      /\ i # 0
      /\ Fits(i, Task.data)
      /\ canvas_queue' = Pushed(canvas_queue, [type |-> "PIXEL_UPDATE", fd |-> 0, data |-> message])
      /\ Update(i, [clients[i] EXCEPT !.buf = message])
      /\ UNCHANGED <<client_count, crashed, netVars>>
(* TASK_FRAME_MESSAGE: the buffered fragments and this one are a message.  *)
FrameMessage ==
  LET i == find_client(Task.fd)
      message == clients[i].buf \o Task.data
  IN  /\ Take("FRAME_MESSAGE")
      /\ i # 0
      /\ Fits(i, Task.data)
      /\ canvas_queue' = Pushed(canvas_queue, [type |-> "PIXEL_UPDATE", fd |-> 0, data |-> message])
      /\ Update(i, [clients[i] EXCEPT !.buf = <<>>])
      /\ UNCHANGED <<client_count, crashed, netVars>>

IncompleteFrame == LET i == find_client(Task.fd) IN
                   /\ Take("INCOMPLETE_FRAME")
                   /\ i # 0
                   /\ Fits(i, Task.data)
                   /\ Update(i, [clients[i] EXCEPT !.buf = @ \o Task.data])
                   /\ UNCHANGED <<client_count, crashed, canvas_queue, netVars>>

(* mutant: every closed connection is counted out, websocket or not *)
ClientGone_m == LET i == find_client(Task.fd) IN
                /\ Take("CLIENT_CLOSE")
                /\ i # 0
                /\ removeClients({Task.fd})
                /\ client_count' = client_count - 1
                /\ UNCHANGED <<crashed, canvas_queue, browserVars>>
(* TASK_CLIENT_CLOSE: client_count is left alone. *)
ClientGone == LET i == find_client(Task.fd) IN
              /\ Take("CLIENT_CLOSE")
              /\ i # 0
              /\ removeClients({Task.fd})
              /\ UNCHANGED <<client_count, crashed, canvas_queue, browserVars>>

(* TASK_WEBSOCKET_CLOSE.  The client is not tested for NULL. *)
WebsocketClose == LET i == find_client(Task.fd) IN
                  /\ Take("WEBSOCKET_CLOSE")
                  /\ i # 0
                  /\ IF clients[i].state = "open"
                     THEN removeClients({Task.fd}) /\ client_count' = client_count - 1
                     ELSE UNCHANGED <<clients, client_count, kernelVars>>
                  /\ UNCHANGED <<crashed, canvas_queue, browserVars>>

(***************************************************************************)
(* Messages from the canvas                                                *)
(***************************************************************************)
(* TASK_INIT_CANAVAS.  The client is not tested for NULL. *)
InitCanvas ==
  LET i == find_client(Task.fd) IN
  /\ Take("INIT_CANAVAS")
  /\ i # 0
  /\ \E result \in SendResults(ConnOf(i)) :
       Deliver(Task.data, {}, [c \in {ConnOf(i)} |-> result])
  /\ UNCHANGED <<clients, client_count, crashed, canvas_queue, kernelVars>>

NullClient == /\ Take("INIT_CANAVAS") \/ Take("WEBSOCKET_CLOSE")
              /\ find_client(Task.fd) = 0
              /\ crashed' = TRUE
              /\ UNCHANGED <<clients, client_count, canvas_queue, netVars>>

(***************************************************************************)
(* broadcastClients walks the list while the nodes are open, removes those *)
(* it cannot send to, and reads the next pointer of a node after it was    *)
(* freed: from such a node the walk may go on, or end.                     *)
(***************************************************************************)
OpenPrefix == {i \in DOMAIN clients : \A j \in 1 .. i : clients[j].state = "open"}

Broadcast ==
  /\ Take("BROADCAST")
  /\ \E result \in [OpenPrefix -> {"all", "error", "short"}], last \in OpenPrefix \cup {0} :
       LET Walked == {i \in OpenPrefix : i <= last}
           Failed == {i \in Walked : result[i] = "error"}
       IN  /\ \A i \in OpenPrefix : result[i] \in SendResults(ConnOf(i))
           /\ Walked = OpenPrefix \/ last \in Failed
           /\ Deliver(Task.data, Conns, [c \in {ConnOf(i) : i \in Walked} |->
                                          result[CHOOSE i \in Walked : ConnOf(i) = c]])
           /\ removeClients({clients[i].fd : i \in Failed})
  /\ UNCHANGED <<client_count, crashed, canvas_queue>>

ClientTaskTypes == {"FRAME_MESSAGE", "HTTP_REQUEST", "INCOMPLETE_FRAME",
                    "INCOMPLETE_HTTP", "UNKNOWN_MESSAGE", "CLIENT_CLOSE"}

CMStep == \/ AddClient \/ AddClientFails \/ AcceptFails
          \/ \E type \in ClientTaskTypes : NoClient(type)
          \/ \E type \in ClientTaskTypes \ {"UNKNOWN_MESSAGE", "CLIENT_CLOSE"} : Overflow(type)
          \/ HttpRequest \/ IncompleteHttp \/ UnknownMessage \/ UnknownOverflow
          \/ FrameMessage \/ IncompleteFrame \/ ClientGone \/ WebsocketClose
          \/ InitCanvas \/ NullClient \/ Broadcast
=============================================================================
