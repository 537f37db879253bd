----------------------------- MODULE EventLoop -----------------------------
(***************************************************************************)
(* main.c (1.2v): the thread that waits for events, receives once from     *)
(* every descriptor that is ready, classifies what it got and pushes a     *)
(* task to the client manager.  It never looks at the list of clients and  *)
(* knows a client only by its descriptor.                                  *)
(***************************************************************************)
EXTENDS Queues, Requests

VARIABLES events    \* what epoll_wait returned and the loop has not handled

LoopInit == events = <<>>

(* epoll_wait: what is ready and can (still) be read, in order of arrival. *)
EpollWait == /\ events = <<>>
             /\ \E f \in ToSet(ready) : Readable(f)
             /\ events' = Picked(ready, {i \in DOMAIN ready : Readable(ready[i])})
             /\ ready' = <<>>
             /\ UNCHANGED <<peer, sent, backlog, sock, rx, browserVars>>

(* One task per event of the listening socket. *)
AcceptEvent == /\ events # <<>>
               /\ Head(events) = Listen
               /\ events' = Tail(events)
               /\ cm_queue' = Pushed(cm_queue, [type |-> "NEW_CLIENT", fd |-> 0])
               /\ UNCHANGED netVars

ClientTask(type, fd, data) ==
  [type |-> type, fd |-> fd, conn |-> sock[fd], data |-> data]

(* recv returns 0 at the end of the stream, and -1 on a descriptor with    *)
(* nothing to read or one that has been closed: all mean the same here.    *)
CloseEvent == /\ events # <<>>
              /\ Head(events) # Listen
              /\ LET fd == Head(events) IN
                   /\ sock[fd] # None => rx[sock[fd]] = <<>>
                   /\ cm_queue' = Pushed(cm_queue, ClientTask("CLIENT_CLOSE", fd, <<>>))
              /\ events' = Tail(events)
              /\ UNCHANGED netVars

(***************************************************************************)
(* The type of the task for the bytes of one recv, and "none" for a frame  *)
(* whose opcode process_websocket_frame drops.  is_websocket_frame and     *)
(* process_websocket_frame look at the first frame only.                   *)
(***************************************************************************)
FrameTask(kind) == CASE kind = "pixel" -> "FRAME_MESSAGE"
                     [] kind = "frag"  -> "INCOMPLETE_FRAME"
                     [] kind = "close" -> "WEBSOCKET_CLOSE"
                     [] kind = "cont"  -> "none"

(* At least two bytes, the second with the mask bit set: what a browser    *)
(* sends on a websocket, and nothing it sends before.                      *)
is_websocket_frame(bytes) == Kind(Head(bytes)) \in FrameKinds

TaskType(bytes) ==
  IF is_http_request(bytes)
  THEN IF is_complete_http_request(bytes) THEN "HTTP_REQUEST" ELSE "INCOMPLETE_HTTP"
  ELSE IF is_websocket_frame(bytes) THEN FrameTask(Kind(Head(bytes)))
  ELSE "UNKNOWN_MESSAGE"

(* A frame task carries the payload of the first frame of the bytes; what  *)
(* follows that frame is forgotten.  The other tasks carry all bytes.      *)
TaskData(bytes) ==
  CASE TaskType(bytes) \in {"FRAME_MESSAGE", "INCOMPLETE_FRAME"} -> <<Head(bytes)>>
    [] TaskType(bytes) = "WEBSOCKET_CLOSE" -> <<>>
    [] OTHER -> bytes

Received(c) == SubSeq(rx[c], 1, IF Len(rx[c]) < RecvUnits THEN Len(rx[c]) ELSE RecvUnits)

(* One recv of at most REQUEST_BUFFER_SIZE bytes; what is left stays in    *)
(* the socket, and epoll will not report it again.                         *)
DataEvent ==
  /\ events # <<>>
  /\ Head(events) # Listen
  /\ LET fd == Head(events)
         c  == sock[fd]
     IN  /\ c # None
         /\ rx[c] # <<>>
         /\ rx' = [rx EXCEPT ![c] = SubSeq(@, Len(Received(c)) + 1, Len(@))]
         /\ cm_queue' = IF TaskType(Received(c)) = "none"
                        THEN cm_queue
                        ELSE Pushed(cm_queue, ClientTask(TaskType(Received(c)), fd,
                                                         TaskData(Received(c))))
  /\ events' = Tail(events)
  /\ UNCHANGED <<peer, sent, backlog, sock, ready, browserVars>>

HandleEvent == AcceptEvent \/ CloseEvent \/ DataEvent
=============================================================================
