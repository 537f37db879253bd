---------------------------- MODULE ServerProofs ----------------------------
(***************************************************************************)
(* The safety of the 1.2v server, for every set of connections, pixels     *)
(* and colors, every script and every queue size.                          *)
(*                                                                         *)
(*  - What the browsers show.  ReplicaInSync speaks of browsers,           *)
(*    MessagesCurrent of the queue to the client manager,                  *)
(*    ModifiedMatchesCanvas of the canvas: each is what the one before it  *)
(*    needs when something is handed on.                                   *)
(*  - The types, which the rest takes for granted.                         *)
(*  - The list of clients: it agrees with the open descriptors             *)
(*    (SocketsFit), and the count never falls below its open websockets.   *)
(*  - The order of what a client sends (PipeOK): no connection is carried  *)
(*    by two descriptors, one the server was not handed yet by none.       *)
(***************************************************************************)
EXTENDS Server, SequenceTheorems, FiniteSetTheorems, WellFoundedInduction, NaturalsInduction, TLAPS

IsSeq(q) == q \in Seq(Range(q))

(* What a message holds, as far as the proof needs it. *)
Shapes == /\ IsSeq(cm_queue)
          /\ \A i \in DOMAIN cm_queue :
               cm_queue[i].type = "INIT_CANAVAS" => DOMAIN cm_queue[i].data = Keys
          /\ DOMAIN pixels = Keys
          /\ DOMAIN modified_pixels \subseteq Keys
          /\ DOMAIN behind = Conns
          /\ DOMAIN wire = Conns
          /\ DOMAIN screen = Conns
          /\ \A c \in Conns : DOMAIN screen[c] = Keys

(* A browser that waits for its websocket has been sent nothing. *)
NothingSent == \A c \in Conns : wire[c] = "http" => Keys \subseteq behind[c]

IInv == /\ Shapes
        /\ ModifiedMatchesCanvas
        /\ MessagesCurrent
        /\ NothingSent
        /\ ReplicaInSync

canvasKept == UNCHANGED <<pixels, modified_pixels, lost>>

-----------------------------------------------------------------------------
(* Queues                                                                  *)

LEMMA AppendSeq ==
  ASSUME NEW q, IsSeq(q), NEW e
  PROVE  /\ IsSeq(Append(q, e))
         /\ DOMAIN q = 1 .. Len(q) /\ Len(q) \in Nat
         /\ DOMAIN Append(q, e) = 1 .. Len(q) + 1
         /\ \A i \in 1 .. Len(q) : Append(q, e)[i] = q[i]
         /\ Append(q, e)[Len(q) + 1] = e
<1> DEFINE S == Range(q) \cup {e}
           t == Append(q, e)
<1>1. q \in Seq(S)
  BY SeqMonotonic DEF IsSeq
<1>2. /\ t \in Seq(S)
      /\ Len(t) = Len(q) + 1
      /\ \A i \in 1 .. Len(q) : t[i] = q[i]
      /\ t[Len(q) + 1] = e
  BY <1>1, AppendProperties
<1>3. /\ Len(q) \in Nat /\ DOMAIN q = 1 .. Len(q)
      /\ Len(t) \in Nat /\ t \in [1 .. Len(t) -> S] /\ DOMAIN t = 1 .. Len(t)
  BY <1>1, <1>2, LenProperties
<1>4. t \in [1 .. Len(t) -> Range(t)]
  BY <1>3 DEF Range
<1>5. t \in Seq(Range(t))
  BY <1>3, <1>4, SeqDef
<1> QED BY <1>2, <1>3, <1>5 DEF IsSeq

LEMMA TailSeq ==
  ASSUME NEW q, IsSeq(q), q # <<>>
  PROVE  /\ IsSeq(Tail(q))
         /\ DOMAIN q = 1 .. Len(q) /\ Len(q) \in Nat \ {0}
         /\ DOMAIN Tail(q) = 1 .. Len(q) - 1
         /\ \A i \in 1 .. Len(q) - 1 : Tail(q)[i] = q[i + 1]
         /\ Head(q) = q[1]
<1> DEFINE t == Tail(q)
<1>1. /\ t \in Seq(Range(q))
      /\ Len(t) = Len(q) - 1
      /\ \A i \in 1 .. Len(t) : t[i] = q[i + 1]
  BY HeadTailProperties DEF IsSeq
<1>2. Len(q) \in Nat \ {0} /\ DOMAIN q = 1 .. Len(q)
  BY LenProperties, EmptySeq DEF IsSeq
<1>3. Len(t) \in Nat /\ t \in [1 .. Len(t) -> Range(q)] /\ DOMAIN t = 1 .. Len(t)
  BY <1>1, LenProperties
<1>4. t \in [1 .. Len(t) -> Range(t)]
  BY <1>3 DEF Range
<1>5. t \in Seq(Range(t))
  BY <1>3, <1>4, SeqDef
<1>6. Head(q) = q[1]
  BY <1>2 DEF IsSeq
<1> QED BY <1>1, <1>2, <1>3, <1>5, <1>6 DEF IsSeq

-----------------------------------------------------------------------------
(* Messages                                                                *)

(* No broadcast in the queue sets pixel k. *)
NoneQueued(k) == \A j \in DOMAIN cm_queue : ~Supersedes(j, k)

QueueShape == /\ IsSeq(cm_queue)
              /\ \A i \in DOMAIN cm_queue :
                   cm_queue[i].type = "INIT_CANAVAS" => DOMAIN cm_queue[i].data = Keys

(* A task from a client says nothing about the canvas. *)
LEMMA PushTask ==
  ASSUME IInv, NEW task, task.type \notin {"INIT_CANAVAS", "BROADCAST"},
         cm_queue' = Pushed(cm_queue, task), canvasKept
  PROVE  QueueShape' /\ MessagesCurrent' /\ \A k : NoneQueued(k)' => NoneQueued(k)
<1>1. CASE cm_queue' = cm_queue
  BY <1>1 DEF IInv, Shapes, QueueShape, MessagesCurrent, NoneQueued, canvasKept, Settled,
              Mentions, Supersedes, IsSeq
<1>2. CASE cm_queue' = Append(cm_queue, task)
  <2>1. /\ IsSeq(cm_queue)'
        /\ DOMAIN cm_queue = 1 .. Len(cm_queue) /\ Len(cm_queue) \in Nat
        /\ DOMAIN cm_queue' = 1 .. Len(cm_queue) + 1
        /\ \A i \in 1 .. Len(cm_queue) : cm_queue'[i] = cm_queue[i]
        /\ cm_queue'[Len(cm_queue) + 1] = task
    BY <1>2, AppendSeq DEF IInv, Shapes, IsSeq
  <2>2. QueueShape'
    BY <2>1 DEF IInv, Shapes, QueueShape
  <2>3. \A k : NoneQueued(k)' => NoneQueued(k)
    BY <2>1 DEF NoneQueued, Supersedes
  <2>4. MessagesCurrent'
    <3> SUFFICES ASSUME NEW i \in DOMAIN cm_queue', NEW k \in Settled', Mentions(i, k)',
                        \A j \in DOMAIN cm_queue' : j > i => ~Supersedes(j, k)'
                 PROVE  cm_queue'[i].data[k] = pixels'[k]
      BY DEF MessagesCurrent
    <3>1. i \in DOMAIN cm_queue /\ k \in Settled /\ Mentions(i, k)
      BY <2>1 DEF Mentions, Settled, canvasKept
    <3>2. \A j \in DOMAIN cm_queue : j > i => ~Supersedes(j, k)
      BY <2>1 DEF Supersedes
    <3>3. cm_queue[i].data[k] = pixels[k]
      BY <3>1, <3>2 DEF IInv, MessagesCurrent
    <3> QED BY <2>1, <3>1, <3>3 DEF canvasKept
  <2> QED BY <2>2, <2>3, <2>4
<1> QED BY <1>1, <1>2 DEF Pushed

(* The client manager takes the oldest task.  What it says of pixel k is   *)
(* what the canvas holds, unless a later broadcast speaks of k.            *)
LEMMA TakeTask ==
  ASSUME IInv, cm_queue # <<>>, cm_queue' = Tail(cm_queue), canvasKept
  PROVE  /\ QueueShape' /\ MessagesCurrent'
         /\ \A k : NoneQueued(k)' /\ ~Supersedes(1, k) => NoneQueued(k)
         /\ \A k \in Settled : Mentions(1, k) /\ NoneQueued(k)' => Task.data[k] = pixels[k]
         /\ Task = cm_queue[1] /\ 1 \in DOMAIN cm_queue
<1>1. /\ IsSeq(cm_queue)'
      /\ DOMAIN cm_queue = 1 .. Len(cm_queue) /\ Len(cm_queue) \in Nat \ {0}
      /\ DOMAIN cm_queue' = 1 .. Len(cm_queue) - 1
      /\ \A i \in 1 .. Len(cm_queue) - 1 : cm_queue'[i] = cm_queue[i + 1]
      /\ Task = cm_queue[1]
  BY TailSeq DEF IInv, Shapes, IsSeq, Task
<1>2. QueueShape'
  BY <1>1 DEF IInv, Shapes, QueueShape
<1>3. ASSUME NEW j \in DOMAIN cm_queue, NEW k, j # 1, Supersedes(j, k)
      PROVE  j - 1 \in DOMAIN cm_queue' /\ Supersedes(j - 1, k)'
  <2>1. j - 1 \in 1 .. Len(cm_queue) - 1 /\ (j - 1) + 1 = j
    BY <1>1, <1>3
  <2>2. cm_queue'[j - 1] = cm_queue[j]
    BY <1>1, <2>1
  <2> QED BY <1>1, <1>3, <2>1, <2>2 DEF Supersedes
<1>4. \A k : NoneQueued(k)' /\ ~Supersedes(1, k) => NoneQueued(k)
  BY <1>3 DEF NoneQueued
<1>5. MessagesCurrent'
  <2> SUFFICES ASSUME NEW i \in DOMAIN cm_queue', NEW k \in Settled', Mentions(i, k)',
                      \A j \in DOMAIN cm_queue' : j > i => ~Supersedes(j, k)'
               PROVE  cm_queue'[i].data[k] = pixels'[k]
    BY DEF MessagesCurrent
  <2>1. i + 1 \in DOMAIN cm_queue /\ k \in Settled /\ Mentions(i + 1, k)
    BY <1>1 DEF Mentions, Settled, canvasKept
  <2>2. ASSUME NEW j \in DOMAIN cm_queue, j > i + 1 PROVE ~Supersedes(j, k)
    <3>1. j # 1 /\ j - 1 > i
      BY <1>1, <2>2
    <3> QED BY <1>3, <3>1
  <2>3. cm_queue[i + 1].data[k] = pixels[k]
    BY <2>1, <2>2 DEF IInv, MessagesCurrent
  <2> QED BY <1>1, <2>3 DEF canvasKept
<1>6. ASSUME NEW k \in Settled, Mentions(1, k), NoneQueued(k)'
      PROVE  Task.data[k] = pixels[k]
  <2>1. ASSUME NEW j \in DOMAIN cm_queue, j > 1 PROVE ~Supersedes(j, k)
    <3>1. j # 1
      BY <1>1, <2>1
    <3> QED BY <1>3, <1>6, <3>1 DEF NoneQueued
  <2>2. 1 \in DOMAIN cm_queue
    BY <1>1
  <2> QED BY <1>1, <1>6, <2>1, <2>2 DEF IInv, MessagesCurrent
<1> QED BY <1>1, <1>2, <1>4, <1>5, <1>6

-----------------------------------------------------------------------------
(* Browsers                                                                *)

BrowserShape == /\ DOMAIN behind = Conns
                /\ DOMAIN wire = Conns
                /\ DOMAIN screen = Conns
                /\ \A c \in Conns : DOMAIN screen[c] = Keys

CanvasShape == DOMAIN pixels = Keys /\ DOMAIN modified_pixels \subseteq Keys

(* A step that delivers nothing: a browser gets no websocket but by a 101, *)
(* and what it paints itself it no longer has from the server.             *)
NothingDelivered ==
  \A c \in Conns : /\ wire'[c] = "http" => wire[c] = "http"
                   /\ wire'[c] = "websocket" => wire[c] \in {"http", "websocket"}
                   /\ behind[c] \subseteq behind'[c]
                   /\ \A k \in Keys \ behind'[c] : screen'[c][k] = screen[c][k]

LEMMA ReplicaKept ==
  ASSUME IInv, NothingDelivered,
         \A k \in Settled' : NoneQueued(k)' => /\ k \in Settled /\ NoneQueued(k)
                                               /\ pixels'[k] = pixels[k]
  PROVE  NothingSent' /\ ReplicaInSync'
<1>1. NothingSent'
  BY DEF IInv, NothingSent, NothingDelivered
<1>2. ReplicaInSync'
  <2> SUFFICES ASSUME NEW c \in Conns, wire'[c] = "websocket",
                      NEW k \in Settled', k \notin behind'[c], NoneQueued(k)'
               PROVE  screen'[c][k] = pixels'[k]
    BY DEF ReplicaInSync, opened, NoneQueued
  <2>1. k \in Settled /\ NoneQueued(k) /\ pixels'[k] = pixels[k] /\ k \in Keys
    BY DEF Settled
  <2>2. k \notin behind[c] /\ screen'[c][k] = screen[c][k]
    BY <2>1 DEF NothingDelivered
  <2>3. wire[c] = "websocket"
    BY <2>1, <2>2 DEF NothingDelivered, IInv, NothingSent
  <2> QED BY <2>1, <2>2, <2>3 DEF IInv, ReplicaInSync, opened, NoneQueued
<1> QED BY <1>1, <1>2

(* The parts of the invariant make the whole. *)
LEMMA Whole ==
  ASSUME QueueShape', BrowserShape', CanvasShape', ModifiedMatchesCanvas', MessagesCurrent',
         NothingSent', ReplicaInSync'
  PROVE  IInv'
BY DEF IInv, Shapes, QueueShape, BrowserShape, CanvasShape

LEMMA CanvasKept == ASSUME IInv, canvasKept PROVE CanvasShape' /\ ModifiedMatchesCanvas' /\ Settled' = Settled
BY DEF IInv, Shapes, CanvasShape, canvasKept, ModifiedMatchesCanvas, Settled

-----------------------------------------------------------------------------
(* The canvas                                                              *)

LEMMA BrowsersKept == ASSUME IInv, UNCHANGED browserVars PROVE BrowserShape' /\ NothingDelivered
BY DEF IInv, Shapes, BrowserShape, NothingDelivered, browserVars

(* A pixel that is set is modified, and not settled until it is broadcast. *)
LEMMA PixelUpdateKeeps ==
  ASSUME IInv, PixelUpdate, UNCHANGED browserVars
  PROVE  IInv'
<1> DEFINE ch == Changes(CanvasTask.data)
<1>1. DOMAIN ch \subseteq Keys
  BY DEF Changes
<1>2. /\ pixels' = Overlaid(pixels, ch) /\ modified_pixels' = Overlaid(modified_pixels, ch)
      /\ cm_queue' = cm_queue /\ lost' = lost
  BY DEF PixelUpdate
<1> HIDE DEF ch
<1>3. CanvasShape'
  BY <1>1, <1>2 DEF IInv, Shapes, CanvasShape, Overlaid
<1>4. ModifiedMatchesCanvas'
  BY <1>1, <1>2 DEF IInv, Shapes, ModifiedMatchesCanvas, Overlaid
<1>5. \A k \in Settled' : k \in Settled /\ pixels'[k] = pixels[k]
  BY <1>1, <1>2 DEF IInv, Shapes, Settled, Overlaid
<1>6. MessagesCurrent'
  BY <1>2, <1>5 DEF IInv, MessagesCurrent, Mentions, Supersedes
<1>7. \A k : NoneQueued(k)' <=> NoneQueued(k)
  BY <1>2 DEF NoneQueued, Supersedes
<1>8. QueueShape'
  BY <1>2 DEF IInv, Shapes, QueueShape, IsSeq
<1>9. BrowserShape' /\ NothingDelivered
  BY BrowsersKept
<1>10. NothingSent' /\ ReplicaInSync'
  BY <1>5, <1>7, <1>9, ReplicaKept
<1> QED BY <1>3, <1>4, <1>6, <1>8, <1>9, <1>10, Whole

(* A message of the canvas goes to the end of the queue.                   *)
LEMMA PushMessage ==
  ASSUME IInv, NEW message, message.type \in {"INIT_CANAVAS", "BROADCAST"},
         message.type = "INIT_CANAVAS" => DOMAIN message.data = Keys,
         cm_queue' = Append(cm_queue, message), pixels' = pixels,
         \A k \in Settled' : \/ k \in Settled
                             \/ message.type = "BROADCAST" /\ k \in DOMAIN message.data,
         \A k \in Settled' \cap DOMAIN message.data : message.data[k] = pixels[k]
  PROVE  /\ QueueShape' /\ MessagesCurrent'
         /\ \A k \in Settled' : NoneQueued(k)' => k \in Settled /\ NoneQueued(k)
<1>1. /\ IsSeq(cm_queue)'
      /\ DOMAIN cm_queue = 1 .. Len(cm_queue) /\ Len(cm_queue) \in Nat
      /\ DOMAIN cm_queue' = 1 .. Len(cm_queue) + 1
      /\ \A i \in 1 .. Len(cm_queue) : cm_queue'[i] = cm_queue[i]
      /\ cm_queue'[Len(cm_queue) + 1] = message
  BY AppendSeq DEF IInv, Shapes, IsSeq
<1>2. QueueShape'
  BY <1>1 DEF IInv, Shapes, QueueShape
<1>3. ASSUME NEW k, NoneQueued(k)' PROVE NoneQueued(k) /\ ~(message.type = "BROADCAST" /\ k \in DOMAIN message.data)
  <2>1. Len(cm_queue) + 1 \in DOMAIN cm_queue'
    BY <1>1
  <2> QED BY <1>1, <1>3, <2>1 DEF NoneQueued, Supersedes
<1>4. MessagesCurrent'
  <2> SUFFICES ASSUME NEW i \in DOMAIN cm_queue', NEW k \in Settled', Mentions(i, k)',
                      \A j \in DOMAIN cm_queue' : j > i => ~Supersedes(j, k)'
               PROVE  cm_queue'[i].data[k] = pixels'[k]
    BY DEF MessagesCurrent
  <2>1. CASE i = Len(cm_queue) + 1
    BY <1>1, <2>1 DEF Mentions
  <2>2. CASE i # Len(cm_queue) + 1
    <3>1. i \in DOMAIN cm_queue /\ i < Len(cm_queue) + 1 /\ Len(cm_queue) + 1 \in DOMAIN cm_queue'
      BY <1>1, <2>2
    <3>2. ~(message.type = "BROADCAST" /\ k \in DOMAIN message.data)
      BY <1>1, <3>1 DEF Supersedes
    <3>3. k \in Settled /\ Mentions(i, k)
      BY <1>1, <3>1, <3>2 DEF Mentions
    <3>4. \A j \in DOMAIN cm_queue : j > i => ~Supersedes(j, k)
      BY <1>1 DEF Supersedes
    <3>5. cm_queue[i].data[k] = pixels[k]
      BY <3>1, <3>3, <3>4 DEF IInv, MessagesCurrent
    <3> QED BY <1>1, <3>1, <3>5
  <2> QED BY <2>1, <2>2
<1> QED BY <1>2, <1>3, <1>4

LEMMA SendCanvasKeeps ==
  ASSUME IInv, SendCanvas, UNCHANGED browserVars
  PROVE  IInv'
<1> DEFINE message == [type |-> "INIT_CANAVAS", fd |-> CanvasTask.fd, data |-> trans_canvas_as_json]
<1>1. canvasKept /\ cm_queue' = Pushed(cm_queue, message)
  BY DEF SendCanvas, canvasKept
<1>2. message.type = "INIT_CANAVAS" /\ message.data = pixels
  BY DEF trans_canvas_as_json
<1> HIDE DEF message
<1>3. CanvasShape' /\ ModifiedMatchesCanvas' /\ Settled' = Settled /\ pixels' = pixels
  BY <1>1, CanvasKept DEF canvasKept
<1>4. /\ QueueShape' /\ MessagesCurrent'
      /\ \A k \in Settled' : NoneQueued(k)' => k \in Settled /\ NoneQueued(k)
  <2>1. CASE cm_queue' = cm_queue
    BY <1>3, <2>1 DEF IInv, Shapes, QueueShape, MessagesCurrent, NoneQueued, Mentions, Supersedes, IsSeq
  <2>2. CASE cm_queue' = Append(cm_queue, message)
    <3>1. DOMAIN message.data = Keys
      BY <1>2 DEF IInv, Shapes
    <3> QED BY <1>2, <1>3, <2>2, <3>1, PushMessage
  <2> QED BY <1>1, <2>1, <2>2 DEF Pushed
<1>5. BrowserShape' /\ NothingDelivered
  BY BrowsersKept
<1>6. NothingSent' /\ ReplicaInSync'
  BY <1>3, <1>4, <1>5, ReplicaKept
<1> QED BY <1>3, <1>4, <1>5, <1>6, Whole

(* What was modified is in the message, or lost with it. *)
LEMMA BroadcastUpdatesKeeps ==
  ASSUME IInv, BroadcastUpdates, pixels' = pixels, UNCHANGED browserVars
  PROVE  IInv'
<1> DEFINE message == [type |-> "BROADCAST", fd |-> 0, data |-> modified_pixels]
<1>1. /\ cm_queue' = Pushed(cm_queue, message)
      /\ lost' = IF HasRoom(cm_queue) THEN lost \ DOMAIN modified_pixels
                                      ELSE lost \cup DOMAIN modified_pixels
      /\ modified_pixels' = <<>>
  BY DEF BroadcastUpdates
<1>2. message.type = "BROADCAST" /\ message.data = modified_pixels
  OBVIOUS
<1> HIDE DEF message
<1>3. DOMAIN modified_pixels' = {}
  BY <1>1
<1>4. CanvasShape' /\ ModifiedMatchesCanvas'
  BY <1>3 DEF IInv, Shapes, CanvasShape, ModifiedMatchesCanvas
<1>5. /\ QueueShape' /\ MessagesCurrent'
      /\ \A k \in Settled' : NoneQueued(k)' => k \in Settled /\ NoneQueued(k)
  <2>1. CASE HasRoom(cm_queue)
    <3>1. cm_queue' = Append(cm_queue, message)
      BY <1>1, <2>1 DEF Pushed
    <3>2. \A k \in Settled' : k \in Settled \/ k \in DOMAIN message.data
      BY <1>1, <1>2, <1>3, <2>1 DEF Settled
    <3>3. \A k \in DOMAIN message.data : message.data[k] = pixels[k]
      BY <1>2 DEF IInv, ModifiedMatchesCanvas
    <3> QED BY <1>2, <3>1, <3>2, <3>3, PushMessage
  <2>2. CASE ~HasRoom(cm_queue)
    <3>1. cm_queue' = cm_queue
      BY <1>1, <2>2 DEF Pushed
    <3>2. Settled' = Settled \ DOMAIN modified_pixels
      BY <1>1, <1>3, <2>2 DEF Settled
    <3> QED BY <3>1, <3>2 DEF IInv, Shapes, QueueShape, MessagesCurrent, NoneQueued, Mentions,
                              Supersedes, IsSeq
  <2> QED BY <2>1, <2>2
<1>6. BrowserShape' /\ NothingDelivered
  BY BrowsersKept
<1>7. NothingSent' /\ ReplicaInSync'
  BY <1>5, <1>6, ReplicaKept
<1> QED BY <1>4, <1>5, <1>6, <1>7, Whole

(* A step that leaves queue and canvas alone and delivers nothing.         *)
LEMMA QuietStepKeeps ==
  ASSUME IInv, cm_queue' = cm_queue, canvasKept, BrowserShape', NothingDelivered
  PROVE  IInv'
<1>1. CanvasShape' /\ ModifiedMatchesCanvas' /\ Settled' = Settled /\ pixels' = pixels
  BY CanvasKept DEF canvasKept
<1>2. QueueShape' /\ MessagesCurrent' /\ \A k : NoneQueued(k)' => NoneQueued(k)
  BY <1>1 DEF IInv, Shapes, QueueShape, MessagesCurrent, NoneQueued, Mentions, Supersedes, IsSeq
<1>3. NothingSent' /\ ReplicaInSync'
  BY <1>1, <1>2, ReplicaKept
<1> QED BY <1>1, <1>2, <1>3, Whole

LEMMA CanvasThreadKeeps == ASSUME IInv, CanvasThread PROVE IInv'
<1>1. UNCHANGED browserVars
  BY DEF CanvasThread, netVars, browserVars
<1>2. CASE PixelUpdate
  BY <1>1, <1>2, PixelUpdateKeeps
<1>3. CASE SendCanvas
  BY <1>1, <1>3, SendCanvasKeeps
<1>4. CASE Timers
  <2>1. CASE BroadcastUpdates
    BY <1>1, <1>4, <2>1, BroadcastUpdatesKeeps DEF Timers
  <2>2. CASE UNCHANGED <<cm_queue, lost, modified_pixels>>
    BY <1>1, <1>4, <2>2, BrowsersKept, QuietStepKeeps DEF Timers, canvasKept
  <2> QED BY <1>4, <2>1, <2>2 DEF Timers
<1> QED BY <1>2, <1>3, <1>4 DEF CanvasThread, CanvasStep

-----------------------------------------------------------------------------
(* The event loop                                                          *)

LEMMA PushStepKeeps ==
  ASSUME IInv, NEW task, task.type \notin {"INIT_CANAVAS", "BROADCAST"},
         cm_queue' = Pushed(cm_queue, task), canvasKept, UNCHANGED browserVars
  PROVE  IInv'
<1>1. CanvasShape' /\ ModifiedMatchesCanvas' /\ Settled' = Settled /\ pixels' = pixels
  BY CanvasKept DEF canvasKept
<1>2. QueueShape' /\ MessagesCurrent' /\ \A k : NoneQueued(k)' => NoneQueued(k)
  BY PushTask
<1>3. BrowserShape' /\ NothingDelivered
  BY BrowsersKept
<1>4. NothingSent' /\ ReplicaInSync'
  BY <1>1, <1>2, <1>3, ReplicaKept
<1> QED BY <1>1, <1>2, <1>3, <1>4, Whole

LEMMA TaskTypes == \A bytes : TaskType(bytes) \notin {"INIT_CANAVAS", "BROADCAST"}
BY DEF TaskType, FrameTask, is_websocket_frame, FrameKinds

LEMMA LoopThreadKeeps == ASSUME IInv, LoopThread PROVE IInv'
<1>1. canvasKept
  BY DEF LoopThread, canvasVars, canvasKept
<1>2. CASE EpollWait /\ UNCHANGED cm_queue
  <2>1. UNCHANGED browserVars
    BY <1>2 DEF EpollWait
  <2> QED BY <1>1, <1>2, <2>1, BrowsersKept, QuietStepKeeps
<1>3. CASE AcceptEvent
  <2> DEFINE task == [type |-> "NEW_CLIENT", fd |-> 0]
  <2>1. UNCHANGED browserVars
    BY <1>3 DEF AcceptEvent, netVars, browserVars
  <2>2. cm_queue' = Pushed(cm_queue, task) /\ task.type = "NEW_CLIENT"
    BY <1>3 DEF AcceptEvent
  <2> HIDE DEF task
  <2> QED BY <1>1, <2>1, <2>2, PushStepKeeps
<1>4. CASE CloseEvent
  <2> DEFINE task == ClientTask("CLIENT_CLOSE", Head(events), <<>>)
  <2>1. UNCHANGED browserVars
    BY <1>4 DEF CloseEvent, netVars, browserVars
  <2>2. cm_queue' = Pushed(cm_queue, task)
    BY <1>4 DEF CloseEvent
  <2>3. task.type = "CLIENT_CLOSE"
    BY DEF ClientTask
  <2> HIDE DEF task
  <2> QED BY <1>1, <2>1, <2>2, <2>3, PushStepKeeps
<1>5. CASE DataEvent
  <2> DEFINE fd == Head(events)
             bytes == Received(sock[fd])
             task == ClientTask(TaskType(bytes), fd, TaskData(bytes))
  <2>1. UNCHANGED browserVars
    BY <1>5 DEF DataEvent
  <2>2. cm_queue' = cm_queue \/ cm_queue' = Pushed(cm_queue, task)
    BY <1>5 DEF DataEvent
  <2>3. task.type = TaskType(bytes)
    BY DEF ClientTask
  <2>4. task.type \notin {"INIT_CANAVAS", "BROADCAST"}
    BY <2>3, TaskTypes
  <2> HIDE DEF task
  <2>5. CASE cm_queue' = cm_queue
    BY <1>1, <2>1, <2>5, BrowsersKept, QuietStepKeeps
  <2>6. CASE cm_queue' = Pushed(cm_queue, task)
    BY <1>1, <2>1, <2>4, <2>6, PushStepKeeps
  <2> QED BY <2>2, <2>5, <2>6
<1> QED BY <1>2, <1>3, <1>4, <1>5 DEF LoopThread, HandleEvent

-----------------------------------------------------------------------------
(* The client manager                                                      *)

(* A task that is no broadcast is handled, and no message delivered.       *)
LEMMA TakeStepKeeps ==
  ASSUME IInv, NEW type, type # "BROADCAST", Take(type), canvasKept,
         BrowserShape', NothingDelivered
  PROVE  IInv'
<1>1. CanvasShape' /\ ModifiedMatchesCanvas' /\ Settled' = Settled /\ pixels' = pixels
  BY CanvasKept DEF canvasKept
<1>2. cm_queue # <<>> /\ cm_queue' = Tail(cm_queue) /\ Task.type # "BROADCAST"
  BY DEF Take
<1>3. /\ QueueShape' /\ MessagesCurrent'
      /\ \A k : NoneQueued(k)' /\ ~Supersedes(1, k) => NoneQueued(k)
      /\ Task = cm_queue[1]
  BY <1>2, TakeTask
<1>4. \A k : ~Supersedes(1, k)
  BY <1>2, <1>3 DEF Supersedes
<1>5. NothingSent' /\ ReplicaInSync'
  BY <1>1, <1>3, <1>4, ReplicaKept
<1> QED BY <1>1, <1>3, <1>5, Whole

(* A message of the canvas is handled: whoever gets it shows what it says, *)
(* whoever was meant to get it and does not falls behind.                  *)
LEMMA DeliverKeeps ==
  ASSUME IInv, NEW type \in {"INIT_CANAVAS", "BROADCAST"}, Take(type), canvasKept,
         NEW Meant, NEW result, Deliver(Task.data, Meant, result),
         type = "BROADCAST" => Meant = Conns
  PROVE  IInv'
<1> DEFINE m == Task.data
           Got == {c \in DOMAIN result \cap opened : result[c] = "all"}
<1>1. CanvasShape' /\ ModifiedMatchesCanvas' /\ Settled' = Settled /\ pixels' = pixels
  BY CanvasKept DEF canvasKept
<1>2. cm_queue # <<>> /\ cm_queue' = Tail(cm_queue) /\ Task.type = type
  BY DEF Take
<1>3. /\ QueueShape' /\ MessagesCurrent'
      /\ \A k : NoneQueued(k)' /\ ~Supersedes(1, k) => NoneQueued(k)
      /\ \A k \in Settled : Mentions(1, k) /\ NoneQueued(k)' => m[k] = pixels[k]
      /\ Task = cm_queue[1] /\ 1 \in DOMAIN cm_queue
  BY <1>2, TakeTask
<1>4. /\ screen' = [c \in Conns |-> IF c \in Got THEN Shown(screen[c], m) ELSE screen[c]]
      /\ behind' = [c \in Conns |-> IF c \in Got THEN behind[c] \ DOMAIN m
                                    ELSE IF c \in Meant THEN behind[c] \cup DOMAIN m
                                    ELSE behind[c]]
      /\ wire' = [c \in Conns |-> IF c \in DOMAIN result \ Got /\ result[c] # "error"
                                  THEN "broken" ELSE wire[c]]
  BY DEF Deliver
<1>5. \A c \in Got : c \in Conns /\ wire[c] = "websocket"
  BY DEF opened
<1>6. \A c \in Conns : wire'[c] # "broken" => wire'[c] = wire[c]
  BY <1>4
<1> HIDE DEF Got
<1>7. BrowserShape'
  BY <1>4 DEF IInv, Shapes, BrowserShape, Shown
<1>8. NothingSent'
  BY <1>4, <1>5, <1>6 DEF IInv, NothingSent
<1>9. ReplicaInSync'
  <2> SUFFICES ASSUME NEW c \in Conns, wire'[c] = "websocket",
                      NEW k \in Settled, k \notin behind'[c], NoneQueued(k)'
               PROVE  screen'[c][k] = pixels[k]
    BY <1>1 DEF ReplicaInSync, opened, NoneQueued
  <2>1. k \in Keys /\ wire[c] = "websocket"
    BY <1>6 DEF Settled
  <2>2. k \in DOMAIN m => Mentions(1, k)
    BY <1>2, <1>3 DEF Mentions
  <2>3. Supersedes(1, k) => type = "BROADCAST" /\ k \in DOMAIN m
    BY <1>2, <1>3 DEF Supersedes
  <2>4. type = "INIT_CANAVAS" => DOMAIN m = Keys
    BY <1>2, <1>3 DEF IInv, Shapes
  <2>5. ASSUME NoneQueued(k), k \notin behind[c] PROVE screen[c][k] = pixels[k]
    BY <2>1, <2>5 DEF IInv, ReplicaInSync, opened, NoneQueued
  <2>6. CASE c \in Got /\ k \in DOMAIN m
    <3>1. m[k] = pixels[k]
      BY <1>3, <2>2, <2>6
    <3> QED BY <1>4, <2>1, <2>6, <3>1 DEF Shown
  <2>7. CASE c \in Got /\ k \notin DOMAIN m
    <3>1. NoneQueued(k) /\ k \notin behind[c]
      BY <1>3, <1>4, <2>3, <2>7
    <3> QED BY <1>4, <2>1, <2>5, <2>7, <3>1 DEF Shown
  <2>8. CASE c \notin Got
    <3>1. k \notin behind[c] /\ (type = "BROADCAST" => k \notin DOMAIN m)
      BY <1>4, <2>8
    <3>2. NoneQueued(k)
      BY <1>3, <2>3, <3>1
    <3> QED BY <1>4, <2>5, <2>8, <3>1, <3>2
  <2> QED BY <2>6, <2>7, <2>8
<1> QED BY <1>1, <1>3, <1>7, <1>8, <1>9, Whole

LEMMA SwitchedDelivers ==
  ASSUME IInv, NEW c, NEW result, Switched(c, result), UNCHANGED <<screen, behind>>
  PROVE  BrowserShape' /\ NothingDelivered
BY DEF IInv, Shapes, BrowserShape, NothingDelivered, Switched

LEMMA HandleHttpDelivers ==
  ASSUME IInv, NEW i, NEW req, HandleHttp(i, req)
  PROVE  BrowserShape' /\ NothingDelivered
<1>1. CASE Upgrade(i)
  <2>1. PICK result \in SendResults(ConnOf(i)) : Switched(ConnOf(i), result)
    BY <1>1 DEF Upgrade
  <2>2. UNCHANGED <<screen, behind>>
    BY <1>1 DEF Upgrade
  <2> QED BY <2>1, <2>2, SwitchedDelivers
<1>2. CASE Respond(i)
  BY <1>2, BrowsersKept DEF Respond, netVars, browserVars
<1> QED BY <1>1, <1>2 DEF HandleHttp

LEMMA CMThreadKeeps == ASSUME IInv, CMThread PROVE IInv'
<1>1. canvasKept
  BY DEF CMThread, canvasVars, canvasKept
<1>2. ASSUME NEW type, type # "BROADCAST", Take(type), UNCHANGED browserVars PROVE IInv'
  BY <1>1, <1>2, BrowsersKept, TakeStepKeeps
<1>3. CASE AddClient \/ AddClientFails \/ AcceptFails
  <2>1. Take("NEW_CLIENT") /\ UNCHANGED browserVars
    BY <1>3 DEF AddClient, AddClientFails, AcceptFails, Ignore, netVars, browserVars
  <2> QED BY <1>2, <2>1
<1>4. CASE \E type \in ClientTaskTypes : NoClient(type)
  <2>1. PICK type \in ClientTaskTypes : NoClient(type)
    BY <1>4
  <2>2. Take(type) /\ type # "BROADCAST" /\ UNCHANGED browserVars
    BY <2>1 DEF NoClient, Ignore, netVars, browserVars, ClientTaskTypes
  <2> QED BY <1>2, <2>2
<1>5. ASSUME NEW type \in ClientTaskTypes, Overflow(type) PROVE IInv'
  <2>1. Take(type) /\ type # "BROADCAST" /\ UNCHANGED browserVars
    BY <1>5 DEF Overflow, ClientTaskTypes
  <2> QED BY <1>2, <2>1
<1>6. CASE UnknownOverflow
  BY <1>5, <1>6 DEF UnknownOverflow, ClientTaskTypes
<1>7. CASE HttpRequest \/ UnknownMessage
  <2>1. Take("HTTP_REQUEST") \/ Take("UNKNOWN_MESSAGE")
    BY <1>7 DEF HttpRequest, UnknownMessage
  <2>2. \/ \E i, req : HandleHttp(i, req)
        \/ \E i : Respond(i)
    <3>1. CASE HttpRequest
      <4>1. HandleHttp(find_client(Task.fd), clients[find_client(Task.fd)].buf \o Task.data)
        BY <3>1 DEF HttpRequest
      <4> QED BY <4>1
    <3>2. CASE UnknownMessage
      <4>1. \/ HandleHttp(find_client(Task.fd), clients[find_client(Task.fd)].buf \o Task.data)
            \/ Respond(find_client(Task.fd))
        BY <3>2 DEF UnknownMessage
      <4> QED BY <4>1
    <3> QED BY <1>7, <3>1, <3>2
  <2>3. BrowserShape' /\ NothingDelivered
    BY <2>2, HandleHttpDelivers, BrowsersKept DEF Respond, netVars, browserVars
  <2> QED BY <1>1, <2>1, <2>3, TakeStepKeeps
<1>8. CASE IncompleteHttp \/ FrameMessage \/ IncompleteFrame \/ ClientGone \/ WebsocketClose
  <2>1. \/ Take("INCOMPLETE_HTTP") \/ Take("FRAME_MESSAGE") \/ Take("INCOMPLETE_FRAME")
        \/ Take("CLIENT_CLOSE") \/ Take("WEBSOCKET_CLOSE")
    BY <1>8 DEF IncompleteHttp, FrameMessage, IncompleteFrame, ClientGone, WebsocketClose
  <2>2. UNCHANGED browserVars
    BY <1>8 DEF IncompleteHttp, FrameMessage, IncompleteFrame, ClientGone, WebsocketClose, netVars, browserVars
  <2> QED BY <1>2, <2>1, <2>2
<1>9. CASE NullClient
  <2>1. Take("INIT_CANAVAS") \/ Take("WEBSOCKET_CLOSE")
    BY <1>9 DEF NullClient
  <2>2. UNCHANGED browserVars
    BY <1>9 DEF NullClient, netVars, browserVars
  <2> QED BY <1>2, <2>1, <2>2
<1>10. CASE InitCanvas
  <2>1. Take("INIT_CANAVAS") /\ \E result : Deliver(Task.data, {}, result)
    BY <1>10 DEF InitCanvas
  <2> QED BY <1>1, <2>1, DeliverKeeps
<1>11. CASE Broadcast
  <2>1. Take("BROADCAST") /\ \E result : Deliver(Task.data, Conns, result)
    BY <1>11 DEF Broadcast
  <2> QED BY <1>1, <2>1, DeliverKeeps
<1> QED BY <1>3, <1>4, <1>5, <1>6, <1>7, <1>8, <1>9, <1>10, <1>11 DEF CMThread, CMStep

-----------------------------------------------------------------------------
(* Clock and browsers                                                      *)

LEMMA BrowsersKeep == ASSUME IInv, Browsers PROVE IInv'
<1>1. cm_queue' = cm_queue /\ canvasKept
  BY DEF Browsers, canvasVars, canvasKept
<1>2. PICK c \in Conns : Browser(c)
  BY DEF Browsers
<1>3. CASE Connect(c) \/ ClientClose(c)
  <2>1. UNCHANGED browserVars
    BY <1>3 DEF Connect, ClientClose, browserVars
  <2> QED BY <1>1, <2>1, BrowsersKept, QuietStepKeeps
<1>4. CASE ClientSend(c)
  <2> DEFINE chunk == [conn |-> c, n |-> sent[c] + 1]
  <2>1. wire' = wire /\ Click(c, chunk)
    BY <1>4 DEF ClientSend
  <2> HIDE DEF chunk
  <2>2. BrowserShape' /\ NothingDelivered
    BY <2>1 DEF Click, IInv, Shapes, BrowserShape, NothingDelivered
  <2> QED BY <1>1, <2>2, QuietStepKeeps
<1> QED BY <1>2, <1>3, <1>4 DEF Browser

-----------------------------------------------------------------------------
(***************************************************************************)
(* Every reachable state satisfies the strengthened invariant: what the    *)
(* canvas, the queue to the client manager and the browsers hold fits      *)
(* together.                                                               *)
(***************************************************************************)
THEOREM Inductive == Spec => []IInv
<1>1. Init => IInv
  <2> SUFFICES ASSUME Init PROVE IInv
    OBVIOUS
  <2> USE DEF Init, NetInit, CanvasInit
  <2>1. cm_queue = <<>> /\ IsSeq(cm_queue) /\ DOMAIN cm_queue = {}
    BY EmptySeq DEF IsSeq
  <2>2. Shapes
    BY <2>1 DEF Shapes
  <2>3. ModifiedMatchesCanvas
    BY DEF ModifiedMatchesCanvas
  <2>4. MessagesCurrent
    BY <2>1 DEF MessagesCurrent
  <2>5. NothingSent
    BY DEF NothingSent
  <2>6. ReplicaInSync
    BY DEF ReplicaInSync, opened
  <2> QED BY <2>2, <2>3, <2>4, <2>5, <2>6 DEF IInv
<1>2. IInv /\ [Next]_vars => IInv'
  <2> SUFFICES ASSUME IInv, [Next]_vars PROVE IInv'
    OBVIOUS
  <2>1. CASE Clock
    BY <2>1, BrowsersKept, QuietStepKeeps DEF Clock, Tick, netVars, browserVars, canvasKept
  <2>2. CASE UNCHANGED vars
    BY <2>2, BrowsersKept, QuietStepKeeps DEF vars, netVars, browserVars, canvasVars, canvasKept
  <2> QED BY <2>1, <2>2, CMThreadKeeps, LoopThreadKeeps, CanvasThreadKeeps, BrowsersKeep DEF Next
<1> QED BY <1>1, <1>2, PTL DEF Spec

(***************************************************************************)
(* The hash map of what is to be broadcast holds the colors of the canvas. *)
(***************************************************************************)
THEOREM ModifiedCorrect == Spec => []ModifiedMatchesCanvas
<1>1. IInv => ModifiedMatchesCanvas
  BY DEF IInv
<1> QED BY <1>1, Inductive, PTL

(***************************************************************************)
(* Snapshots and broadcasts share one queue with everything else, and the  *)
(* last word in it about a pixel is what the canvas holds.                 *)
(***************************************************************************)
THEOREM MessagesStayCurrent == Spec => []MessagesCurrent
<1>1. IInv => MessagesCurrent
  BY DEF IInv
<1> QED BY <1>1, Inductive, PTL

(***************************************************************************)
(* A browser that was sent everything shows the canvas.                    *)
(***************************************************************************)
THEOREM ReplicasInSync == Spec => []ReplicaInSync
<1>1. IInv => ReplicaInSync
  BY DEF IInv
<1> QED BY <1>1, Inductive, PTL

-----------------------------------------------------------------------------
(* Numbers                                                                 *)

LEMMA Minimum ==
  ASSUME NEW S \in SUBSET Nat, S # {}
  PROVE  \E i \in S : \A j \in S : i <= j
<1>1. PICK i \in S : \A j \in S : <<j, i>> \notin OpToRel(<, Nat)
  BY WFMin, NatLessThanWellFounded
<1>2. \A j \in S : ~(j < i)
  BY <1>1 DEF OpToRel
<1>3. \A j \in S : i <= j
  BY <1>2
<1> QED BY <1>3

LEMMA Maximum ==
  ASSUME NEW N \in Nat, NEW S \in SUBSET (1 .. N), S # {}
  PROVE  \E i \in S : \A j \in S : j <= i
<1> DEFINE T == {N - j : j \in S}
<1>1. T \in SUBSET Nat
  <2>1. \A j \in S : N - j \in Nat
    OBVIOUS
  <2> QED BY <2>1
<1>0. T # {}
  OBVIOUS
<1>2. PICK m \in T : \A l \in T : m <= l
  BY <1>0, <1>1, Minimum
<1>3. PICK i \in S : m = N - i
  BY <1>2
<1>4. \A j \in S : m <= N - j
  BY <1>2
<1>5. \A j \in S : j <= i
  BY <1>3, <1>4
<1> QED BY <1>5

(* Induction, without an operator for the property. *)
LEMMA Induction ==
  ASSUME NEW S, 0 \in S, \A n \in Nat : n \in S => n + 1 \in S
  PROVE  Nat \subseteq S
<1> SUFFICES ASSUME Nat \ S # {} PROVE FALSE
  OBVIOUS
<1>1. PICK m \in Nat \ S : \A x \in Nat \ S : m <= x
  <2>1. Nat \ S \in SUBSET Nat
    OBVIOUS
  <2> QED BY <2>1, Minimum
<1>2. m # 0 /\ m - 1 \in Nat /\ m - 1 \in S
  BY <1>1
<1> QED BY <1>1, <1>2

-----------------------------------------------------------------------------
(* Picked                                                                  *)

(* f is the function that Picked defines, up to N. *)
Picks(s, P, f, N) ==
  f = [n \in 0 .. N |-> IF n = 0 THEN <<>>
                        ELSE IF n \in P THEN Append(f[n - 1], s[n]) ELSE f[n - 1]]

LEMMA PicksExists ==
  ASSUME NEW s, NEW P, NEW N \in Nat
  PROVE  \E f : Picks(s, P, f, N)
<1> DEFINE S == {m \in Nat : \E f : Picks(s, P, f, m)}
<1>1. 0 \in S
  <2> DEFINE f == [n \in 0 .. 0 |-> <<>>]
  <2>1. Picks(s, P, f, 0)
    BY DEF Picks
  <2> QED BY <2>1
<1>2. ASSUME NEW m \in Nat, m \in S PROVE m + 1 \in S
  <2>1. PICK f : Picks(s, P, f, m)
    BY <1>2
  <2> DEFINE g == [n \in 0 .. m + 1 |-> IF n <= m THEN f[n]
                      ELSE IF m + 1 \in P THEN Append(f[m], s[m + 1]) ELSE f[m]]
  <2>2. \A n \in 0 .. m : g[n] = f[n]
    OBVIOUS
  <2>3. ASSUME NEW n \in 0 .. m + 1
        PROVE  g[n] = IF n = 0 THEN <<>>
                      ELSE IF n \in P THEN Append(g[n - 1], s[n]) ELSE g[n - 1]
    <3>1. \A i \in 0 .. m : f[i] = IF i = 0 THEN <<>>
                        ELSE IF i \in P THEN Append(f[i - 1], s[i]) ELSE f[i - 1]
      BY <2>1 DEF Picks
    <3>2. CASE n = m + 1
      <4>1. n # 0 /\ n - 1 = m /\ g[m] = f[m]
        BY <3>2, <2>2
      <4> QED BY <4>1, <3>2
    <3>3. CASE n # m + 1
      <4>1. n \in 0 .. m /\ g[n] = f[n]
        BY <3>3, <2>2
      <4>2. n # 0 => n - 1 \in 0 .. m /\ g[n - 1] = f[n - 1]
        BY <4>1, <2>2
      <4> HIDE DEF g
      <4> QED BY <3>1, <4>1, <4>2
    <3> QED BY <3>2, <3>3
  <2>4. Picks(s, P, g, m + 1)
    <3>1. g = [n \in 0 .. m + 1 |-> g[n]]
      OBVIOUS
    <3> HIDE DEF g
    <3> QED BY <2>3, <3>1 DEF Picks
  <2> HIDE DEF g
  <2> QED BY <2>4
<1> QED BY <1>1, <1>2, Induction

(* t holds the elements of s at the places Q, in their order: e[j] is the  *)
(* place the j-th of them had.                                             *)
Embeds(t, s, Q, e) ==
  /\ e \in [1 .. Len(t) -> Q]
  /\ \A j \in 1 .. Len(t) : t[j] = s[e[j]]
  /\ \A j, k \in 1 .. Len(t) : j < k => e[j] < e[k]
  /\ \A i \in Q : \E j \in 1 .. Len(t) : e[j] = i

EmbedsFirst(t, S, s, P, n) == t \in Seq(S) /\ \E e : Embeds(t, s, P \cap (1 .. n), e)

LEMMA PickedElements ==
  ASSUME NEW S, NEW s \in Seq(S), NEW P \in SUBSET DOMAIN s
  PROVE  Picked(s, P) \in Seq(S) /\ \E e : Embeds(Picked(s, P), s, P, e)
<1>1. Len(s) \in Nat /\ DOMAIN s = 1 .. Len(s) /\ \A i \in 1 .. Len(s) : s[i] \in S
  BY LenProperties, ElementOfSeq
<1> DEFINE first[n \in 0 .. Len(s)] ==
        IF n = 0 THEN <<>>
        ELSE IF n \in P THEN Append(first[n - 1], s[n]) ELSE first[n - 1]
<1>2. Picked(s, P) = first[Len(s)]
  BY DEF Picked
<1>3. Picks(s, P, first, Len(s))
  <2>1. \E f : Picks(s, P, f, Len(s))
    BY <1>1, PicksExists
  <2>2. \E f : f = [n \in 0 .. Len(s) |-> IF n = 0 THEN <<>>
                        ELSE IF n \in P THEN Append(f[n - 1], s[n]) ELSE f[n - 1]]
    BY <2>1 DEF Picks
  <2> QED BY <2>2 DEF Picks
<1> HIDE DEF first
<1>4. \A n \in 0 .. Len(s) : first[n] = IF n = 0 THEN <<>>
                        ELSE IF n \in P THEN Append(first[n - 1], s[n]) ELSE first[n - 1]
  BY <1>3 DEF Picks
<1> DEFINE G == {n \in Nat : n <= Len(s) => EmbedsFirst(first[n], S, s, P, n)}
<1>5. 0 \in G
  <2>1. first[0] = <<>>
    BY <1>1, <1>4
  <2> DEFINE e == [j \in 1 .. 0 |-> 0]
  <2>2. <<>> \in Seq(S) /\ Len(<<>>) = 0
    BY EmptySeq
  <2>3. e \in [1 .. 0 -> P \cap (1 .. 0)]
    OBVIOUS
  <2> HIDE DEF e
  <2>4. Embeds(<<>>, s, P \cap (1 .. 0), e)
    BY <2>2, <2>3 DEF Embeds
  <2>5. EmbedsFirst(first[0], S, s, P, 0)
    BY <2>1, <2>2, <2>4 DEF EmbedsFirst
  <2> QED BY <2>5
<1>6. ASSUME NEW n \in Nat, n \in G PROVE n + 1 \in G
  <2> SUFFICES ASSUME n + 1 <= Len(s)
               PROVE  EmbedsFirst(first[n + 1], S, s, P, n + 1)
    OBVIOUS
  <2> DEFINE t == first[n]
  <2>0. EmbedsFirst(t, S, s, P, n)
    BY <1>1, <1>6
  <2>1. t \in Seq(S) /\ \E e : Embeds(t, s, P \cap (1 .. n), e)
    BY <2>0 DEF EmbedsFirst
  <2>2. PICK e : Embeds(t, s, P \cap (1 .. n), e)
    BY <2>1
  <2>3. first[n + 1] = IF n + 1 \in P THEN Append(t, s[n + 1]) ELSE t
    <3>1. n + 1 \in 0 .. Len(s) /\ n + 1 # 0 /\ (n + 1) - 1 = n
      BY <1>1
    <3> QED BY <1>4, <3>1
  <2> HIDE DEF t
  <2>4. Len(t) \in Nat
    BY <2>1, LenProperties
  <2>5. CASE n + 1 \notin P
    <3>1. P \cap (1 .. n + 1) = P \cap (1 .. n)
      BY <2>5
    <3> QED BY <2>1, <2>2, <2>3, <2>5, <3>1 DEF EmbedsFirst
  <2>6. CASE n + 1 \in P
    <3> DEFINE u == Append(t, s[n + 1])
               d == [j \in 1 .. Len(t) + 1 |-> IF j = Len(t) + 1 THEN n + 1 ELSE e[j]]
    <3>1. /\ u \in Seq(S)
          /\ Len(u) = Len(t) + 1
          /\ \A j \in 1 .. Len(t) : u[j] = t[j]
          /\ u[Len(t) + 1] = s[n + 1]
      <4>1. s[n + 1] \in S
        BY <1>1
      <4> QED BY <2>1, <4>1, AppendProperties
    <3>2. d[Len(t) + 1] = n + 1 /\ \A j \in 1 .. Len(t) : d[j] = e[j]
      BY <2>4
    <3>3. \A j \in 1 .. Len(t) : e[j] \in P /\ e[j] \in 1 .. n
      BY <2>2 DEF Embeds
    <3>4. d \in [1 .. Len(t) + 1 -> P \cap (1 .. n + 1)]
      BY <2>4, <2>6, <3>3
    <3> HIDE DEF u, d
    <3>5. \A j \in 1 .. Len(u) : u[j] = s[d[j]]
      BY <2>2, <2>4, <3>1, <3>2 DEF Embeds
    <3>6. ASSUME NEW j \in 1 .. Len(u), NEW k \in 1 .. Len(u), j < k PROVE d[j] < d[k]
      <4>1. j \in 1 .. Len(t) /\ d[j] = e[j] /\ e[j] \in 1 .. n
        BY <2>4, <3>1, <3>2, <3>3, <3>6
      <4>2. CASE k = Len(t) + 1
        BY <3>2, <4>1, <4>2
      <4>3. CASE k # Len(t) + 1
        <5>1. k \in 1 .. Len(t)
          BY <2>4, <3>1, <4>3
        <5> QED BY <2>2, <3>2, <3>6, <4>1, <5>1 DEF Embeds
      <4> QED BY <4>2, <4>3
    <3>7. ASSUME NEW i \in P \cap (1 .. n + 1) PROVE \E j \in 1 .. Len(u) : d[j] = i
      <4>1. CASE i = n + 1
        BY <2>4, <3>1, <3>2, <4>1
      <4>2. CASE i # n + 1
        <5>1. i \in P \cap (1 .. n)
          BY <4>2
        <5>2. PICK j \in 1 .. Len(t) : e[j] = i
          BY <2>2, <5>1 DEF Embeds
        <5>3. j \in 1 .. Len(u) /\ d[j] = i
          BY <2>4, <3>1, <3>2, <5>2
        <5> QED BY <5>3
      <4> QED BY <4>1, <4>2
    <3>8. Embeds(u, s, P \cap (1 .. n + 1), d)
      BY <3>1, <3>4, <3>5, <3>6, <3>7 DEF Embeds
    <3>9. EmbedsFirst(u, S, s, P, n + 1)
      BY <3>1, <3>8 DEF EmbedsFirst
    <3> QED BY <2>3, <2>6, <3>9 DEF u
  <2> QED BY <2>5, <2>6
<1>7. Len(s) \in G
  <2> HIDE DEF G
  <2> QED BY <1>1, <1>5, <1>6, Induction
<1>8. EmbedsFirst(first[Len(s)], S, s, P, Len(s))
  BY <1>1, <1>7
<1>9. P \cap (1 .. Len(s)) = P
  BY <1>1
<1> QED BY <1>2, <1>8, <1>9 DEF EmbedsFirst

-----------------------------------------------------------------------------
(* Types                                                                   *)

Nodes == [fd : Fds, state : States, buf : Seq(Chunks), ihttp : BOOLEAN]

TasksOK == cm_queue \in Seq(Range(cm_queue)) /\ \A i \in DOMAIN cm_queue : CMTaskOK(cm_queue[i])
CanvasTasksOK == /\ canvas_queue \in Seq(Range(canvas_queue))
                 /\ \A i \in DOMAIN canvas_queue : CanvasTaskOK(canvas_queue[i])
KernelOK == /\ peer \in [Conns -> {"new", "up", "fin"}]
            /\ sent \in [Conns -> Nat] /\ \A c \in Conns : sent[c] <= Len(Script[c])
            /\ backlog \in Seq(Conns)
            /\ sock \in [Fds -> Conns \cup {None}]
            /\ rx \in [Conns -> Seq(Chunks)]
            /\ ready \in Seq(Fds \cup {Listen})
PagesOK == /\ wire \in [Conns -> {"http", "websocket", "broken"}]
           /\ screen \in [Conns -> [Keys -> Colors \cup {None}]]
           /\ behind \in [Conns -> SUBSET Keys]
NodesOK == clients \in Seq(Nodes) /\ client_count \in Int /\ crashed \in BOOLEAN
EventsOK == events \in Seq(Fds \cup {Listen})
PixelsOK == /\ pixels \in Canvases
            /\ modified_pixels \in Patches
            /\ canvas_pc \in {"pop", "timers"}
            /\ due \in BOOLEAN
            /\ lost \subseteq Keys

LEMMA TypeParts ==
  TypeOK <=> /\ TasksOK /\ CanvasTasksOK /\ KernelOK /\ PagesOK /\ NodesOK /\ EventsOK /\ PixelsOK
             /\ world \in DOMAIN Worlds
BY DEF TypeOK, TasksOK, CanvasTasksOK, KernelOK, PagesOK, NodesOK, EventsOK, PixelsOK, Nodes

LEMMA TypesNext ==
  ASSUME TasksOK', CanvasTasksOK', KernelOK', PagesOK', NodesOK', EventsOK', PixelsOK',
         (world \in DOMAIN Worlds)'
  PROVE  TypeOK'
BY DEF TypeOK, TasksOK, CanvasTasksOK, KernelOK, PagesOK, NodesOK, EventsOK, PixelsOK, Nodes

LEMMA WorldKept ==
  ASSUME world' = world
  PROVE  /\ Chunks' = Chunks /\ Script' = Script /\ Nodes' = Nodes
         /\ \A t : CMTaskOK(t)' <=> CMTaskOK(t)
         /\ \A t : CanvasTaskOK(t)' <=> CanvasTaskOK(t)
<1>1. Script' = Script
  BY DEF Script
<1>2. Chunks' = Chunks
  BY <1>1 DEF Chunks
<1>3. Nodes' = Nodes
  BY <1>2 DEF Nodes
<1>4. \A t : CMTaskOK(t)' <=> CMTaskOK(t)
  BY <1>2 DEF CMTaskOK, Canvases, Patches
<1>5. \A t : CanvasTaskOK(t)' <=> CanvasTaskOK(t)
  BY <1>2 DEF CanvasTaskOK
<1> QED BY <1>1, <1>2, <1>3, <1>4, <1>5

LEMMA ScriptSeq ==
  ASSUME world \in DOMAIN Worlds
  PROVE  /\ \A c \in Conns : Len(Script[c]) \in Nat /\ DOMAIN Script[c] = 1 .. Len(Script[c])
         /\ \A c \in Conns : \A m \in 1 .. Len(Script[c]) : [conn |-> c, n |-> m] \in Chunks
         /\ \A x \in Chunks : x.conn \in Conns /\ x.n \in 1 .. Len(Script[x.conn]) /\ x.n \in Nat
<1>1. \A c \in Conns : Len(Script[c]) \in Nat /\ DOMAIN Script[c] = 1 .. Len(Script[c])
  <2> SUFFICES ASSUME NEW c \in Conns
               PROVE  Len(Script[c]) \in Nat /\ DOMAIN Script[c] = 1 .. Len(Script[c])
    OBVIOUS
  <2>1. Script[c] \in Seq(Range(Script[c]))
    BY NetworkAssumption DEF Script
  <2> QED BY <2>1, LenProperties
<1>2. ASSUME NEW c \in Conns, NEW m \in 1 .. Len(Script[c]) PROVE [conn |-> c, n |-> m] \in Chunks
  BY <1>1 DEF Chunks
<1>3. ASSUME NEW x \in Chunks PROVE x.conn \in Conns /\ x.n \in 1 .. Len(Script[x.conn]) /\ x.n \in Nat
  <2>1. PICK c \in Conns : x \in [conn : {c}, n : DOMAIN Script[c]]
    BY DEF Chunks
  <2>2. x.conn = c /\ x.n \in DOMAIN Script[c]
    BY <2>1
  <2> QED BY <1>1, <2>2
<1> QED BY <1>1, <1>2, <1>3

LEMMA PatchDef ==
  /\ \A m \in Patches : DOMAIN m \subseteq Keys /\ \A k \in DOMAIN m : m[k] \in Colors
  /\ \A D \in SUBSET Keys : \A m \in [D -> Colors] : m \in Patches
  /\ Canvases \subseteq Patches
BY DEF Patches, Canvases

LEMMA FindClient ==
  ASSUME NodesOK, NEW f
  PROVE  /\ find_client(f) = 0 => \A i \in DOMAIN clients : clients[i].fd # f
         /\ find_client(f) # 0 => find_client(f) \in DOMAIN clients /\ clients[find_client(f)].fd = f
<1> DEFINE At == {i \in DOMAIN clients : clients[i].fd = f}
<1>1. Len(clients) \in Nat /\ DOMAIN clients = 1 .. Len(clients)
  BY LenProperties DEF NodesOK
<1>2. CASE At = {}
  BY <1>2 DEF find_client
<1>3. CASE At # {}
  <2>1. At \in SUBSET Nat
    BY <1>1
  <2>2. \E i \in At : \A j \in At : i <= j
    BY <1>3, <2>1, Minimum
  <2>3. find_client(f) = CHOOSE i \in At : \A j \in At : i <= j
    BY <1>3 DEF find_client
  <2> HIDE DEF At
  <2>4. find_client(f) \in At
    BY <2>2, <2>3
  <2> QED BY <1>1, <2>4 DEF At
<1> QED BY <1>2, <1>3

LEMMA LowestFreeIn == ASSUME FreeFds # {} PROVE LowestFree \in Fds /\ sock[LowestFree] = None
<1>1. FreeFds \in SUBSET Nat
  BY NetworkAssumption DEF FreeFds
<1>2. LowestFree \in FreeFds
  BY <1>1, Minimum DEF LowestFree
<1> QED BY <1>2 DEF FreeFds

(* Queues of tasks *)
LEMMA TasksKept == ASSUME TasksOK, UNCHANGED <<world, cm_queue>> PROVE TasksOK'
BY WorldKept DEF TasksOK

LEMMA CanvasTasksKept == ASSUME CanvasTasksOK, UNCHANGED <<world, canvas_queue>> PROVE CanvasTasksOK'
BY WorldKept DEF CanvasTasksOK

LEMMA PushTyped ==
  ASSUME TasksOK, world' = world, NEW task, CMTaskOK(task), cm_queue' = Pushed(cm_queue, task)
  PROVE  TasksOK'
<1>1. CASE cm_queue' = cm_queue
  BY <1>1, TasksKept
<1>2. CASE cm_queue' = Append(cm_queue, task)
  <2>1. /\ IsSeq(cm_queue)'
        /\ DOMAIN cm_queue = 1 .. Len(cm_queue) /\ Len(cm_queue) \in Nat
        /\ DOMAIN cm_queue' = 1 .. Len(cm_queue) + 1
        /\ \A i \in 1 .. Len(cm_queue) : cm_queue'[i] = cm_queue[i]
        /\ cm_queue'[Len(cm_queue) + 1] = task
    BY <1>2, AppendSeq DEF TasksOK, IsSeq
  <2>2. \A i \in DOMAIN cm_queue' : CMTaskOK(cm_queue'[i])
    BY <2>1 DEF TasksOK
  <2>3. (\A i \in DOMAIN cm_queue : CMTaskOK(cm_queue[i]))'
    BY <2>2, WorldKept DEF CMTaskOK, Canvases, Patches
  <2> QED BY <2>1, <2>3 DEF TasksOK, IsSeq
<1> QED BY <1>1, <1>2 DEF Pushed

LEMMA TakeTyped ==
  ASSUME TasksOK, world' = world, cm_queue # <<>>, cm_queue' = Tail(cm_queue)
  PROVE  TasksOK' /\ CMTaskOK(Task)
<1>1. /\ IsSeq(cm_queue)'
      /\ DOMAIN cm_queue = 1 .. Len(cm_queue) /\ Len(cm_queue) \in Nat \ {0}
      /\ DOMAIN cm_queue' = 1 .. Len(cm_queue) - 1
      /\ \A i \in 1 .. Len(cm_queue) - 1 : cm_queue'[i] = cm_queue[i + 1]
      /\ Task = cm_queue[1]
  BY TailSeq DEF TasksOK, IsSeq, Task
<1>2. \A i \in DOMAIN cm_queue' : CMTaskOK(cm_queue'[i])
  BY <1>1 DEF TasksOK
<1>3. (\A i \in DOMAIN cm_queue : CMTaskOK(cm_queue[i]))'
  BY <1>2, WorldKept DEF CMTaskOK, Canvases, Patches
<1> QED BY <1>1, <1>3 DEF TasksOK, IsSeq

LEMMA PushCanvasTyped ==
  ASSUME CanvasTasksOK, world' = world, NEW task, CanvasTaskOK(task),
         canvas_queue' = Pushed(canvas_queue, task)
  PROVE  CanvasTasksOK'
<1>1. CASE canvas_queue' = canvas_queue
  BY <1>1, CanvasTasksKept
<1>2. CASE canvas_queue' = Append(canvas_queue, task)
  <2>1. /\ IsSeq(canvas_queue)'
        /\ DOMAIN canvas_queue = 1 .. Len(canvas_queue) /\ Len(canvas_queue) \in Nat
        /\ DOMAIN canvas_queue' = 1 .. Len(canvas_queue) + 1
        /\ \A i \in 1 .. Len(canvas_queue) : canvas_queue'[i] = canvas_queue[i]
        /\ canvas_queue'[Len(canvas_queue) + 1] = task
    BY <1>2, AppendSeq DEF CanvasTasksOK, IsSeq
  <2>2. \A i \in DOMAIN canvas_queue' : CanvasTaskOK(canvas_queue'[i])
    BY <2>1 DEF CanvasTasksOK
  <2>3. (\A i \in DOMAIN canvas_queue : CanvasTaskOK(canvas_queue[i]))'
    BY <2>2, WorldKept DEF CanvasTaskOK
  <2> QED BY <2>1, <2>3 DEF CanvasTasksOK, IsSeq
<1> QED BY <1>1, <1>2 DEF Pushed

LEMMA TakeCanvasTyped ==
  ASSUME CanvasTasksOK, world' = world, canvas_queue # <<>>, canvas_queue' = Tail(canvas_queue)
  PROVE  CanvasTasksOK' /\ CanvasTaskOK(CanvasTask)
<1>1. /\ IsSeq(canvas_queue)'
      /\ DOMAIN canvas_queue = 1 .. Len(canvas_queue) /\ Len(canvas_queue) \in Nat \ {0}
      /\ DOMAIN canvas_queue' = 1 .. Len(canvas_queue) - 1
      /\ \A i \in 1 .. Len(canvas_queue) - 1 : canvas_queue'[i] = canvas_queue[i + 1]
      /\ CanvasTask = canvas_queue[1]
  BY TailSeq DEF CanvasTasksOK, IsSeq, CanvasTask
<1>2. \A i \in DOMAIN canvas_queue' : CanvasTaskOK(canvas_queue'[i])
  BY <1>1 DEF CanvasTasksOK
<1>3. (\A i \in DOMAIN canvas_queue : CanvasTaskOK(canvas_queue[i]))'
  BY <1>2, WorldKept DEF CanvasTaskOK
<1> QED BY <1>1, <1>3 DEF CanvasTasksOK, IsSeq

(* The kernel, the pages and the canvas *)
LEMMA KernelKept == ASSUME KernelOK, UNCHANGED kernelVars PROVE KernelOK'
BY WorldKept DEF KernelOK, kernelVars

LEMMA PagesKept == ASSUME PagesOK, UNCHANGED browserVars PROVE PagesOK'
BY DEF PagesOK, browserVars

LEMMA PixelsKept == ASSUME PixelsOK, UNCHANGED canvasVars PROVE PixelsOK'
BY DEF PixelsOK, canvasVars, Canvases, Patches

LEMMA NodesKept == ASSUME NodesOK, UNCHANGED <<world, clients, client_count, crashed>> PROVE NodesOK'
BY WorldKept DEF NodesOK

LEMMA CloseTyped ==
  ASSUME KernelOK, world' = world, NEW F, Close(F), UNCHANGED <<peer, sent, backlog>>
  PROVE  KernelOK'
<1>1. \A S : Picked(ready, {i \in DOMAIN ready : ready[i] \notin F}) \in Seq(Fds \cup {Listen})
  BY PickedElements DEF KernelOK
<1>2. ready' \in Seq(Fds \cup {Listen})
  BY <1>1 DEF Close
<1>3. rx' \in [Conns -> Seq(Chunks)]
  BY EmptySeq DEF Close, KernelOK
<1>4. sock' \in [Fds -> Conns \cup {None}]
  BY DEF Close, KernelOK
<1> QED BY <1>2, <1>3, <1>4, WorldKept DEF KernelOK

LEMMA RemoveTyped ==
  ASSUME KernelOK, NodesOK, world' = world, NEW F, removeClients(F)
  PROVE  KernelOK' /\ clients' \in Seq(Nodes')
<1>1. KernelOK'
  BY CloseTyped DEF removeClients
<1>2. clients' \in Seq(Nodes)
  BY PickedElements DEF NodesOK, removeClients
<1> QED BY <1>1, <1>2, WorldKept

LEMMA UpdateTyped ==
  ASSUME NodesOK, world' = world, NEW i \in DOMAIN clients, NEW node \in Nodes, Update(i, node)
  PROVE  clients' \in Seq(Nodes')
<1>1. clients \in Seq(Nodes) /\ i \in 1 .. Len(clients)
  BY LenProperties DEF NodesOK
<1>2. clients' \in Seq(Nodes)
  BY <1>1, ExceptSeq DEF Update
<1> QED BY <1>2, WorldKept

LEMMA NodeTyped ==
  ASSUME NodesOK, NEW i \in DOMAIN clients
  PROVE  /\ clients[i] \in Nodes
         /\ \A s \in States : [Cleared(i) EXCEPT !.state = s] \in Nodes
         /\ Cleared(i) \in Nodes
         /\ \A data \in Seq(Chunks) :
              /\ clients[i].buf \o data \in Seq(Chunks)
              /\ [clients[i] EXCEPT !.buf = @ \o data, !.ihttp = TRUE] \in Nodes
              /\ [clients[i] EXCEPT !.buf = @ \o data] \in Nodes
         /\ [clients[i] EXCEPT !.buf = <<>>] \in Nodes
<1>1. clients[i] \in Nodes
  BY LenProperties, ElementOfSeq DEF NodesOK
<1>2. <<>> \in Seq(Chunks)
  BY EmptySeq
<1>3. \A data \in Seq(Chunks) : clients[i].buf \o data \in Seq(Chunks)
  BY <1>1, ConcatProperties DEF Nodes
<1> QED BY <1>1, <1>2, <1>3 DEF Nodes, Cleared

LEMMA SwitchedTyped ==
  ASSUME PagesOK, NEW c, NEW result, Switched(c, result), UNCHANGED <<screen, behind>>
  PROVE  PagesOK'
BY DEF PagesOK, Switched

LEMMA DeliverTyped ==
  ASSUME PagesOK, NEW m \in Patches, NEW Meant, NEW result, Deliver(m, Meant, result)
  PROVE  PagesOK'
<1> DEFINE Got == {c \in DOMAIN result \cap opened : result[c] = "all"}
<1>1. DOMAIN m \subseteq Keys /\ \A k \in DOMAIN m : m[k] \in Colors
  BY PatchDef
<1>2. \A s \in [Keys -> Colors \cup {None}] : Shown(s, m) \in [Keys -> Colors \cup {None}]
  BY <1>1 DEF Shown
<1>3. screen' = [c \in Conns |-> IF c \in Got THEN Shown(screen[c], m) ELSE screen[c]]
  BY DEF Deliver
<1>4. behind' = [c \in Conns |-> IF c \in Got THEN behind[c] \ DOMAIN m
                                 ELSE IF c \in Meant THEN behind[c] \cup DOMAIN m
                                 ELSE behind[c]]
  BY DEF Deliver
<1>5. wire' = [c \in Conns |-> IF c \in DOMAIN result \ Got /\ result[c] # "error"
                               THEN "broken" ELSE wire[c]]
  BY DEF Deliver
<1> HIDE DEF Got
<1>6. screen' \in [Conns -> [Keys -> Colors \cup {None}]]
  BY <1>2, <1>3 DEF PagesOK
<1>7. behind' \in [Conns -> SUBSET Keys]
  BY <1>1, <1>4 DEF PagesOK
<1>8. wire' \in [Conns -> {"http", "websocket", "broken"}]
  BY <1>5 DEF PagesOK
<1> QED BY <1>6, <1>7, <1>8 DEF PagesOK

-----------------------------------------------------------------------------
(* Steps of the client manager keep the types                              *)

CMTypes == KernelOK /\ PagesOK /\ NodesOK /\ CanvasTasksOK

LEMMA IgnoreTyped == ASSUME TypeOK, Ignore PROVE CMTypes'
<1>1. UNCHANGED kernelVars /\ UNCHANGED browserVars /\ UNCHANGED <<world, clients, client_count, crashed, canvas_queue>>
  BY DEF Ignore, netVars, kernelVars, browserVars
<1> QED BY <1>1, TypeParts, KernelKept, PagesKept, NodesKept, CanvasTasksKept DEF CMTypes

LEMMA AddClientTyped == ASSUME TypeOK, world' = world, AddClient PROVE CMTypes'
<1>1. /\ backlog \in Seq(Conns) /\ backlog # <<>> /\ FreeFds # {}
      /\ backlog' = Tail(backlog)
      /\ sock' = [sock EXCEPT ![LowestFree] = Head(backlog)]
      /\ ready' = ready \/ ready' = Append(ready, LowestFree)
      /\ clients' = <<NewClient(LowestFree)>> \o clients
      /\ UNCHANGED <<client_count, crashed, canvas_queue, peer, sent, rx>> /\ UNCHANGED browserVars
  BY DEF AddClient, TypeOK
<1>2. LowestFree \in Fds /\ Head(backlog) \in Conns /\ backlog' \in Seq(Conns)
  BY <1>1, LowestFreeIn, HeadTailProperties
<1>3. ready' \in Seq(Fds \cup {Listen})
  <2>1. ready \in Seq(Fds \cup {Listen}) /\ LowestFree \in Fds \cup {Listen}
    BY <1>2 DEF TypeOK
  <2>2. Append(ready, LowestFree) \in Seq(Fds \cup {Listen})
    BY <2>1, AppendProperties
  <2> QED BY <1>1, <2>1, <2>2
<1>4. sock' \in [Fds -> Conns \cup {None}]
  BY <1>1, <1>2 DEF TypeOK
<1>5. KernelOK'
  BY <1>1, <1>2, <1>3, <1>4, TypeParts, WorldKept DEF KernelOK
<1>6. NodesOK'
  <2>1. NewClient(LowestFree) \in Nodes
    BY <1>2, EmptySeq DEF NewClient, Nodes, States
  <2>2. <<NewClient(LowestFree)>> \in Seq(Nodes) /\ clients \in Seq(Nodes)
    BY <2>1, TypeParts DEF NodesOK
  <2>3. clients' \in Seq(Nodes)
    BY <1>1, <2>2, ConcatProperties
  <2> QED BY <1>1, <2>3, TypeParts, WorldKept DEF NodesOK
<1> QED BY <1>1, <1>5, <1>6, TypeParts, PagesKept, CanvasTasksKept DEF CMTypes

LEMMA AddClientFailsTyped == ASSUME TypeOK, world' = world, AddClientFails PROVE CMTypes'
<1>1. /\ backlog \in Seq(Conns) /\ backlog # <<>>
      /\ backlog' = Tail(backlog)
      /\ rx' = [rx EXCEPT ![Head(backlog)] = <<>>]
      /\ UNCHANGED <<clients, client_count, crashed, canvas_queue, peer, sent, sock, ready>> /\ UNCHANGED browserVars
  BY DEF AddClientFails, TypeOK
<1>2. backlog' \in Seq(Conns)
  BY <1>1, HeadTailProperties
<1>3. rx' \in [Conns -> Seq(Chunks)]
  BY <1>1, EmptySeq DEF TypeOK
<1>4. KernelOK'
  BY <1>1, <1>2, <1>3, TypeParts, WorldKept DEF KernelOK
<1> QED BY <1>1, <1>4, TypeParts, PagesKept, NodesKept, CanvasTasksKept DEF CMTypes

LEMMA RemovalTyped ==
  ASSUME TypeOK, world' = world, NEW F, removeClients(F), client_count' \in Int,
         UNCHANGED <<crashed, canvas_queue>>, PagesOK'
  PROVE  CMTypes'
BY TypeParts, RemoveTyped, CanvasTasksKept DEF CMTypes, NodesOK

(* A node changes, and perhaps something is told to the canvas. *)
LEMMA UpdatedTyped ==
  ASSUME TypeOK, NEW i \in DOMAIN clients, NEW node \in Nodes, Update(i, node),
         client_count' \in Int, crashed' = crashed, UNCHANGED kernelVars, CanvasTasksOK', PagesOK'
  PROVE  CMTypes'
<1>1. world' = world
  BY DEF kernelVars
<1> QED BY <1>1, TypeParts, UpdateTyped, KernelKept DEF CMTypes, NodesOK

LEMMA RespondTyped == ASSUME TypeOK, NEW i \in DOMAIN clients, Respond(i) PROVE CMTypes'
<1>1. /\ UNCHANGED <<client_count, crashed, canvas_queue, world>> /\ UNCHANGED kernelVars /\ UNCHANGED browserVars
      /\ Update(i, Cleared(i))
  BY DEF Respond, netVars, kernelVars, browserVars
<1>2. Cleared(i) \in Nodes /\ client_count' \in Int
  BY <1>1, TypeParts, NodeTyped DEF TypeOK
<1>3. PagesOK' /\ CanvasTasksOK'
  BY <1>1, TypeParts, PagesKept, CanvasTasksKept
<1> QED BY <1>1, <1>2, <1>3, UpdatedTyped

LEMMA UpgradeTyped == ASSUME TypeOK, NEW i \in DOMAIN clients, Upgrade(i) PROVE CMTypes'
<1> DEFINE node == [Cleared(i) EXCEPT !.state = "open"]
           task == [type |-> "NEW_CLIENT", fd |-> clients[i].fd]
<1>1. /\ crashed' = crashed /\ UNCHANGED kernelVars /\ world' = world
      /\ Update(i, node)
      /\ client_count' = client_count + 1
      /\ canvas_queue' = Pushed(canvas_queue, task)
  BY DEF Upgrade, kernelVars
<1>2. node \in Nodes /\ client_count' \in Int
  <2>1. "open" \in States /\ client_count' \in Int
    BY <1>1 DEF TypeOK, States
  <2> QED BY <2>1, TypeParts, NodeTyped
<1>3. CanvasTaskOK(task)
  <2>1. clients[i].fd \in Fds
    BY TypeParts, NodeTyped DEF Nodes
  <2> QED BY <2>1 DEF CanvasTaskOK
<1>4. PagesOK'
  <2>1. PICK result \in SendResults(ConnOf(i)) : Switched(ConnOf(i), result)
    BY DEF Upgrade
  <2> QED BY <2>1, TypeParts, SwitchedTyped DEF Upgrade
<1> HIDE DEF node, task
<1>5. CanvasTasksOK'
  BY <1>1, <1>3, TypeParts, PushCanvasTyped
<1> QED BY <1>1, <1>2, <1>4, <1>5, UpdatedTyped

LEMMA HandleHttpTyped == ASSUME TypeOK, NEW i \in DOMAIN clients, NEW req, HandleHttp(i, req) PROVE CMTypes'
BY RespondTyped, UpgradeTyped DEF HandleHttp

(* A piece of a request or of a message is put into the buffer. *)
LEMMA BufferTyped ==
  ASSUME TypeOK, NEW i \in DOMAIN clients, NEW node \in Nodes, Update(i, node),
         UNCHANGED <<client_count, crashed, canvas_queue, netVars>>
  PROVE  CMTypes'
<1>1. UNCHANGED kernelVars /\ UNCHANGED browserVars /\ world' = world /\ client_count' \in Int
  BY DEF netVars, kernelVars, browserVars, TypeOK
<1> QED BY <1>1, TypeParts, PagesKept, CanvasTasksKept, UpdatedTyped

LEMMA TaskContents ==
  ASSUME TypeOK, cm_queue # <<>>
  PROVE  /\ CMTaskOK(Task)
         /\ Task.type \in ClientTaskTypes \cup {"WEBSOCKET_CLOSE"} => Task.fd \in Fds /\ Task.data \in Seq(Chunks)
         /\ Task.type \in {"INIT_CANAVAS", "BROADCAST"} => Task.data \in Patches
<1>1. CMTaskOK(Task)
  <2>1. 1 \in DOMAIN cm_queue /\ Task = cm_queue[1]
    BY TailSeq, TypeParts DEF TasksOK, IsSeq, Task
  <2> QED BY <2>1, TypeParts DEF TasksOK
<1> QED BY <1>1, PatchDef DEF CMTaskOK, ClientTaskTypes

LEMMA FrameMessageTyped == ASSUME TypeOK, FrameMessage PROVE CMTypes'
<1> DEFINE i == find_client(Task.fd)
           message == clients[i].buf \o Task.data
           task == [type |-> "PIXEL_UPDATE", fd |-> 0, data |-> message]
           node == [clients[i] EXCEPT !.buf = <<>>]
<1>1. /\ cm_queue # <<>> /\ Task.type = "FRAME_MESSAGE" /\ i # 0
      /\ canvas_queue' = Pushed(canvas_queue, task)
      /\ Update(i, node)
      /\ UNCHANGED <<client_count, crashed, world>> /\ UNCHANGED kernelVars /\ UNCHANGED browserVars
  BY DEF FrameMessage, Take, netVars, kernelVars, browserVars
<1>2. i \in DOMAIN clients
  BY <1>1, TypeParts, FindClient
<1>3. Task.data \in Seq(Chunks)
  BY <1>1, TaskContents DEF ClientTaskTypes
<1>4. message \in Seq(Chunks) /\ node \in Nodes
  BY <1>2, <1>3, TypeParts, NodeTyped
<1>5. CanvasTaskOK(task)
  BY <1>4 DEF CanvasTaskOK
<1>6. client_count' \in Int
  BY <1>1 DEF TypeOK
<1> HIDE DEF i, message, task, node
<1>7. CanvasTasksOK' /\ PagesOK'
  BY <1>1, <1>5, TypeParts, PushCanvasTyped, PagesKept
<1> QED BY <1>1, <1>2, <1>4, <1>6, <1>7, UpdatedTyped

LEMMA CMStepTyped == ASSUME TypeOK, world' = world, CMStep PROVE CMTypes'
<1>1. CASE AddClient \/ AddClientFails \/ AcceptFails
  BY <1>1, AddClientTyped, AddClientFailsTyped, IgnoreTyped DEF AcceptFails
<1>2. CASE \E type \in ClientTaskTypes : NoClient(type)
  BY <1>2, IgnoreTyped DEF NoClient
<1>3. ASSUME NEW type, Overflow(type) PROVE CMTypes'
  <2>1. /\ removeClients({Task.fd}) /\ UNCHANGED browserVars
        /\ UNCHANGED <<crashed, canvas_queue>> /\ client_count' \in Int
    BY <1>3 DEF Overflow, TypeOK
  <2> QED BY <2>1, TypeParts, PagesKept, RemovalTyped
<1>4. CASE UnknownOverflow
  BY <1>3, <1>4 DEF UnknownOverflow
<1>5. ASSUME find_client(Task.fd) # 0 PROVE find_client(Task.fd) \in DOMAIN clients
  BY <1>5, TypeParts, FindClient
<1>6. CASE HttpRequest
  BY <1>5, <1>6, HandleHttpTyped DEF HttpRequest
<1>7. CASE UnknownMessage
  BY <1>5, <1>7, HandleHttpTyped, RespondTyped DEF UnknownMessage
<1>8. CASE IncompleteHttp \/ IncompleteFrame
  <2> DEFINE i == find_client(Task.fd)
  <2>1. cm_queue # <<>> /\ Task.type \in ClientTaskTypes /\ i # 0
    BY <1>8 DEF IncompleteHttp, IncompleteFrame, Take, ClientTaskTypes
  <2>2. i \in DOMAIN clients /\ Task.data \in Seq(Chunks)
    BY <1>5, <2>1, TaskContents
  <2>3. /\ UNCHANGED <<client_count, crashed, canvas_queue, netVars>>
        /\ \/ Update(i, [clients[i] EXCEPT !.buf = @ \o Task.data, !.ihttp = TRUE])
           \/ Update(i, [clients[i] EXCEPT !.buf = @ \o Task.data])
    BY <1>8 DEF IncompleteHttp, IncompleteFrame
  <2> HIDE DEF i
  <2>4. /\ [clients[i] EXCEPT !.buf = @ \o Task.data, !.ihttp = TRUE] \in Nodes
        /\ [clients[i] EXCEPT !.buf = @ \o Task.data] \in Nodes
    BY <2>2, TypeParts, NodeTyped
  <2> QED BY <2>2, <2>3, <2>4, BufferTyped
<1>9. CASE FrameMessage
  BY <1>9, FrameMessageTyped
<1>10. CASE ClientGone \/ WebsocketClose
  <2>1. /\ UNCHANGED browserVars /\ UNCHANGED <<crashed, canvas_queue>> /\ client_count' \in Int
        /\ removeClients({Task.fd}) \/ UNCHANGED <<clients, client_count, kernelVars>>
    BY <1>10 DEF ClientGone, WebsocketClose, TypeOK
  <2>2. CASE removeClients({Task.fd})
    BY <2>1, <2>2, TypeParts, PagesKept, RemovalTyped
  <2>3. CASE UNCHANGED <<clients, client_count, kernelVars>>
    <3>1. UNCHANGED kernelVars /\ UNCHANGED <<clients, client_count>>
      BY <2>3
    <3> QED BY <2>1, <3>1, TypeParts, KernelKept, PagesKept, NodesKept, CanvasTasksKept DEF CMTypes
  <2> QED BY <2>1, <2>2, <2>3
<1>11. CASE InitCanvas
  <2>1. cm_queue # <<>> /\ Task.type = "INIT_CANAVAS" /\ \E result : Deliver(Task.data, {}, result)
    BY <1>11 DEF InitCanvas, Take
  <2>2. UNCHANGED <<clients, client_count, crashed, canvas_queue>> /\ UNCHANGED kernelVars
    BY <1>11 DEF InitCanvas
  <2>3. PagesOK'
    BY <2>1, TaskContents, TypeParts, DeliverTyped
  <2> QED BY <2>2, <2>3, TypeParts, KernelKept, NodesKept, CanvasTasksKept DEF CMTypes
<1>12. CASE NullClient
  <2>1. /\ UNCHANGED <<clients, client_count, canvas_queue>> /\ crashed' \in BOOLEAN
        /\ UNCHANGED kernelVars /\ UNCHANGED browserVars
    BY <1>12 DEF NullClient, netVars, kernelVars, browserVars
  <2>2. NodesOK'
    BY <2>1, TypeParts, WorldKept DEF NodesOK
  <2> QED BY <2>1, <2>2, TypeParts, KernelKept, PagesKept, CanvasTasksKept DEF CMTypes
<1>13. CASE Broadcast
  <2>1. cm_queue # <<>> /\ Task.type = "BROADCAST"
    BY <1>13 DEF Broadcast, Take
  <2>2. \E result, F : Deliver(Task.data, Conns, result) /\ removeClients(F)
    BY <1>13 DEF Broadcast
  <2>3. UNCHANGED <<crashed, canvas_queue>> /\ client_count' \in Int
    BY <1>13 DEF Broadcast, TypeOK
  <2>4. PagesOK'
    BY <2>1, <2>2, TaskContents, TypeParts, DeliverTyped
  <2> QED BY <2>2, <2>3, <2>4, RemovalTyped
<1> QED BY <1>1, <1>2, <1>3, <1>4, <1>6, <1>7, <1>8, <1>9, <1>10, <1>11, <1>12, <1>13 DEF CMStep

LEMMA CMThreadTyped == ASSUME TypeOK, CMThread PROVE TypeOK'
<1>1. world' = world /\ events' = events /\ UNCHANGED canvasVars /\ CMStep
  BY DEF CMThread
<1>2. CMTypes'
  BY <1>1, CMStepTyped
<1>3. cm_queue # <<>> /\ cm_queue' = Tail(cm_queue)
  <2>1. \E type : Take(type)
    BY <1>1 DEF CMStep, AddClient, AddClientFails, AcceptFails, NoClient, Overflow, HttpRequest,
                IncompleteHttp, UnknownMessage, UnknownOverflow, FrameMessage, IncompleteFrame,
                ClientGone, WebsocketClose, InitCanvas, NullClient, Broadcast
  <2> QED BY <2>1 DEF Take
<1>4. TasksOK'
  BY <1>1, <1>3, TypeParts, TakeTyped
<1>5. PixelsOK' /\ EventsOK' /\ (world \in DOMAIN Worlds)'
  BY <1>1, TypeParts, PixelsKept DEF EventsOK
<1> QED BY <1>2, <1>4, <1>5, TypesNext DEF CMTypes

-----------------------------------------------------------------------------
(* Steps of the event loop                                                 *)

(* What one recv returns, and what it leaves. *)
LEMMA ReceivedTyped ==
  ASSUME TypeOK, NEW c \in Conns, rx[c] # <<>>
  PROVE  \E m \in 1 .. Len(rx[c]) :
           /\ Received(c) = SubSeq(rx[c], 1, m)
           /\ Received(c) \in Seq(Chunks) /\ Len(Received(c)) = m
           /\ \A i \in 1 .. m : Received(c)[i] = rx[c][i]
           /\ SubSeq(rx[c], m + 1, Len(rx[c])) \in Seq(Chunks)
           /\ Len(SubSeq(rx[c], m + 1, Len(rx[c]))) = Len(rx[c]) - m
           /\ \A i \in 1 .. Len(rx[c]) - m : SubSeq(rx[c], m + 1, Len(rx[c]))[i] = rx[c][m + i]
           /\ Head(Received(c)) = rx[c][1]
<1> DEFINE s == rx[c]
           m == IF Len(s) < RecvUnits THEN Len(s) ELSE RecvUnits
<1>1. s \in Seq(Chunks) /\ s # <<>>
  BY DEF TypeOK
<1>2. Received(c) = SubSeq(s, 1, m)
  BY DEF Received
<1> HIDE DEF s
<1>3. Len(s) \in Nat \ {0} /\ \A i \in 1 .. Len(s) : s[i] \in Chunks
  BY <1>1, EmptySeq, ElementOfSeq
<1>4. m \in 1 .. Len(s)
  BY <1>3, NetworkAssumption
<1> HIDE DEF m
<1>5. /\ SubSeq(s, 1, m) \in Seq(Chunks) /\ Len(SubSeq(s, 1, m)) = m
      /\ \A i \in 1 .. m : SubSeq(s, 1, m)[i] = s[i]
  <2>1. \A i \in 1 .. m : s[i] \in Chunks
    BY <1>3, <1>4
  <2>2. 1 \in Int /\ m \in Int /\ 1 <= m /\ m - 1 + 1 = m
    BY <1>3, <1>4
  <2>3. /\ SubSeq(s, 1, m) \in Seq(Chunks)
        /\ Len(SubSeq(s, 1, m)) = IF 1 <= m THEN m - 1 + 1 ELSE 0
        /\ \A i \in 1 .. m - 1 + 1 : SubSeq(s, 1, m)[i] = s[1 + i - 1]
    BY <2>1, <2>2, SubSeqProperties
  <2>4. \A i \in 1 .. m : 1 + i - 1 = i
    OBVIOUS
  <2> QED BY <2>2, <2>3, <2>4
<1>6. /\ SubSeq(s, m + 1, Len(s)) \in Seq(Chunks)
      /\ Len(SubSeq(s, m + 1, Len(s))) = Len(s) - m
      /\ \A i \in 1 .. Len(s) - m : SubSeq(s, m + 1, Len(s))[i] = s[m + i]
  <2>1. \A i \in m + 1 .. Len(s) : s[i] \in Chunks
    BY <1>3, <1>4
  <2>2. m + 1 \in Int /\ Len(s) \in Int /\ Len(s) - (m + 1) + 1 = Len(s) - m
    BY <1>3, <1>4
  <2>3. /\ SubSeq(s, m + 1, Len(s)) \in Seq(Chunks)
        /\ Len(SubSeq(s, m + 1, Len(s))) = IF m + 1 <= Len(s) THEN Len(s) - (m + 1) + 1 ELSE 0
        /\ \A i \in 1 .. Len(s) - (m + 1) + 1 : SubSeq(s, m + 1, Len(s))[i] = s[m + 1 + i - 1]
    BY <2>1, <2>2, SubSeqProperties
  <2>4. \A i \in 1 .. Len(s) - m : m + 1 + i - 1 = m + i
    BY <1>3, <1>4
  <2>5. ~(m + 1 <= Len(s)) => Len(s) - m = 0
    BY <1>3, <1>4
  <2> QED BY <2>2, <2>3, <2>4, <2>5
<1>7. Head(SubSeq(s, 1, m)) = s[1]
  <2>1. SubSeq(s, 1, m) # <<>>
    BY <1>4, <1>5, EmptySeq
  <2>2. Head(SubSeq(s, 1, m)) = SubSeq(s, 1, m)[1]
    BY <1>5, <2>1
  <2> QED BY <1>4, <1>5, <2>2
<1> QED BY <1>2, <1>4, <1>5, <1>6, <1>7 DEF s

LEMMA TaskTypeIn ==
  \A bytes : TaskType(bytes) \in ClientTaskTypes \cup {"WEBSOCKET_CLOSE", "none"}
BY DEF TaskType, FrameTask, is_websocket_frame, FrameKinds, ClientTaskTypes

LEMMA TaskDataTyped ==
  ASSUME NEW bytes \in Seq(Chunks), bytes # <<>>
  PROVE  TaskData(bytes) \in Seq(Chunks) /\ TaskData(bytes) \in {<<>>, <<Head(bytes)>>, bytes}
<1>1. Head(bytes) \in Chunks /\ <<>> \in Seq(Chunks)
  BY HeadTailProperties, EmptySeq
<1>2. <<Head(bytes)>> \in Seq(Chunks)
  BY <1>1
<1>3. TaskData(bytes) \in {<<>>, <<Head(bytes)>>, bytes}
  BY DEF TaskData
<1> QED BY <1>1, <1>2, <1>3

LEMMA EventTyped ==
  ASSUME TypeOK, events # <<>>, events' = Tail(events)
  PROVE  Head(events) \in Fds \cup {Listen} /\ EventsOK'
BY HeadTailProperties DEF TypeOK, EventsOK

LEMMA ClientTaskTyped ==
  ASSUME TypeOK, NEW type \in ClientTaskTypes \cup {"WEBSOCKET_CLOSE"}, NEW fd \in Fds, NEW data \in Seq(Chunks)
  PROVE  CMTaskOK(ClientTask(type, fd, data))
<1>1. sock[fd] \in Conns \cup {None}
  BY DEF TypeOK
<1> QED BY <1>1 DEF CMTaskOK, ClientTask

LEMMA DataEventTyped == ASSUME TypeOK, world' = world, DataEvent PROVE KernelOK' /\ TasksOK' /\ EventsOK'
<1> DEFINE fd == Head(events)
           c == sock[fd]
           task == ClientTask(TaskType(Received(c)), fd, TaskData(Received(c)))
<1>1. /\ events # <<>> /\ events' = Tail(events) /\ fd # Listen
      /\ c # None /\ rx[c] # <<>>
      /\ rx' = [rx EXCEPT ![c] = SubSeq(rx[c], Len(Received(c)) + 1, Len(rx[c]))]
      /\ \/ cm_queue' = cm_queue
         \/ TaskType(Received(c)) # "none" /\ cm_queue' = Pushed(cm_queue, task)
      /\ UNCHANGED <<peer, sent, backlog, sock, ready>>
  BY DEF DataEvent
<1>2. fd \in Fds /\ EventsOK'
  BY <1>1, EventTyped
<1>3. c \in Conns
  BY <1>1, <1>2 DEF TypeOK
<1> HIDE DEF fd, c
<1>4. PICK m \in 1 .. Len(rx[c]) :
           /\ Received(c) \in Seq(Chunks) /\ Len(Received(c)) = m
           /\ SubSeq(rx[c], m + 1, Len(rx[c])) \in Seq(Chunks)
  BY <1>1, <1>3, ReceivedTyped
<1>5. KernelOK'
  <2>1. rx' \in [Conns -> Seq(Chunks)]
    BY <1>1, <1>3, <1>4 DEF TypeOK
  <2> QED BY <1>1, <2>1, TypeParts, WorldKept DEF KernelOK
<1>6. CASE cm_queue' = cm_queue
  BY <1>2, <1>5, <1>6, TypeParts, TasksKept
<1>7. CASE TaskType(Received(c)) # "none" /\ cm_queue' = Pushed(cm_queue, task)
  <2>1. Received(c) # <<>>
    BY <1>4, EmptySeq
  <2>2. TaskData(Received(c)) \in Seq(Chunks)
    BY <1>4, <2>1, TaskDataTyped
  <2>3. TaskType(Received(c)) \in ClientTaskTypes \cup {"WEBSOCKET_CLOSE"}
    BY <1>7, TaskTypeIn
  <2>4. CMTaskOK(task)
    BY <1>2, <2>2, <2>3, ClientTaskTyped
  <2> HIDE DEF task
  <2> QED BY <1>2, <1>5, <1>7, <2>4, TypeParts, PushTyped
<1> QED BY <1>1, <1>6, <1>7

LEMMA LoopThreadTyped == ASSUME TypeOK, LoopThread PROVE TypeOK'
<1>1. /\ UNCHANGED <<world, canvas_queue, clients, client_count, crashed>> /\ UNCHANGED canvasVars
      /\ world' = world
  BY DEF LoopThread, cmVars
<1>2. CanvasTasksOK' /\ NodesOK' /\ PixelsOK' /\ (world \in DOMAIN Worlds)'
  BY <1>1, TypeParts, CanvasTasksKept, NodesKept, PixelsKept
<1>3. CASE EpollWait /\ UNCHANGED cm_queue
  <2>1. UNCHANGED <<peer, sent, backlog, sock, rx>> /\ UNCHANGED browserVars /\ ready' = <<>>
    BY <1>3 DEF EpollWait
  <2>2. ready' \in Seq(Fds \cup {Listen})
    BY <2>1, EmptySeq
  <2>3. KernelOK' /\ PagesOK' /\ TasksOK'
    BY <1>1, <1>3, <2>1, <2>2, TypeParts, PagesKept, TasksKept, WorldKept DEF KernelOK
  <2>4. EventsOK'
    <3>1. ready \in Seq(Fds \cup {Listen})
      BY DEF TypeOK
    <3>2. events' = Picked(ready, {i \in DOMAIN ready : Readable(ready[i])})
      BY <1>3 DEF EpollWait
    <3> QED BY <3>1, <3>2, PickedElements DEF EventsOK
  <2> QED BY <1>2, <2>3, <2>4, TypesNext
<1>4. CASE AcceptEvent
  <2> DEFINE task == [type |-> "NEW_CLIENT", fd |-> 0]
  <2>1. /\ UNCHANGED kernelVars /\ UNCHANGED browserVars
        /\ events # <<>> /\ events' = Tail(events)
        /\ cm_queue' = Pushed(cm_queue, task)
    BY <1>4 DEF AcceptEvent, netVars, kernelVars, browserVars
  <2>2. CMTaskOK(task)
    BY DEF CMTaskOK
  <2> HIDE DEF task
  <2>3. TasksOK' /\ EventsOK' /\ KernelOK' /\ PagesOK'
    BY <1>1, <2>1, <2>2, TypeParts, PushTyped, EventTyped, KernelKept, PagesKept
  <2> QED BY <1>2, <2>3, TypesNext
<1>5. CASE CloseEvent
  <2> DEFINE task == ClientTask("CLIENT_CLOSE", Head(events), <<>>)
  <2>1. /\ UNCHANGED kernelVars /\ UNCHANGED browserVars
        /\ events # <<>> /\ events' = Tail(events) /\ Head(events) # Listen
        /\ cm_queue' = Pushed(cm_queue, task)
    BY <1>5 DEF CloseEvent, netVars, kernelVars, browserVars
  <2>2. CMTaskOK(task)
    <3>1. Head(events) \in Fds /\ <<>> \in Seq(Chunks) /\ "CLIENT_CLOSE" \in ClientTaskTypes
      BY <2>1, EventTyped, EmptySeq DEF ClientTaskTypes
    <3> QED BY <3>1, ClientTaskTyped
  <2> HIDE DEF task
  <2>3. TasksOK' /\ EventsOK' /\ KernelOK' /\ PagesOK'
    BY <1>1, <2>1, <2>2, TypeParts, PushTyped, EventTyped, KernelKept, PagesKept
  <2> QED BY <1>2, <2>3, TypesNext
<1>6. CASE DataEvent
  <2>1. UNCHANGED browserVars
    BY <1>6 DEF DataEvent
  <2>2. KernelOK' /\ TasksOK' /\ EventsOK' /\ PagesOK'
    BY <1>1, <1>6, <2>1, TypeParts, DataEventTyped, PagesKept
  <2> QED BY <1>2, <2>2, TypesNext
<1> QED BY <1>3, <1>4, <1>5, <1>6 DEF LoopThread, HandleEvent

-----------------------------------------------------------------------------
(* Steps of the canvas, the clock and the browsers                         *)

LEMMA ChangesTyped ==
  ASSUME NEW message \in Seq(Chunks)
  PROVE  Changes(message) \in Patches /\ DOMAIN Changes(message) \subseteq Keys
<1> DEFINE D == {key \in Keys : Setting(message, key) # {}}
           last(k) == CHOOSE j \in Setting(message, k) : \A l \in Setting(message, k) : l <= j
<1>1. Changes(message) = [k \in D |-> Content(message[last(k)]).val]
  BY DEF Changes
<1>2. ASSUME NEW k \in D PROVE Content(message[last(k)]).val \in Colors
  <2>1. Len(message) \in Nat /\ DOMAIN message = 1 .. Len(message)
    BY LenProperties
  <2>2. Setting(message, k) \in SUBSET (1 .. Len(message)) /\ Setting(message, k) # {}
    BY <1>2, <2>1 DEF Setting, Objects
  <2>3. \E j \in Setting(message, k) : \A l \in Setting(message, k) : l <= j
    BY <2>1, <2>2, Maximum
  <2>4. last(k) \in Setting(message, k)
    BY <2>3
  <2> QED BY <2>4 DEF Setting
<1> HIDE DEF last
<1>3. Changes(message) \in [D -> Colors] /\ D \in SUBSET Keys
  BY <1>1, <1>2
<1>4. DOMAIN Changes(message) = D
  BY <1>1
<1> HIDE DEF D
<1> QED BY <1>3, <1>4, PatchDef

LEMMA OverlaidTyped ==
  ASSUME NEW f \in Patches, NEW g \in Patches
  PROVE  Overlaid(f, g) \in Patches /\ (f \in Canvases => Overlaid(f, g) \in Canvases)
<1> DEFINE D == DOMAIN f \cup DOMAIN g
<1>1. D \in SUBSET Keys
  BY PatchDef
<1>2. \A k \in D : (IF k \in DOMAIN g THEN g[k] ELSE f[k]) \in Colors
  BY PatchDef
<1>3. Overlaid(f, g) \in [D -> Colors]
  BY <1>2 DEF Overlaid
<1>4. f \in Canvases => D = Keys
  BY <1>1 DEF Canvases
<1> QED BY <1>1, <1>3, <1>4, PatchDef DEF Canvases

LEMMA CanvasThreadTyped == ASSUME TypeOK, CanvasThread PROVE TypeOK'
<1>1. /\ UNCHANGED kernelVars /\ UNCHANGED browserVars /\ events' = events /\ world' = world
      /\ UNCHANGED <<clients, client_count, crashed>>
  BY DEF CanvasThread, netVars, cmVars, kernelVars, browserVars
<1>2. KernelOK' /\ PagesOK' /\ EventsOK' /\ NodesOK' /\ (world \in DOMAIN Worlds)'
  BY <1>1, TypeParts, KernelKept, PagesKept, NodesKept DEF EventsOK
<1> SUFFICES PixelsOK' /\ CanvasTasksOK' /\ TasksOK'
  BY <1>2, TypesNext
<1>3. ASSUME NEW type, TakeCanvas(type)
      PROVE  /\ CanvasTasksOK' /\ CanvasTaskOK(CanvasTask) /\ CanvasTask.type = type
             /\ canvas_pc' = "timers"
  BY <1>1, <1>3, TypeParts, TakeCanvasTyped DEF TakeCanvas
<1>4. pixels \in Canvases /\ pixels \in Patches /\ modified_pixels \in Patches
  BY PatchDef DEF TypeOK
<1>5. CASE PixelUpdate
  <2> DEFINE ch == Changes(CanvasTask.data)
  <2>1. /\ TakeCanvas("PIXEL_UPDATE") /\ UNCHANGED <<cm_queue, due, lost>>
        /\ pixels' = Overlaid(pixels, ch) /\ modified_pixels' = Overlaid(modified_pixels, ch)
    BY <1>5 DEF PixelUpdate
  <2>2. CanvasTask.data \in Seq(Chunks)
    BY <1>3, <2>1 DEF CanvasTaskOK
  <2>3. ch \in Patches
    BY <2>2, ChangesTyped
  <2> HIDE DEF ch
  <2>4. pixels' \in Canvases /\ modified_pixels' \in Patches
    BY <1>4, <2>1, <2>3, OverlaidTyped
  <2>5. PixelsOK'
    BY <1>3, <2>1, <2>4 DEF PixelsOK, TypeOK, Canvases, Patches
  <2> QED BY <1>1, <1>3, <2>1, <2>5, TypeParts, TasksKept
<1>6. CASE SendCanvas
  <2> DEFINE message == [type |-> "INIT_CANAVAS", fd |-> CanvasTask.fd, data |-> trans_canvas_as_json]
  <2>1. /\ TakeCanvas("NEW_CLIENT") /\ cm_queue' = Pushed(cm_queue, message)
        /\ UNCHANGED <<pixels, modified_pixels, due, lost>>
    BY <1>6 DEF SendCanvas
  <2>2. CanvasTask.fd \in Fds
    BY <1>3, <2>1 DEF CanvasTaskOK
  <2>3. CMTaskOK(message)
    BY <1>4, <2>2 DEF CMTaskOK, trans_canvas_as_json
  <2> HIDE DEF message
  <2>4. PixelsOK'
    BY <1>3, <2>1 DEF PixelsOK, TypeOK, Canvases, Patches
  <2> QED BY <1>1, <1>3, <2>1, <2>3, <2>4, TypeParts, PushTyped
<1>7. CASE Timers
  <2>1. canvas_queue' = canvas_queue /\ pixels' = pixels /\ canvas_pc' = "pop" /\ due' = FALSE
    BY <1>7 DEF Timers
  <2>2. CanvasTasksOK'
    BY <1>1, <2>1, TypeParts, CanvasTasksKept
  <2>3. CASE BroadcastUpdates
    <3> DEFINE message == [type |-> "BROADCAST", fd |-> 0, data |-> modified_pixels]
    <3>1. /\ cm_queue' = Pushed(cm_queue, message)
          /\ lost' = lost \ DOMAIN modified_pixels \/ lost' = lost \cup DOMAIN modified_pixels
          /\ modified_pixels' = <<>>
      BY <2>3 DEF BroadcastUpdates
    <3>2. CMTaskOK(message)
      BY <1>4 DEF CMTaskOK
    <3> HIDE DEF message
    <3>3. <<>> \in Patches
      <4>1. <<>> \in [{} -> Colors] /\ {} \in SUBSET Keys
        OBVIOUS
      <4> QED BY <4>1, PatchDef
    <3>4. lost' \subseteq Keys
      BY <1>4, <3>1, PatchDef DEF TypeOK
    <3>5. PixelsOK'
      BY <2>1, <3>1, <3>3, <3>4 DEF PixelsOK, TypeOK, Canvases, Patches
    <3> QED BY <1>1, <2>2, <3>1, <3>2, <3>5, TypeParts, PushTyped
  <2>4. CASE UNCHANGED <<cm_queue, lost, modified_pixels>>
    <3>1. PixelsOK'
      BY <2>1, <2>4 DEF PixelsOK, TypeOK, Canvases, Patches
    <3> QED BY <1>1, <2>2, <2>4, <3>1, TypeParts, TasksKept
  <2> QED BY <1>7, <2>3, <2>4 DEF Timers
<1> QED BY <1>5, <1>6, <1>7 DEF CanvasThread, CanvasStep

LEMMA NotifiedTyped ==
  ASSUME TypeOK, NEW c \in Conns
  PROVE  NotifiedOf(c) \in Seq(Fds \cup {Listen}) /\ Notified(ready, Listen) \in Seq(Fds \cup {Listen})
<1> DEFINE S == Fds \cup {Listen}
<1>1. ready \in Seq(S)
  BY DEF TypeOK
<1>2. \A f \in S : Append(ready, f) \in Seq(S)
  BY <1>1, AppendProperties
<1>3. \A f \in S : Notified(ready, f) \in Seq(S)
  BY <1>1, <1>2 DEF Notified
<1>4. c \in Accepted => FdOf(c) \in Fds
  BY DEF Accepted, FdOf
<1> QED BY <1>1, <1>3, <1>4 DEF NotifiedOf

LEMMA BrowsersTyped == ASSUME TypeOK, Browsers PROVE TypeOK'
<1>1. /\ UNCHANGED <<world, cm_queue, canvas_queue, clients, client_count, crashed, events>>
      /\ UNCHANGED canvasVars /\ world' = world
  BY DEF Browsers, cmVars
<1>2. /\ TasksOK' /\ CanvasTasksOK' /\ NodesOK' /\ EventsOK' /\ PixelsOK'
      /\ (world \in DOMAIN Worlds)'
  BY <1>1, TypeParts, TasksKept, CanvasTasksKept, NodesKept, PixelsKept DEF EventsOK
<1> SUFFICES KernelOK' /\ PagesOK'
  BY <1>2, TypesNext
<1>3. PICK c \in Conns : Browser(c)
  BY DEF Browsers
<1>4. NotifiedOf(c) \in Seq(Fds \cup {Listen}) /\ Notified(ready, Listen) \in Seq(Fds \cup {Listen})
  BY NotifiedTyped
<1>5. CASE Connect(c)
  <2>1. /\ peer' = [peer EXCEPT ![c] = "up"] /\ backlog' = Append(backlog, c)
        /\ ready' = Notified(ready, Listen)
        /\ UNCHANGED <<sent, sock, rx>> /\ UNCHANGED browserVars
    BY <1>5 DEF Connect, browserVars
  <2>2. backlog' \in Seq(Conns)
    BY <2>1, AppendProperties DEF TypeOK
  <2>3. peer' \in [Conns -> {"new", "up", "fin"}]
    BY <2>1 DEF TypeOK
  <2> QED BY <1>1, <1>4, <2>1, <2>2, <2>3, TypeParts, PagesKept, WorldKept DEF KernelOK
<1>6. CASE ClientClose(c)
  <2>1. /\ peer' = [peer EXCEPT ![c] = "fin"] /\ ready' = NotifiedOf(c)
        /\ UNCHANGED <<sent, backlog, sock, rx>> /\ UNCHANGED browserVars
    BY <1>6 DEF ClientClose, browserVars
  <2>2. peer' \in [Conns -> {"new", "up", "fin"}]
    BY <2>1 DEF TypeOK
  <2> QED BY <1>1, <1>4, <2>1, <2>2, TypeParts, PagesKept, WorldKept DEF KernelOK
<1>7. CASE ClientSend(c)
  <2> DEFINE chunk == [conn |-> c, n |-> sent[c] + 1]
  <2>1. /\ sent[c] < Len(Script[c])
        /\ sent' = [sent EXCEPT ![c] = sent[c] + 1]
        /\ rx' = [rx EXCEPT ![c] = Append(rx[c], chunk)]
        /\ ready' = NotifiedOf(c)
        /\ Click(c, chunk)
        /\ UNCHANGED <<peer, wire, backlog, sock>>
    BY <1>7 DEF ClientSend
  <2>2. /\ sent \in [Conns -> Nat] /\ \A d \in Conns : sent[d] <= Len(Script[d])
        /\ \A d \in Conns : Len(Script[d]) \in Nat
    BY ScriptSeq DEF TypeOK
  <2>3. chunk \in Chunks
    <3>1. sent[c] + 1 \in 1 .. Len(Script[c])
      BY <2>1, <2>2
    <3> QED BY <3>1, ScriptSeq DEF TypeOK
  <2>4. rx' \in [Conns -> Seq(Chunks)]
    <3>1. Append(rx[c], chunk) \in Seq(Chunks)
      BY <2>3, AppendProperties DEF TypeOK
    <3> QED BY <2>1, <3>1 DEF TypeOK
  <2> HIDE DEF chunk
  <2>5. sent' \in [Conns -> Nat] /\ \A d \in Conns : sent'[d] <= Len(Script[d])
    BY <2>1, <2>2
  <2>6. PagesOK'
    <3>1. CASE UNCHANGED <<screen, behind>>
      BY <2>1, <3>1, TypeParts, PagesKept DEF browserVars
    <3>2. CASE ~UNCHANGED <<screen, behind>>
      <4> DEFINE k == Content(chunk).key
                 v == Content(chunk).val
      <4>1. /\ k \in Keys /\ v \in Colors
            /\ screen' = [screen EXCEPT ![c][k] = v]
            /\ behind' = [behind EXCEPT ![c] = @ \cup {k}]
        BY <2>1, <3>2 DEF Click
      <4> HIDE DEF k, v
      <4> QED BY <2>1, <4>1, TypeParts DEF PagesOK
    <3> QED BY <3>1, <3>2
  <2> QED BY <1>1, <1>4, <2>1, <2>4, <2>5, <2>6, TypeParts, WorldKept DEF KernelOK
<1> QED BY <1>3, <1>5, <1>6, <1>7 DEF Browser

LEMMA InitTyped == ASSUME Init PROVE TypeOK
<1>0. clients = <<>> /\ client_count = 0 /\ crashed = FALSE
  BY DEF Init, CMInit
<1>5. NodesOK
  <2>1. clients \in Seq(Nodes) /\ client_count \in Int
    BY <1>0, EmptySeq
  <2>2. crashed \in BOOLEAN
    BY <1>0, Zenon
  <2> QED BY <2>1, <2>2 DEF NodesOK
<1> USE DEF Init, NetInit, LoopInit, CanvasInit
<1>1. TasksOK
  BY EmptySeq DEF TasksOK
<1>2. CanvasTasksOK
  BY EmptySeq DEF CanvasTasksOK
<1>3. KernelOK
  <2>1. \A c \in Conns : Len(Script[c]) \in Nat
    BY ScriptSeq
  <2>2. /\ backlog \in Seq(Conns) /\ ready \in Seq(Fds \cup {Listen})
        /\ rx \in [Conns -> Seq(Chunks)]
    BY EmptySeq
  <2>3. /\ peer \in [Conns -> {"new", "up", "fin"}]
        /\ sock \in [Fds -> Conns \cup {None}]
        /\ sent \in [Conns -> Nat] /\ \A c \in Conns : sent[c] <= Len(Script[c])
    BY <2>1
  <2> QED BY <2>2, <2>3 DEF KernelOK
<1>4. PagesOK
  BY DEF PagesOK
<1>6. EventsOK
  BY EmptySeq DEF EventsOK
<1>7. PixelsOK
  <2>1. pixels \in Canvases
    BY NetworkAssumption DEF Canvases
  <2>2. <<>> \in [{} -> Colors] /\ {} \in SUBSET Keys
    OBVIOUS
  <2>3. modified_pixels \in Patches
    BY <2>2, PatchDef
  <2> QED BY <2>1, <2>3 DEF PixelsOK
<1> QED BY <1>1, <1>2, <1>3, <1>4, <1>5, <1>6, <1>7, TypeParts

LEMMA StutterTyped == ASSUME TypeOK, UNCHANGED vars PROVE TypeOK'
<1>1. /\ UNCHANGED kernelVars /\ UNCHANGED browserVars /\ UNCHANGED canvasVars
      /\ UNCHANGED <<world, cm_queue>> /\ UNCHANGED <<world, canvas_queue>>
      /\ UNCHANGED <<world, clients, client_count, crashed>> /\ events' = events
  BY DEF vars, netVars, kernelVars, browserVars, cmVars
<1> QED BY <1>1, TypeParts, TypesNext, TasksKept, CanvasTasksKept, KernelKept, PagesKept, NodesKept,
           PixelsKept DEF EventsOK

LEMMA NextTyped == ASSUME TypeOK, [Next]_vars PROVE TypeOK'
<1>1. CASE Clock
  <2>1. /\ UNCHANGED kernelVars /\ UNCHANGED browserVars
        /\ UNCHANGED <<world, cm_queue>> /\ UNCHANGED <<world, canvas_queue>>
        /\ UNCHANGED <<world, clients, client_count, crashed>> /\ events' = events
        /\ UNCHANGED <<pixels, modified_pixels, canvas_pc, lost>> /\ due' = TRUE
    BY <1>1 DEF Clock, Tick, netVars, kernelVars, browserVars, cmVars
  <2>2. PixelsOK'
    BY <2>1 DEF PixelsOK, TypeOK, Canvases, Patches
  <2> QED BY <2>1, <2>2, TypeParts, TypesNext, TasksKept, CanvasTasksKept, KernelKept, PagesKept, NodesKept
             DEF EventsOK
<1> QED BY <1>1, CMThreadTyped, LoopThreadTyped, CanvasThreadTyped, BrowsersTyped, StutterTyped DEF Next

(***************************************************************************)
(* Every variable of the server keeps its type: in particular every task   *)
(* in either queue is one of those its reader knows, with the fields that  *)
(* the reader uses, and every pixel has a valid color.                     *)
(***************************************************************************)
THEOREM TypeCorrect == Spec => []TypeOK
<1>1. Init => TypeOK
  BY InitTyped
<1>2. TypeOK /\ [Next]_vars => TypeOK'
  BY NextTyped
<1> QED BY <1>1, <1>2, PTL DEF Spec

-----------------------------------------------------------------------------
(* What a step of the client manager does to the nodes                     *)

ListKept == UNCHANGED <<clients, client_count, canvas_queue>> /\ UNCHANGED kernelVars

NodeUpdated ==
  \E i \in DOMAIN clients, node \in Nodes :
    /\ clients[i].fd = Task.fd /\ node.fd = Task.fd
    /\ Update(i, node)
    /\ UNCHANGED kernelVars
    /\ \/ node.state = clients[i].state /\ client_count' = client_count
       \/ node.state = "open" /\ client_count' = client_count + 1
    /\ node.buf = <<>> \/ node.buf = clients[i].buf \o Data(Task)
    /\ \/ canvas_queue' = canvas_queue
       \/ \E task : /\ canvas_queue' = Pushed(canvas_queue, task)
                    /\ node.buf = <<>>
                    /\ Data(task) = <<>> \/ Data(task) = clients[i].buf \o Data(Task)

NodesRemoved ==
  \E F : /\ removeClients(F)
         /\ canvas_queue' = canvas_queue
         /\ \/ client_count' = client_count
            \/ \E i \in DOMAIN clients : /\ clients[i].fd \in F /\ clients[i].state = "open"
                                         /\ client_count' = client_count - 1

LEMMA RespondUpdates ==
  ASSUME TypeOK, NEW i \in DOMAIN clients, clients[i].fd = Task.fd, Respond(i)
  PROVE  NodeUpdated
<1>1. clients[i] \in Nodes /\ Cleared(i) \in Nodes
  BY TypeParts, NodeTyped
<1>2. Cleared(i).fd = Task.fd /\ Cleared(i).state = clients[i].state /\ Cleared(i).buf = <<>>
  BY <1>1 DEF Cleared, Nodes
<1>3. Update(i, Cleared(i)) /\ UNCHANGED <<client_count, canvas_queue>> /\ UNCHANGED kernelVars
  BY DEF Respond, netVars, kernelVars
<1> QED BY <1>1, <1>2, <1>3 DEF NodeUpdated

LEMMA UpgradeUpdates ==
  ASSUME TypeOK, NEW i \in DOMAIN clients, clients[i].fd = Task.fd, Upgrade(i)
  PROVE  NodeUpdated
<1> DEFINE node == [Cleared(i) EXCEPT !.state = "open"]
           task == [type |-> "NEW_CLIENT", fd |-> clients[i].fd]
<1>1. clients[i] \in Nodes /\ node \in Nodes
  BY TypeParts, NodeTyped DEF States
<1>2. node.fd = Task.fd /\ node.state = "open" /\ node.buf = <<>>
  BY <1>1 DEF Cleared, Nodes
<1>3. /\ Update(i, node) /\ client_count' = client_count + 1 /\ UNCHANGED kernelVars
      /\ canvas_queue' = Pushed(canvas_queue, task)
  BY DEF Upgrade
<1>4. Data(task) = <<>>
  BY DEF Data
<1> HIDE DEF node, task
<1> QED BY <1>1, <1>2, <1>3, <1>4 DEF NodeUpdated

LEMMA HandleHttpUpdates ==
  ASSUME TypeOK, NEW i \in DOMAIN clients, clients[i].fd = Task.fd, NEW req, HandleHttp(i, req)
  PROVE  NodeUpdated
BY RespondUpdates, UpgradeUpdates DEF HandleHttp

LEMMA CMCases ==
  ASSUME TypeOK, CMStep
  PROVE  /\ cm_queue # <<>> /\ cm_queue' = Tail(cm_queue)
         /\ ListKept \/ AddClient \/ AddClientFails \/ NodeUpdated \/ NodesRemoved
<1>1. cm_queue # <<>> /\ cm_queue' = Tail(cm_queue)
  <2>1. \E type : Take(type)
    BY DEF CMStep, AddClient, AddClientFails, AcceptFails, NoClient, Overflow, HttpRequest,
           IncompleteHttp, UnknownMessage, UnknownOverflow, FrameMessage, IncompleteFrame,
           ClientGone, WebsocketClose, InitCanvas, NullClient, Broadcast
  <2> QED BY <2>1 DEF Take
<1>2. ASSUME Ignore PROVE ListKept
  BY <1>2 DEF Ignore, ListKept, netVars, kernelVars
<1>3. ASSUME NEW type, Overflow(type) PROVE NodesRemoved
  <2>1. removeClients({Task.fd}) /\ UNCHANGED <<client_count, canvas_queue>>
    BY <1>3 DEF Overflow
  <2> QED BY <2>1 DEF NodesRemoved
<1> DEFINE i == find_client(Task.fd)
<1>4. ASSUME i # 0 PROVE i \in DOMAIN clients /\ clients[i].fd = Task.fd
  BY <1>4, TypeParts, FindClient
<1>5. CASE HttpRequest \/ UnknownMessage
  <2>1. /\ i # 0
        /\ HandleHttp(i, clients[i].buf \o Task.data) \/ Respond(i)
    BY <1>5 DEF HttpRequest, UnknownMessage
  <2> HIDE DEF i
  <2> QED BY <1>1, <1>4, <2>1, HandleHttpUpdates, RespondUpdates
<1>6. CASE IncompleteHttp \/ IncompleteFrame \/ FrameMessage
  <2>1. /\ i # 0 /\ Task.type \in ClientTaskTypes
        /\ UNCHANGED kernelVars /\ client_count' = client_count
    BY <1>6 DEF IncompleteHttp, IncompleteFrame, FrameMessage, Take, netVars, kernelVars, ClientTaskTypes
  <2>2. Data(Task) = Task.data /\ Task.data \in Seq(Chunks)
    BY <1>1, <2>1, TaskContents DEF Data, ClientTaskTypes
  <2> DEFINE message == clients[i].buf \o Task.data
             half == [clients[i] EXCEPT !.buf = message, !.ihttp = TRUE]
             more == [clients[i] EXCEPT !.buf = message]
             done == [clients[i] EXCEPT !.buf = <<>>]
             task == [type |-> "PIXEL_UPDATE", fd |-> 0, data |-> message]
  <2>3. \/ Update(i, half) /\ canvas_queue' = canvas_queue
        \/ Update(i, more) /\ canvas_queue' = canvas_queue
        \/ Update(i, done) /\ canvas_queue' = Pushed(canvas_queue, task)
    BY <1>6 DEF IncompleteHttp, IncompleteFrame, FrameMessage
  <2> HIDE DEF i
  <2>4. i \in DOMAIN clients /\ clients[i].fd = Task.fd
    BY <1>4, <2>1
  <2>5. clients[i] \in Nodes /\ half \in Nodes /\ more \in Nodes /\ done \in Nodes
    BY <2>2, <2>4, TypeParts, NodeTyped
  <2>6. /\ half.fd = Task.fd /\ more.fd = Task.fd /\ done.fd = Task.fd
        /\ half.buf = message /\ more.buf = message /\ done.buf = <<>>
        /\ half.state = clients[i].state /\ more.state = clients[i].state /\ done.state = clients[i].state
    BY <2>4, <2>5 DEF Nodes
  <2>7. Data(task) = message
    BY DEF Data
  <2>8. message = clients[i].buf \o Data(Task)
    BY <2>2
  <2> HIDE DEF half, more, done, task, message
  <2>9. CASE Update(i, half) /\ canvas_queue' = canvas_queue
    BY <1>1, <2>1, <2>4, <2>5, <2>6, <2>8, <2>9 DEF NodeUpdated
  <2>10. CASE Update(i, more) /\ canvas_queue' = canvas_queue
    BY <1>1, <2>1, <2>4, <2>5, <2>6, <2>8, <2>10 DEF NodeUpdated
  <2>11. CASE Update(i, done) /\ canvas_queue' = Pushed(canvas_queue, task)
    BY <1>1, <2>1, <2>4, <2>5, <2>6, <2>7, <2>8, <2>11 DEF NodeUpdated
  <2> QED BY <2>3, <2>9, <2>10, <2>11
<1>7. CASE ClientGone
  <2>1. removeClients({Task.fd}) /\ UNCHANGED <<client_count, canvas_queue>>
    BY <1>7 DEF ClientGone
  <2> QED BY <1>1, <2>1 DEF NodesRemoved
<1>8. CASE WebsocketClose
  <2>1. i # 0 /\ canvas_queue' = canvas_queue
    BY <1>8 DEF WebsocketClose
  <2>2. \/ clients[i].state = "open" /\ removeClients({Task.fd}) /\ client_count' = client_count - 1
        \/ UNCHANGED <<clients, client_count, kernelVars>>
    BY <1>8 DEF WebsocketClose
  <2>3. i \in DOMAIN clients /\ clients[i].fd = Task.fd
    BY <1>4, <2>1
  <2> HIDE DEF i
  <2> QED BY <1>1, <2>1, <2>2, <2>3 DEF NodesRemoved, ListKept
<1>9. CASE InitCanvas \/ NullClient
  BY <1>1, <1>9 DEF InitCanvas, NullClient, ListKept, netVars, kernelVars
<1>10. CASE Broadcast
  <2>1. (\E F : removeClients(F)) /\ UNCHANGED <<client_count, canvas_queue>>
    BY <1>10 DEF Broadcast
  <2> QED BY <1>1, <2>1 DEF NodesRemoved
<1> QED BY <1>1, <1>2, <1>3, <1>5, <1>6, <1>7, <1>8, <1>9, <1>10
        DEF CMStep, AcceptFails, NoClient, UnknownOverflow

-----------------------------------------------------------------------------
(* The list and the sockets                                                *)

(* The server has not been handed this connection yet. *)
Fresh(c) == peer[c] = "new" \/ \E i \in DOMAIN backlog : backlog[i] = c

SocketsFit ==
  /\ ListMatchesSockets
  /\ \A i, j \in DOMAIN backlog : backlog[i] = backlog[j] => i = j
  /\ \A i \in DOMAIN backlog : peer[backlog[i]] # "new"
  /\ \A f \in Fds : \A c \in Conns : sock[f] = c => ~Fresh(c)

LEMMA BacklogTail ==
  ASSUME TypeOK, backlog # <<>>, backlog' = Tail(backlog)
  PROVE  /\ DOMAIN backlog = 1 .. Len(backlog) /\ Len(backlog) \in Nat \ {0}
         /\ DOMAIN backlog' = 1 .. Len(backlog) - 1
         /\ \A i \in DOMAIN backlog' : i + 1 \in DOMAIN backlog /\ backlog'[i] = backlog[i + 1]
         /\ Head(backlog) = backlog[1] /\ 1 \in DOMAIN backlog
         /\ Head(backlog) \in Conns
<1>1. backlog \in Seq(Conns) /\ IsSeq(backlog)
  BY SeqOfRange DEF TypeOK, IsSeq
<1>2. /\ DOMAIN backlog = 1 .. Len(backlog) /\ Len(backlog) \in Nat \ {0}
      /\ DOMAIN backlog' = 1 .. Len(backlog) - 1
      /\ \A i \in 1 .. Len(backlog) - 1 : backlog'[i] = backlog[i + 1]
      /\ Head(backlog) = backlog[1]
  BY <1>1, TailSeq
<1>3. Head(backlog) \in Conns
  BY <1>1, HeadTailProperties
<1> QED BY <1>2, <1>3

LEMMA AppendBacklog ==
  ASSUME TypeOK, NEW c, backlog' = Append(backlog, c)
  PROVE  /\ DOMAIN backlog = 1 .. Len(backlog) /\ Len(backlog) \in Nat
         /\ DOMAIN backlog' = 1 .. Len(backlog) + 1
         /\ \A i \in DOMAIN backlog : backlog'[i] = backlog[i]
         /\ backlog'[Len(backlog) + 1] = c
<1>1. IsSeq(backlog)
  BY SeqOfRange DEF TypeOK, IsSeq
<1> QED BY <1>1, AppendSeq

(* A connection that is handed out leaves the backlog for good. *)
LEMMA BacklogTaken ==
  ASSUME TypeOK, SocketsFit, backlog # <<>>, backlog' = Tail(backlog), peer' = peer,
         NEW c, c = Head(backlog)
  PROVE  /\ \A d \in Conns : Fresh(d)' => Fresh(d)
         /\ c \in Conns /\ Fresh(c) /\ ~Fresh(c)'
         /\ \A i, j \in DOMAIN backlog' : backlog'[i] = backlog'[j] => i = j
         /\ \A i \in DOMAIN backlog' : peer'[backlog'[i]] # "new"
<1>1. /\ DOMAIN backlog = 1 .. Len(backlog) /\ Len(backlog) \in Nat \ {0}
      /\ DOMAIN backlog' = 1 .. Len(backlog) - 1
      /\ \A i \in DOMAIN backlog' : i + 1 \in DOMAIN backlog /\ backlog'[i] = backlog[i + 1]
      /\ c = backlog[1] /\ 1 \in DOMAIN backlog /\ c \in Conns
  BY BacklogTail
<1>2. \A d \in Conns : Fresh(d)' => Fresh(d)
  BY <1>1 DEF Fresh
<1>3. Fresh(c)
  BY <1>1 DEF Fresh
<1>4. ASSUME NEW i \in DOMAIN backlog' PROVE backlog'[i] # c
  BY <1>1 DEF SocketsFit
<1>5. peer'[c] # "new"
  BY <1>1 DEF SocketsFit
<1>6. ~Fresh(c)'
  BY <1>4, <1>5 DEF Fresh
<1>7. \A i, j \in DOMAIN backlog' : backlog'[i] = backlog'[j] => i = j
  <2> SUFFICES ASSUME NEW i \in DOMAIN backlog', NEW j \in DOMAIN backlog', backlog'[i] = backlog'[j]
               PROVE  i = j
    OBVIOUS
  <2>1. i + 1 = j + 1
    BY <1>1 DEF SocketsFit
  <2> QED BY <1>1, <2>1
<1>8. \A i \in DOMAIN backlog' : peer'[backlog'[i]] # "new"
  BY <1>1 DEF SocketsFit
<1> QED BY <1>1, <1>2, <1>3, <1>6, <1>7, <1>8

LEMMA SameSockets ==
  ASSUME TypeOK, SocketsFit, sock' = sock,
         DOMAIN clients' = DOMAIN clients, \A i \in DOMAIN clients : clients'[i].fd = clients[i].fd
  PROVE  ListMatchesSockets'
BY DEF SocketsFit, ListMatchesSockets

(* The nodes that removeClients leaves are nodes that were there. *)
LEMMA Removed ==
  ASSUME TypeOK, NEW F, removeClients(F)
  PROVE  \E e \in [DOMAIN clients' -> DOMAIN clients] :
           /\ \A j \in DOMAIN clients' : clients'[j] = clients[e[j]] /\ clients[e[j]].fd \notin F
           /\ \A j, k \in DOMAIN clients' : e[j] = e[k] => j = k
           /\ \A i \in DOMAIN clients : clients[i].fd \notin F => \E j \in DOMAIN clients' : e[j] = i
<1> DEFINE P == {i \in DOMAIN clients : clients[i].fd \notin F}
<1>1. clients' = Picked(clients, P)
  BY DEF removeClients
<1>2. P \in SUBSET DOMAIN clients /\ clients \in Seq(Nodes)
  BY TypeParts DEF NodesOK
<1> HIDE DEF P
<1>3. clients' \in Seq(Nodes) /\ \E e : Embeds(clients', clients, P, e)
  BY <1>1, <1>2, PickedElements
<1>4. PICK e : Embeds(clients', clients, P, e)
  BY <1>3
<1>5. Len(clients') \in Nat /\ DOMAIN clients' = 1 .. Len(clients')
  BY <1>3, LenProperties
<1>6. e \in [DOMAIN clients' -> P] /\ \A j \in DOMAIN clients' : clients'[j] = clients[e[j]]
  BY <1>4, <1>5 DEF Embeds
<1>7. ASSUME NEW j \in DOMAIN clients', NEW k \in DOMAIN clients', e[j] = e[k] PROVE j = k
  <2>1. e[j] \in Nat /\ e[k] \in Nat
    <3>1. DOMAIN clients \subseteq Nat
      BY <1>2, LenProperties
    <3> QED BY <1>2, <1>6, <3>1
  <2>2. ~(j < k) /\ ~(k < j)
    BY <1>4, <1>5, <1>7, <2>1 DEF Embeds
  <2> QED BY <1>5, <2>2
<1>8. \A i \in P : \E j \in DOMAIN clients' : e[j] = i
  BY <1>4, <1>5 DEF Embeds
<1>9. e \in [DOMAIN clients' -> DOMAIN clients] /\ \A j \in DOMAIN clients' : clients[e[j]].fd \notin F
  BY <1>2, <1>6 DEF P
<1> QED BY <1>6, <1>7, <1>8, <1>9 DEF P

LEMMA RemovedSockets ==
  ASSUME TypeOK, SocketsFit, NEW F, removeClients(F)
  PROVE  ListMatchesSockets'
<1>1. PICK e \in [DOMAIN clients' -> DOMAIN clients] :
           /\ \A j \in DOMAIN clients' : clients'[j] = clients[e[j]] /\ clients[e[j]].fd \notin F
           /\ \A j, k \in DOMAIN clients' : e[j] = e[k] => j = k
           /\ \A i \in DOMAIN clients : clients[i].fd \notin F => \E j \in DOMAIN clients' : e[j] = i
  BY Removed
<1>2. sock' = [f \in Fds |-> IF f \in F THEN None ELSE sock[f]]
  BY DEF removeClients, Close
<1>3. /\ {clients[i].fd : i \in DOMAIN clients} = {f \in Fds : sock[f] # None}
      /\ \A i, j \in DOMAIN clients : clients[i].fd = clients[j].fd => i = j
      /\ \A f, g \in Fds : sock[f] = sock[g] /\ sock[f] # None => f = g
  BY DEF SocketsFit, ListMatchesSockets
<1>4. {clients'[j].fd : j \in DOMAIN clients'} = {f \in Fds : sock'[f] # None}
  <2>1. ASSUME NEW j \in DOMAIN clients'
        PROVE  clients'[j].fd \in Fds /\ sock'[clients'[j].fd] # None
    BY <1>1, <1>2, <1>3
  <2>2. ASSUME NEW f \in Fds, sock'[f] # None
        PROVE  \E j \in DOMAIN clients' : clients'[j].fd = f
    <3>1. f \notin F /\ sock[f] # None
      BY <1>2, <2>2
    <3>2. PICK i \in DOMAIN clients : clients[i].fd = f
      BY <1>3, <3>1
    <3>3. PICK j \in DOMAIN clients' : e[j] = i
      BY <1>1, <3>1, <3>2
    <3> QED BY <1>1, <3>2, <3>3
  <2> QED BY <2>1, <2>2
<1>5. \A i, j \in DOMAIN clients' : clients'[i].fd = clients'[j].fd => i = j
  BY <1>1, <1>3
<1>6. \A f, g \in Fds : sock'[f] = sock'[g] /\ sock'[f] # None => f = g
  BY <1>2, <1>3
<1> QED BY <1>4, <1>5, <1>6 DEF ListMatchesSockets

(* The new node is the head of the list. *)
LEMMA Added ==
  ASSUME TypeOK, AddClient
  PROVE  /\ DOMAIN clients = 1 .. Len(clients) /\ Len(clients) \in Nat
         /\ DOMAIN clients' = 1 .. Len(clients) + 1
         /\ clients'[1] = NewClient(LowestFree)
         /\ \A i \in DOMAIN clients : clients'[i + 1] = clients[i]
<1> DEFINE node == NewClient(LowestFree)
<1>1. clients' = <<node>> \o clients /\ FreeFds # {}
  BY DEF AddClient
<1>2. LowestFree \in Fds
  BY <1>1, LowestFreeIn
<1>3. node \in Nodes
  BY <1>2, EmptySeq DEF NewClient, Nodes, States
<1> HIDE DEF node
<1>4. <<node>> \in Seq(Nodes) /\ Len(<<node>>) = 1 /\ <<node>>[1] = node /\ clients \in Seq(Nodes)
  BY <1>3, TypeParts DEF NodesOK
<1>5. /\ clients' \in Seq(Nodes) /\ Len(clients') = 1 + Len(clients)
      /\ \A i \in 1 .. 1 + Len(clients) : clients'[i] = IF i <= 1 THEN <<node>>[i] ELSE clients[i - 1]
  BY <1>1, <1>4, ConcatProperties
<1>6. DOMAIN clients = 1 .. Len(clients) /\ Len(clients) \in Nat
  BY <1>4, LenProperties
<1>7. DOMAIN clients' = 1 .. Len(clients) + 1
  BY <1>5, <1>6, LenProperties
<1>8. clients'[1] = node
  BY <1>4, <1>5, <1>6
<1>9. ASSUME NEW i \in DOMAIN clients PROVE clients'[i + 1] = clients[i]
  <2>1. i + 1 \in 1 .. 1 + Len(clients) /\ ~(i + 1 <= 1) /\ (i + 1) - 1 = i
    BY <1>6
  <2> QED BY <1>5, <2>1
<1> QED BY <1>6, <1>7, <1>8, <1>9 DEF node

LEMMA AddedSockets ==
  ASSUME TypeOK, SocketsFit, AddClient
  PROVE  SocketsFit'
<1> DEFINE fd == LowestFree
<1>0. PICK c : c = Head(backlog)
  OBVIOUS
<1>1. /\ DOMAIN clients = 1 .. Len(clients) /\ Len(clients) \in Nat
      /\ DOMAIN clients' = 1 .. Len(clients) + 1
      /\ clients'[1].fd = fd
      /\ \A i \in DOMAIN clients : clients'[i + 1] = clients[i]
  BY Added DEF NewClient
<1>2. /\ backlog # <<>> /\ backlog' = Tail(backlog) /\ peer' = peer
      /\ sock' = [sock EXCEPT ![fd] = c]
      /\ FreeFds # {}
  BY <1>0 DEF AddClient
<1>3. fd \in Fds /\ sock[fd] = None
  BY <1>2, LowestFreeIn
<1> HIDE DEF fd
<1>4. /\ \A d \in Conns : Fresh(d)' => Fresh(d)
      /\ c \in Conns /\ Fresh(c) /\ ~Fresh(c)'
      /\ \A i, j \in DOMAIN backlog' : backlog'[i] = backlog'[j] => i = j
      /\ \A i \in DOMAIN backlog' : peer'[backlog'[i]] # "new"
  BY <1>0, <1>2, BacklogTaken
<1>5. sock'[fd] = c /\ (\A f \in Fds : f # fd => sock'[f] = sock[f]) /\ c # None
      /\ sock \in [Fds -> Conns \cup {None}]
  BY <1>2, <1>3, <1>4, NetworkAssumption DEF TypeOK
<1>6. /\ {clients[i].fd : i \in DOMAIN clients} = {f \in Fds : sock[f] # None}
      /\ \A i, j \in DOMAIN clients : clients[i].fd = clients[j].fd => i = j
      /\ \A f, g \in Fds : sock[f] = sock[g] /\ sock[f] # None => f = g
      /\ \A f \in Fds : \A d \in Conns : sock[f] = d => ~Fresh(d)
  BY DEF SocketsFit, ListMatchesSockets
<1>7. \A j \in DOMAIN clients' : j = 1 \/ (j - 1 \in DOMAIN clients /\ clients'[j] = clients[j - 1])
  <2> SUFFICES ASSUME NEW j \in DOMAIN clients', j # 1
               PROVE  j - 1 \in DOMAIN clients /\ clients'[j] = clients[j - 1]
    OBVIOUS
  <2>1. j - 1 \in DOMAIN clients /\ (j - 1) + 1 = j
    BY <1>1
  <2> QED BY <1>1, <2>1
<1>8. {clients'[j].fd : j \in DOMAIN clients'} = {f \in Fds : sock'[f] # None}
  <2>1. ASSUME NEW j \in DOMAIN clients'
        PROVE  clients'[j].fd \in Fds /\ sock'[clients'[j].fd] # None
    BY <1>1, <1>3, <1>5, <1>6, <1>7
  <2>2. ASSUME NEW f \in Fds, sock'[f] # None
        PROVE  \E j \in DOMAIN clients' : clients'[j].fd = f
    <3>1. CASE f = fd
      BY <1>1, <3>1
    <3>2. CASE f # fd
      <4>1. PICK i \in DOMAIN clients : clients[i].fd = f
        BY <1>5, <1>6, <2>2, <3>2
      <4>2. i + 1 \in DOMAIN clients' /\ clients'[i + 1].fd = f
        BY <1>1, <4>1
      <4> QED BY <4>2
    <3> QED BY <3>1, <3>2
  <2> QED BY <2>1, <2>2
<1>9. ASSUME NEW i \in DOMAIN clients', NEW j \in DOMAIN clients', clients'[i].fd = clients'[j].fd PROVE i = j
  <2>1. \A k \in DOMAIN clients : clients[k].fd # fd
    BY <1>3, <1>6
  <2>2. i = 1 <=> j = 1
    BY <1>1, <1>7, <1>9, <2>1
  <2>3. CASE i # 1 /\ j # 1
    <3>1. i - 1 = j - 1
      BY <1>6, <1>7, <1>9, <2>3
    <3> QED BY <1>1, <3>1
  <2> QED BY <2>2, <2>3
<1>10. \A f \in Fds : f # fd => sock'[f] # c
  BY <1>4, <1>5, <1>6
<1>11. \A f, g \in Fds : sock'[f] = sock'[g] /\ sock'[f] # None => f = g
  BY <1>5, <1>6, <1>10
<1>12. ASSUME NEW f \in Fds, NEW d \in Conns, sock'[f] = d PROVE ~Fresh(d)'
  BY <1>4, <1>5, <1>6, <1>12
<1> QED BY <1>4, <1>8, <1>9, <1>11, <1>12 DEF SocketsFit, ListMatchesSockets

LEMMA FreshKept ==
  ASSUME SocketsFit, UNCHANGED <<peer, backlog>>, \A f \in Fds : sock'[f] = sock[f] \/ sock'[f] = None,
         ListMatchesSockets'
  PROVE  SocketsFit'
<1>1. \A c \in Conns : Fresh(c)' <=> Fresh(c)
  BY DEF Fresh
<1>2. \A f \in Fds : \A c \in Conns : sock'[f] = c => ~Fresh(c)
  BY NetworkAssumption DEF SocketsFit
<1>3. (\A f \in Fds : \A c \in Conns : sock[f] = c => ~Fresh(c))'
  BY <1>1, <1>2
<1> QED BY <1>3 DEF SocketsFit

LEMMA ConnectSockets == ASSUME TypeOK, SocketsFit, NEW c \in Conns, Connect(c), clients' = clients PROVE SocketsFit'
<1>1. /\ peer[c] = "new" /\ peer' = [peer EXCEPT ![c] = "up"]
      /\ backlog' = Append(backlog, c) /\ sock' = sock
      /\ peer \in [Conns -> {"new", "up", "fin"}]
  BY DEF Connect, TypeOK
<1>2. /\ DOMAIN backlog = 1 .. Len(backlog) /\ Len(backlog) \in Nat
      /\ DOMAIN backlog' = 1 .. Len(backlog) + 1
      /\ \A i \in DOMAIN backlog : backlog'[i] = backlog[i]
      /\ backlog'[Len(backlog) + 1] = c
  BY <1>1, AppendBacklog
<1>3. /\ \A i, j \in DOMAIN backlog : backlog[i] = backlog[j] => i = j
      /\ \A i \in DOMAIN backlog : peer[backlog[i]] # "new"
      /\ \A f \in Fds : \A d \in Conns : sock[f] = d => ~Fresh(d)
      /\ ListMatchesSockets
  BY DEF SocketsFit
<1>4. \A i \in DOMAIN backlog : backlog[i] # c
  BY <1>1, <1>3
<1>5. ASSUME NEW i \in DOMAIN backlog', NEW j \in DOMAIN backlog', backlog'[i] = backlog'[j] PROVE i = j
  BY <1>2, <1>3, <1>4, <1>5
<1>6. ASSUME NEW i \in DOMAIN backlog' PROVE peer'[backlog'[i]] # "new"
  <2>1. CASE i = Len(backlog) + 1
    BY <1>1, <1>2, <2>1
  <2>2. CASE i # Len(backlog) + 1
    <3>1. i \in DOMAIN backlog /\ backlog'[i] = backlog[i] /\ backlog[i] # c
      BY <1>2, <1>4, <2>2
    <3>2. peer'[backlog[i]] = peer[backlog[i]]
      BY <1>1, <3>1
    <3> QED BY <1>3, <3>1, <3>2
  <2> QED BY <2>1, <2>2
<1>7. ASSUME NEW f \in Fds, NEW d \in Conns, sock'[f] = d PROVE ~Fresh(d)'
  <2>1. ~Fresh(d) /\ Fresh(c)
    BY <1>1, <1>3, <1>7 DEF Fresh
  <2>2. d # c
    BY <2>1
  <2>3. peer'[d] # "new"
    BY <1>1, <2>1, <2>2 DEF Fresh
  <2>4. \A i \in DOMAIN backlog' : backlog'[i] # d
    BY <1>2, <2>1, <2>2 DEF Fresh
  <2> QED BY <2>3, <2>4 DEF Fresh
<1>8. ListMatchesSockets'
  BY <1>1, <1>3 DEF ListMatchesSockets
<1> QED BY <1>5, <1>6, <1>7, <1>8 DEF SocketsFit

LEMMA CMSockets == ASSUME TypeOK, SocketsFit, CMStep PROVE SocketsFit'
<1>1. CASE ListKept
  BY <1>1, FreshKept, SameSockets DEF ListKept, kernelVars
<1>2. CASE AddClient
  BY <1>2, AddedSockets
<1>3. CASE AddClientFails
  <2>0. PICK c : c = Head(backlog)
    OBVIOUS
  <2>1. backlog # <<>> /\ backlog' = Tail(backlog) /\ UNCHANGED <<peer, sock, clients>>
    BY <1>3 DEF AddClientFails
  <2>2. /\ \A d \in Conns : Fresh(d)' => Fresh(d)
        /\ \A i, j \in DOMAIN backlog' : backlog'[i] = backlog'[j] => i = j
        /\ \A i \in DOMAIN backlog' : peer'[backlog'[i]] # "new"
    BY <2>0, <2>1, BacklogTaken
  <2>3. ASSUME NEW f \in Fds, NEW d \in Conns, sock'[f] = d PROVE ~Fresh(d)'
    BY <2>1, <2>2, <2>3 DEF SocketsFit
  <2>4. ListMatchesSockets'
    BY <2>1, SameSockets
  <2> QED BY <2>2, <2>3, <2>4 DEF SocketsFit
<1>4. CASE NodeUpdated
  <2>1. PICK i \in DOMAIN clients, node \in Nodes :
          /\ clients[i].fd = Task.fd /\ node.fd = Task.fd
          /\ Update(i, node)
          /\ UNCHANGED kernelVars
    BY <1>4 DEF NodeUpdated
  <2>2. clients' = [clients EXCEPT ![i] = node] /\ UNCHANGED <<peer, sock, backlog>>
    BY <2>1 DEF Update, kernelVars
  <2>3. /\ DOMAIN clients' = DOMAIN clients
        /\ \A j \in DOMAIN clients : clients'[j].fd = clients[j].fd
    BY <2>1, <2>2
  <2> QED BY <2>2, <2>3, FreshKept, SameSockets
<1>5. CASE NodesRemoved
  <2>1. PICK F : removeClients(F)
    BY <1>5 DEF NodesRemoved
  <2>2. UNCHANGED <<peer, backlog>> /\ \A f \in Fds : sock'[f] = sock[f] \/ sock'[f] = None
    BY <2>1 DEF removeClients, Close
  <2> QED BY <2>1, <2>2, FreshKept, RemovedSockets
<1> QED BY <1>1, <1>2, <1>3, <1>4, <1>5, CMCases

LEMMA BrowserSockets == ASSUME TypeOK, SocketsFit, Browsers PROVE SocketsFit'
<1>1. PICK c \in Conns : Browser(c)
  BY DEF Browsers
<1>2. clients' = clients
  BY DEF Browsers, cmVars
<1>3. CASE Connect(c)
  BY <1>2, <1>3, ConnectSockets
<1>4. CASE ClientSend(c)
  BY <1>2, <1>4, FreshKept, SameSockets DEF ClientSend
<1>5. CASE ClientClose(c)
  <2>1. peer[c] = "up" /\ peer' = [peer EXCEPT ![c] = "fin"] /\ UNCHANGED <<backlog, sock>>
    BY <1>5 DEF ClientClose
  <2>2. \A d \in Conns : Fresh(d)' => Fresh(d)
    BY <2>1 DEF Fresh, TypeOK
  <2>3. \A i \in DOMAIN backlog' : peer'[backlog'[i]] # "new"
    BY <2>1 DEF SocketsFit, TypeOK
  <2>4. ASSUME NEW f \in Fds, NEW d \in Conns, sock'[f] = d PROVE ~Fresh(d)'
    BY <2>1, <2>2, <2>4 DEF SocketsFit
  <2>5. ListMatchesSockets'
    BY <1>2, <2>1, SameSockets
  <2>6. \A i, j \in DOMAIN backlog' : backlog'[i] = backlog'[j] => i = j
    BY <2>1 DEF SocketsFit
  <2> QED BY <2>3, <2>4, <2>5, <2>6 DEF SocketsFit
<1> QED BY <1>1, <1>3, <1>4, <1>5 DEF Browser

LEMMA SocketsNext == ASSUME TypeOK, SocketsFit, [Next]_vars PROVE SocketsFit'
<1>1. ASSUME UNCHANGED <<clients, sock, peer, backlog>> PROVE SocketsFit'
  BY <1>1, FreshKept, SameSockets
<1>2. CASE CMThread
  BY <1>2, CMSockets DEF CMThread
<1>3. CASE LoopThread
  <2>1. UNCHANGED <<clients, sock, peer, backlog>>
    BY <1>3 DEF LoopThread, HandleEvent, EpollWait, AcceptEvent, CloseEvent, DataEvent, cmVars, netVars
  <2> QED BY <1>1, <2>1
<1>4. CASE CanvasThread \/ Clock
  BY <1>1, <1>4 DEF CanvasThread, Clock, netVars, cmVars
<1>5. CASE Browsers
  BY <1>5, BrowserSockets
<1>6. CASE UNCHANGED vars
  BY <1>1, <1>6 DEF vars, netVars, cmVars
<1> QED BY <1>2, <1>3, <1>4, <1>5, <1>6 DEF Next

LEMMA SocketsFitInit == ASSUME Init PROVE SocketsFit
<1>1. clients = <<>> /\ backlog = <<>> /\ sock = [f \in Fds |-> None]
  BY DEF Init, NetInit, CMInit
<1>2. DOMAIN clients = {} /\ DOMAIN backlog = {}
  BY <1>1
<1> QED BY <1>1, <1>2, NetworkAssumption DEF SocketsFit, ListMatchesSockets

(* No descriptor leaks and no node outlives its socket: the list and the   *)
(* open descriptors agree in every reachable state.                        *)
THEOREM ListAndSockets == Spec => []ListMatchesSockets
<1>1. Init => TypeOK /\ SocketsFit
  BY InitTyped, SocketsFitInit
<1>2. TypeOK /\ SocketsFit /\ [Next]_vars => (TypeOK /\ SocketsFit)'
  BY NextTyped, SocketsNext
<1>3. SocketsFit => ListMatchesSockets
  BY DEF SocketsFit
<1> QED BY <1>1, <1>2, <1>3, PTL DEF Spec

-----------------------------------------------------------------------------
(* The count of websockets                                                 *)

LEMMA AtMostAsMany ==
  ASSUME NEW S, NEW T, IsFiniteSet(T), NEW e, \A j \in S : e[j] \in T, \A j, k \in S : e[j] = e[k] => j = k
  PROVE  IsFiniteSet(S) /\ Cardinality(S) \in Nat /\ Cardinality(S) <= Cardinality(T)
<1> DEFINE f == [j \in S |-> e[j]]
<1>1. f \in Injection(S, T)
  BY DEF Injection, IsInjective
<1>2. IsFiniteSet(S) /\ Cardinality(S) <= Cardinality(T)
  BY <1>1, FS_Injection
<1> QED BY <1>2, FS_CardinalityType

LEMMA OpenFinite ==
  ASSUME TypeOK
  PROVE  IsFiniteSet(OpenClients) /\ Cardinality(OpenClients) \in Nat
<1>1. Len(clients) \in Nat /\ DOMAIN clients = 1 .. Len(clients)
  BY TypeParts, LenProperties DEF NodesOK
<1>2. IsFiniteSet(1 .. Len(clients))
  BY <1>1, FS_Interval
<1>3. OpenClients \in SUBSET (1 .. Len(clients))
  BY <1>1 DEF OpenClients
<1>4. IsFiniteSet(OpenClients)
  BY <1>2, <1>3, FS_Subset
<1> QED BY <1>4, FS_CardinalityType

LEMMA SameOpen ==
  ASSUME TypeOK, CountNeverUnder, client_count' = client_count,
         DOMAIN clients' = DOMAIN clients, \A i \in DOMAIN clients : clients'[i].state = clients[i].state
  PROVE  CountNeverUnder'
<1>1. OpenClients' = OpenClients
  BY DEF OpenClients
<1> QED BY <1>1 DEF CountNeverUnder

LEMMA CMCount == ASSUME TypeOK, CountNeverUnder, CMStep PROVE CountNeverUnder'
<1>0. /\ IsFiniteSet(OpenClients) /\ Cardinality(OpenClients) \in Nat
      /\ client_count \in Int /\ client_count >= Cardinality(OpenClients)
  BY OpenFinite DEF CountNeverUnder, TypeOK
<1>1. CASE ListKept
  BY <1>1, SameOpen DEF ListKept
<1>2. CASE AddClient
  <2>1. /\ DOMAIN clients = 1 .. Len(clients) /\ Len(clients) \in Nat
        /\ DOMAIN clients' = 1 .. Len(clients) + 1
        /\ clients'[1].state = "handshake"
        /\ \A i \in DOMAIN clients : clients'[i + 1] = clients[i]
    BY <1>2, Added DEF NewClient
  <2>2. client_count' = client_count
    BY <1>2 DEF AddClient
  <2> DEFINE e == [j \in DOMAIN clients' |-> j - 1]
  <2>3. ASSUME NEW j \in OpenClients' PROVE e[j] \in OpenClients
    <3>1. j \in DOMAIN clients' /\ clients'[j].state = "open" /\ j # 1
      BY <2>1 DEF OpenClients
    <3>2. j - 1 \in DOMAIN clients /\ (j - 1) + 1 = j
      BY <2>1, <3>1
    <3>3. clients[j - 1].state = "open"
      BY <2>1, <3>1, <3>2
    <3> QED BY <3>1, <3>2, <3>3 DEF OpenClients
  <2>4. \A j, k \in OpenClients' : e[j] = e[k] => j = k
    BY <2>1 DEF OpenClients
  <2> HIDE DEF e
  <2>5. Cardinality(OpenClients') \in Nat /\ Cardinality(OpenClients') <= Cardinality(OpenClients)
    BY <1>0, <2>3, <2>4, AtMostAsMany
  <2> QED BY <1>0, <2>2, <2>5 DEF CountNeverUnder
<1>3. CASE AddClientFails
  BY <1>3, SameOpen DEF AddClientFails
<1>4. CASE NodeUpdated
  <2>1. PICK i \in DOMAIN clients, node \in Nodes :
          /\ Update(i, node)
          /\ \/ node.state = clients[i].state /\ client_count' = client_count
             \/ node.state = "open" /\ client_count' = client_count + 1
    BY <1>4 DEF NodeUpdated
  <2>2. DOMAIN clients' = DOMAIN clients /\ \A j \in DOMAIN clients : clients'[j] = IF j = i THEN node ELSE clients[j]
    BY <2>1 DEF Update
  <2>3. CASE node.state = clients[i].state /\ client_count' = client_count
    BY <2>2, <2>3, SameOpen
  <2>4. CASE node.state = "open" /\ client_count' = client_count + 1
    <3>1. OpenClients' = OpenClients \cup {i}
      BY <2>2, <2>4 DEF OpenClients
    <3>0. Cardinality(OpenClients \cup {i}) =
            IF i \in OpenClients THEN Cardinality(OpenClients) ELSE Cardinality(OpenClients) + 1
      BY <1>0, FS_AddElement
    <3>2. Cardinality(OpenClients \cup {i}) \in Nat /\ Cardinality(OpenClients \cup {i}) <= Cardinality(OpenClients) + 1
      BY <1>0, <3>0
    <3> QED BY <1>0, <2>4, <3>1, <3>2 DEF CountNeverUnder
  <2> QED BY <2>1, <2>3, <2>4
<1>5. CASE NodesRemoved
  <2>1. PICK F : /\ removeClients(F)
                 /\ \/ client_count' = client_count
                    \/ \E i \in DOMAIN clients : /\ clients[i].fd \in F /\ clients[i].state = "open"
                                                 /\ client_count' = client_count - 1
    BY <1>5 DEF NodesRemoved
  <2>2. PICK e \in [DOMAIN clients' -> DOMAIN clients] :
           /\ \A j \in DOMAIN clients' : clients'[j] = clients[e[j]] /\ clients[e[j]].fd \notin F
           /\ \A j, k \in DOMAIN clients' : e[j] = e[k] => j = k
    BY <2>1, Removed
  <2>3. \A j \in OpenClients' : e[j] \in OpenClients
    BY <2>2 DEF OpenClients
  <2>4. \A j, k \in OpenClients' : e[j] = e[k] => j = k
    BY <2>2 DEF OpenClients
  <2>5. CASE client_count' = client_count
    <3>1. Cardinality(OpenClients') \in Nat /\ Cardinality(OpenClients') <= Cardinality(OpenClients)
      BY <1>0, <2>3, <2>4, AtMostAsMany
    <3> QED BY <1>0, <2>5, <3>1 DEF CountNeverUnder
  <2>6. ASSUME NEW i \in DOMAIN clients, clients[i].fd \in F, clients[i].state = "open",
               client_count' = client_count - 1
        PROVE  CountNeverUnder'
    <3>1. i \in OpenClients
      BY <2>6 DEF OpenClients
    <3>2. IsFiniteSet(OpenClients \ {i}) /\ Cardinality(OpenClients \ {i}) = Cardinality(OpenClients) - 1
      BY <1>0, <3>1, FS_RemoveElement
    <3>3. \A j \in OpenClients' : e[j] \in OpenClients \ {i}
      BY <2>2, <2>3, <2>6 DEF OpenClients
    <3>4. Cardinality(OpenClients') \in Nat /\ Cardinality(OpenClients') <= Cardinality(OpenClients \ {i})
      BY <3>2, <3>3, <2>4, AtMostAsMany
    <3> QED BY <1>0, <2>6, <3>2, <3>4 DEF CountNeverUnder
  <2> QED BY <2>1, <2>5, <2>6
<1> QED BY <1>1, <1>2, <1>3, <1>4, <1>5, CMCases

LEMMA CountNext == ASSUME TypeOK, CountNeverUnder, [Next]_vars PROVE CountNeverUnder'
<1>1. ASSUME UNCHANGED <<clients, client_count>> PROVE CountNeverUnder'
  BY <1>1, SameOpen
<1>2. CASE CMThread
  BY <1>2, CMCount DEF CMThread
<1>3. CASE ~CMThread
  <2>1. UNCHANGED <<clients, client_count>>
    BY <1>3 DEF Next, LoopThread, CanvasThread, Clock, Browsers, vars, cmVars
  <2> QED BY <1>1, <2>1
<1> QED BY <1>2, <1>3

(* Whatever the order of upgrades, close frames and lost connections, the  *)
(* count never falls below the number of open websockets.                  *)
THEOREM CountedAll == Spec => []CountNeverUnder
<1>1. Init => TypeOK /\ CountNeverUnder
  <2> SUFFICES ASSUME Init PROVE CountNeverUnder
    BY InitTyped
  <2>1. clients = <<>> /\ client_count = 0
    BY DEF Init, CMInit
  <2>2. OpenClients = {}
    BY <2>1 DEF OpenClients
  <2> QED BY <2>1, <2>2, FS_EmptySet DEF CountNeverUnder
<1>2. TypeOK /\ CountNeverUnder /\ [Next]_vars => (TypeOK /\ CountNeverUnder)'
  BY NextTyped, CountNext
<1> QED BY <1>1, <1>2, PTL DEF Spec

-----------------------------------------------------------------------------
(* Order in sequences and queues                                           *)

LEMMA Nothing == InOrder(<<>>) /\ Range(<<>>) = {} /\ \A S : Precede(S, {}) /\ Precede({}, S)
<1>1. DOMAIN <<>> = {}
  OBVIOUS
<1> QED BY <1>1 DEF InOrder, Range, Precede

LEMMA InRange ==
  ASSUME NEW s, NEW x
  PROVE  x \in Range(s) <=> \E i \in DOMAIN s : x = s[i]
BY DEF Range

LEMMA PrecedeParts ==
  ASSUME NEW S, NEW T, Precede(S, T), NEW A \in SUBSET S, NEW B \in SUBSET T
  PROVE  Precede(A, B)
BY DEF Precede

LEMMA PrecedeUnion ==
  ASSUME NEW S, NEW T, NEW A, NEW B
  PROVE  /\ Precede(A \cup B, T) <=> Precede(A, T) /\ Precede(B, T)
         /\ Precede(S, A \cup B) <=> Precede(S, A) /\ Precede(S, B)
BY DEF Precede

LEMMA InOrderElements ==
  ASSUME NEW s
  PROVE  InOrder(s) <=> \A i, j \in DOMAIN s : i < j /\ s[i].conn = s[j].conn => s[i].n < s[j].n
BY DEF InOrder, Precede

LEMMA Concatenated ==
  ASSUME NEW S, NEW s \in Seq(S), NEW t \in Seq(S), InOrder(s), InOrder(t), Precede(Range(s), Range(t))
  PROVE  InOrder(s \o t) /\ Range(s \o t) \subseteq Range(s) \cup Range(t)
<1> DEFINE u == s \o t
<1>1. /\ u \in Seq(S) /\ Len(u) = Len(s) + Len(t)
      /\ \A i \in 1 .. Len(s) + Len(t) : u[i] = IF i <= Len(s) THEN s[i] ELSE t[i - Len(s)]
  BY ConcatProperties
<1> HIDE DEF u
<1>2. /\ Len(s) \in Nat /\ DOMAIN s = 1 .. Len(s)
      /\ Len(t) \in Nat /\ DOMAIN t = 1 .. Len(t)
      /\ DOMAIN u = 1 .. Len(s) + Len(t)
  BY <1>1, LenProperties
<1>3. ASSUME NEW i \in DOMAIN u
      PROVE  \/ i \in DOMAIN s /\ i <= Len(s) /\ u[i] = s[i]
             \/ i - Len(s) \in DOMAIN t /\ i > Len(s) /\ u[i] = t[i - Len(s)]
  <2>1. CASE i <= Len(s)
    BY <1>1, <1>2, <2>1
  <2>2. CASE ~(i <= Len(s))
    <3>1. i - Len(s) \in DOMAIN t /\ i > Len(s)
      BY <1>2, <2>2
    <3> QED BY <1>1, <1>2, <2>2, <3>1
  <2> QED BY <2>1, <2>2
<1>4. ASSUME NEW i \in DOMAIN u, NEW j \in DOMAIN u, i < j, u[i].conn = u[j].conn
      PROVE  u[i].n < u[j].n
  <2>0. i \in Nat /\ j \in Nat
    BY <1>2
  <2>1. CASE j <= Len(s)
    <3>1. i \in DOMAIN s /\ j \in DOMAIN s /\ u[i] = s[i] /\ u[j] = s[j]
      BY <1>2, <1>3, <1>4, <2>0, <2>1
    <3> QED BY <1>4, <3>1, InOrderElements
  <2>2. CASE i > Len(s)
    <3>1. /\ i - Len(s) \in DOMAIN t /\ j - Len(s) \in DOMAIN t
          /\ u[i] = t[i - Len(s)] /\ u[j] = t[j - Len(s)] /\ i - Len(s) < j - Len(s)
      BY <1>2, <1>3, <1>4, <2>0, <2>2
    <3> HIDE DEF u
    <3> QED BY <1>4, <3>1, InOrderElements
  <2>3. CASE i <= Len(s) /\ j > Len(s)
    <3>1. /\ i \in DOMAIN s /\ j - Len(s) \in DOMAIN t
          /\ u[i] = s[i] /\ u[j] = t[j - Len(s)]
      BY <1>2, <1>3, <2>0, <2>3
    <3>2. u[i] \in Range(s) /\ u[j] \in Range(t)
      BY <3>1, InRange
    <3> QED BY <1>4, <3>2 DEF Precede
  <2> QED BY <1>2, <2>0, <2>1, <2>2, <2>3
<1>5. Range(u) \subseteq Range(s) \cup Range(t)
  <2> SUFFICES ASSUME NEW x \in Range(u) PROVE x \in Range(s) \/ x \in Range(t)
    OBVIOUS
  <2>1. PICK i \in DOMAIN u : x = u[i]
    BY InRange
  <2> QED BY <1>3, <2>1, InRange
<1>6. InOrder(u)
  BY <1>4, InOrderElements
<1> QED BY <1>5, <1>6 DEF u

LEMMA InQueue ==
  ASSUME NEW q, NEW x
  PROVE  x \in Queued(q) <=> \E i \in DOMAIN q : x \in Range(Data(q[i]))
BY DEF Queued

LEMMA QueueTail ==
  ASSUME NEW q, IsSeq(q), q # <<>>, QueueInOrder(q), NEW r, r = Tail(q)
  PROVE  /\ QueueInOrder(r) /\ Queued(r) \subseteq Queued(q)
         /\ InOrder(Data(Head(q))) /\ Range(Data(Head(q))) \subseteq Queued(q)
         /\ Precede(Range(Data(Head(q))), Queued(r))
<1>1. /\ DOMAIN q = 1 .. Len(q) /\ Len(q) \in Nat \ {0}
      /\ DOMAIN r = 1 .. Len(q) - 1
      /\ \A i \in 1 .. Len(q) - 1 : r[i] = q[i + 1]
      /\ Head(q) = q[1]
  BY TailSeq
<1>2. /\ \A i \in DOMAIN q : InOrder(Data(q[i]))
      /\ \A i, j \in DOMAIN q : i < j => Precede(Range(Data(q[i])), Range(Data(q[j])))
  BY DEF QueueInOrder
<1>3. 1 \in DOMAIN q /\ \A i \in DOMAIN r : i + 1 \in DOMAIN q /\ r[i] = q[i + 1] /\ 1 < i + 1
  BY <1>1
<1>4. ASSUME NEW i \in DOMAIN r
      PROVE  InOrder(Data(r[i])) /\ \A j \in DOMAIN r : i < j => Precede(Range(Data(r[i])), Range(Data(r[j])))
  <2>1. \A j \in DOMAIN r : i < j => i + 1 < j + 1
    BY <1>1
  <2> QED BY <1>2, <1>3, <2>1
<1>5. \A x \in Queued(r) : x \in Queued(q)
  BY <1>3, InQueue
<1>6. \A x \in Range(Data(q[1])) : x \in Queued(q)
  BY <1>3, InQueue
<1>7. Precede(Range(Data(q[1])), Queued(r))
  <2> SUFFICES ASSUME NEW x \in Range(Data(q[1])), NEW y \in Queued(r), x.conn = y.conn
               PROVE  x.n < y.n
    BY DEF Precede
  <2>1. PICK i \in DOMAIN r : y \in Range(Data(r[i]))
    BY InQueue
  <2>2. Precede(Range(Data(q[1])), Range(Data(r[i])))
    BY <1>2, <1>3
  <2> QED BY <2>1, <2>2 DEF Precede
<1>8. QueueInOrder(r)
  BY <1>4 DEF QueueInOrder
<1> QED BY <1>1, <1>2, <1>3, <1>5, <1>6, <1>7, <1>8

LEMMA QueuePush ==
  ASSUME NEW q, IsSeq(q), QueueInOrder(q), NEW t, InOrder(Data(t)),
         Precede(Queued(q), Range(Data(t))), NEW r, r = Pushed(q, t)
  PROVE  QueueInOrder(r) /\ Queued(r) \subseteq Queued(q) \cup Range(Data(t))
<1>1. CASE r = q
  BY <1>1
<1>2. CASE r = Append(q, t)
  <2>1. /\ DOMAIN q = 1 .. Len(q) /\ Len(q) \in Nat
        /\ DOMAIN r = 1 .. Len(q) + 1
        /\ \A i \in 1 .. Len(q) : r[i] = q[i]
        /\ r[Len(q) + 1] = t
    BY <1>2, AppendSeq
  <2>2. /\ \A i \in DOMAIN q : InOrder(Data(q[i]))
        /\ \A i, j \in DOMAIN q : i < j => Precede(Range(Data(q[i])), Range(Data(q[j])))
    BY DEF QueueInOrder
  <2>3. \A i \in DOMAIN r : (i \in DOMAIN q /\ r[i] = q[i]) \/ (i = Len(q) + 1 /\ r[i] = t)
    BY <2>1
  <2>4. \A i \in DOMAIN r : InOrder(Data(r[i]))
    BY <2>2, <2>3
  <2>5. \A x \in Queued(r) : x \in Queued(q) \/ x \in Range(Data(t))
    BY <2>3, InQueue
  <2>6. ASSUME NEW i \in DOMAIN q PROVE Precede(Range(Data(q[i])), Range(Data(t)))
    <3>1. \A x \in Range(Data(q[i])) : x \in Queued(q)
      BY InQueue
    <3> QED BY <3>1 DEF Precede
  <2>7. ASSUME NEW i \in DOMAIN r, NEW j \in DOMAIN r, i < j
        PROVE  Precede(Range(Data(r[i])), Range(Data(r[j])))
    <3>1. i \in DOMAIN q /\ r[i] = q[i]
      BY <2>1, <2>7
    <3>2. CASE j = Len(q) + 1
      BY <2>1, <2>6, <3>1, <3>2
    <3>3. CASE j # Len(q) + 1
      <4>1. j \in DOMAIN q /\ r[j] = q[j]
        BY <2>3, <3>3
      <4> QED BY <2>2, <2>7, <3>1, <4>1
    <3> QED BY <3>2, <3>3
  <2>8. QueueInOrder(r)
    BY <2>4, <2>7 DEF QueueInOrder
  <2> QED BY <2>5, <2>8
<1> QED BY <1>1, <1>2 DEF Pushed

-----------------------------------------------------------------------------
(* The pipeline, and what it needs                                         *)

QueuedMessages == Queued(canvas_queue)
QueuedTasks == Queued(cm_queue)

MessagesInOrder == QueueInOrder(canvas_queue)
TasksInOrder == QueueInOrder(cm_queue)
RxInOrder == \A c \in Conns : InOrder(rx[c])
BuffersInOrder ==
  /\ \A i \in DOMAIN clients : InOrder(clients[i].buf)
  /\ \A i, j \in DOMAIN clients : i # j => Precede(Range(clients[i].buf), Range(clients[j].buf))
Stages == /\ Precede(QueuedMessages, Buffered \cup QueuedTasks \cup Unreceived)
          /\ Precede(Buffered, QueuedTasks \cup Unreceived)
          /\ Precede(QueuedTasks, Unreceived)

LEMMA PipelineParts ==
  PipelineOrder <=> MessagesInOrder /\ BuffersInOrder /\ TasksInOrder /\ RxInOrder /\ Stages
BY DEF PipelineOrder, MessagesInOrder, BuffersInOrder, TasksInOrder, RxInOrder, Stages,
       QueuedMessages, QueuedTasks

LEMMA PipelineNext ==
  ASSUME MessagesInOrder', BuffersInOrder', TasksInOrder', RxInOrder', Stages'
  PROVE  PipelineOrder'
BY DEF PipelineOrder, MessagesInOrder, BuffersInOrder, TasksInOrder, RxInOrder, Stages,
       QueuedMessages, QueuedTasks

(* A descriptor carries the connection it refers to, and those of the      *)
(* chunks in its node and in the tasks about it.  Descriptors are used     *)
(* again, connections are not: no connection is carried by two of them.    *)
NodeCarries(f, c) ==
  \E i \in DOMAIN clients : clients[i].fd = f /\ \E x \in Range(clients[i].buf) : x.conn = c
TaskCarries(f, c) ==
  \E i \in DOMAIN cm_queue : cm_queue[i].fd = f /\ \E x \in Range(Data(cm_queue[i])) : x.conn = c
Carries(f, c) == sock[f] = c \/ NodeCarries(f, c) \/ TaskCarries(f, c)

OneDescriptor ==
  /\ \A f, g \in Fds : \A c \in Conns : Carries(f, c) /\ Carries(g, c) => f = g
  /\ \A f \in Fds : \A c \in Conns : Carries(f, c) => ~Fresh(c)

(* A socket holds only what its connection sent, and nobody holds what was *)
(* not sent.                                                               *)
NotAhead ==
  /\ \A c \in Conns : \A x \in Range(rx[c]) : x.conn = c
  /\ \A x \in QueuedMessages \cup Buffered \cup QueuedTasks \cup Unreceived : x.n <= sent[x.conn]

LEMMA OneDescriptorKept ==
  ASSUME OneDescriptor,
         \A f \in Fds : \A c \in Conns : Carries(f, c)' => Carries(f, c),
         \A c \in Conns : Fresh(c)' => Fresh(c)
  PROVE  OneDescriptor'
<1>1. ASSUME NEW f \in Fds, NEW g \in Fds, NEW c \in Conns, Carries(f, c)', Carries(g, c)' PROVE f = g
  <2>1. Carries(f, c) /\ Carries(g, c)
    BY <1>1
  <2> QED BY <2>1 DEF OneDescriptor
<1>2. ASSUME NEW f \in Fds, NEW c \in Conns, Carries(f, c)' PROVE ~Fresh(c)'
  <2>1. Carries(f, c)
    BY <1>2
  <2> QED BY <2>1 DEF OneDescriptor
<1> QED BY <1>1, <1>2 DEF OneDescriptor

LEMMA StagesKept ==
  ASSUME Stages, QueuedMessages' \subseteq QueuedMessages, Buffered' \subseteq Buffered,
         QueuedTasks' \subseteq QueuedTasks, Unreceived' \subseteq Unreceived
  PROVE  Stages'
<1>1. /\ Precede(QueuedMessages', Buffered' \cup QueuedTasks' \cup Unreceived')
      /\ Precede(Buffered', QueuedTasks' \cup Unreceived')
      /\ Precede(QueuedTasks', Unreceived')
  BY DEF Stages, Precede
<1> QED BY <1>1 DEF Stages

LEMMA NotAheadKept ==
  ASSUME NotAhead, \A c \in Conns : Range(rx'[c]) \subseteq Range(rx[c]), sent' = sent,
         QueuedMessages' \cup Buffered' \cup QueuedTasks' \cup Unreceived'
           \subseteq QueuedMessages \cup Buffered \cup QueuedTasks \cup Unreceived
  PROVE  NotAhead'
BY DEF NotAhead

LEMMA DataTyped ==
  /\ \A t : CMTaskOK(t) => Data(t) \in Seq(Chunks)
  /\ \A t : CanvasTaskOK(t) => Data(t) \in Seq(Chunks)
<1>1. <<>> \in Seq(Chunks)
  BY EmptySeq
<1> QED BY <1>1 DEF CMTaskOK, CanvasTaskOK, Data, ClientTaskTypes

LEMMA RangeOfChunks == ASSUME NEW s \in Seq(Chunks) PROVE Range(s) \subseteq Chunks
BY LenProperties, ElementOfSeq, InRange

LEMMA AllChunks ==
  ASSUME TypeOK
  PROVE  QueuedMessages \cup Buffered \cup QueuedTasks \cup Unreceived \subseteq Chunks
<1>1. QueuedMessages \subseteq Chunks
  BY TypeParts, DataTyped, RangeOfChunks, InQueue DEF CanvasTasksOK, QueuedMessages
<1>2. QueuedTasks \subseteq Chunks
  BY TypeParts, DataTyped, RangeOfChunks, InQueue DEF TasksOK, QueuedTasks
<1>3. Buffered \subseteq Chunks
  <2>1. \A i \in DOMAIN clients : clients[i].buf \in Seq(Chunks)
    BY TypeParts, NodeTyped DEF Nodes
  <2> QED BY <2>1, RangeOfChunks DEF Buffered
<1>4. Unreceived \subseteq Chunks
  BY TypeParts, RangeOfChunks DEF KernelOK, Unreceived
<1> QED BY <1>1, <1>2, <1>3, <1>4

(* A task is taken. *)
LEMMA TaskTaken ==
  ASSUME TypeOK, TasksInOrder, cm_queue # <<>>, cm_queue' = Tail(cm_queue)
  PROVE  /\ TasksInOrder' /\ QueuedTasks' \subseteq QueuedTasks
         /\ \A f, c : TaskCarries(f, c)' => TaskCarries(f, c)
         /\ Data(Task) \in Seq(Chunks) /\ InOrder(Data(Task)) /\ Range(Data(Task)) \subseteq QueuedTasks
         /\ Precede(Range(Data(Task)), QueuedTasks')
         /\ \A x \in Range(Data(Task)) : TaskCarries(Task.fd, x.conn)
<1>1. IsSeq(cm_queue)
  BY TypeParts DEF TasksOK, IsSeq
<1>2. /\ QueueInOrder(cm_queue') /\ Queued(cm_queue') \subseteq Queued(cm_queue)
      /\ InOrder(Data(Task)) /\ Range(Data(Task)) \subseteq Queued(cm_queue)
      /\ Precede(Range(Data(Task)), Queued(cm_queue'))
  BY <1>1, QueueTail DEF TasksInOrder, Task
<1>3. /\ DOMAIN cm_queue = 1 .. Len(cm_queue) /\ Len(cm_queue) \in Nat \ {0}
      /\ DOMAIN cm_queue' = 1 .. Len(cm_queue) - 1
      /\ \A i \in 1 .. Len(cm_queue) - 1 : cm_queue'[i] = cm_queue[i + 1]
      /\ Task = cm_queue[1]
  BY <1>1, TailSeq DEF Task
<1>4. \A i \in DOMAIN cm_queue' : i + 1 \in DOMAIN cm_queue /\ cm_queue'[i] = cm_queue[i + 1]
  BY <1>3
<1>5. ASSUME NEW f, NEW c, TaskCarries(f, c)' PROVE TaskCarries(f, c)
  <2>1. PICK i \in DOMAIN cm_queue' : cm_queue'[i].fd = f /\ \E x \in Range(Data(cm_queue'[i])) : x.conn = c
    BY <1>5 DEF TaskCarries
  <2> QED BY <1>4, <2>1 DEF TaskCarries
<1>6. Data(Task) \in Seq(Chunks)
  BY TaskContents, DataTyped
<1>7. \A x \in Range(Data(Task)) : TaskCarries(Task.fd, x.conn)
  <2>1. 1 \in DOMAIN cm_queue
    BY <1>3
  <2> QED BY <1>3, <2>1 DEF TaskCarries
<1> QED BY <1>2, <1>5, <1>6, <1>7 DEF TasksInOrder, QueuedTasks

(* A task is pushed. *)
LEMMA TaskPushed ==
  ASSUME TypeOK, TasksInOrder, NEW t, InOrder(Data(t)), Precede(QueuedTasks, Range(Data(t))),
         cm_queue' = Pushed(cm_queue, t)
  PROVE  /\ TasksInOrder' /\ QueuedTasks' \subseteq QueuedTasks \cup Range(Data(t))
         /\ \A f, c : TaskCarries(f, c)' => \/ TaskCarries(f, c)
                                            \/ t.fd = f /\ \E x \in Range(Data(t)) : x.conn = c
<1>1. IsSeq(cm_queue)
  BY TypeParts DEF TasksOK, IsSeq
<1>2. QueueInOrder(cm_queue') /\ Queued(cm_queue') \subseteq Queued(cm_queue) \cup Range(Data(t))
  BY <1>1, QueuePush DEF TasksInOrder, QueuedTasks
<1>3. \A i \in DOMAIN cm_queue' : \/ i \in DOMAIN cm_queue /\ cm_queue'[i] = cm_queue[i]
                                  \/ cm_queue'[i] = t
  <2>1. CASE cm_queue' = cm_queue
    BY <2>1
  <2>2. CASE cm_queue' = Append(cm_queue, t)
    <3>1. /\ DOMAIN cm_queue = 1 .. Len(cm_queue) /\ Len(cm_queue) \in Nat
          /\ DOMAIN cm_queue' = 1 .. Len(cm_queue) + 1
          /\ \A i \in 1 .. Len(cm_queue) : cm_queue'[i] = cm_queue[i]
          /\ cm_queue'[Len(cm_queue) + 1] = t
      BY <1>1, <2>2, AppendSeq
    <3> QED BY <3>1
  <2> QED BY <2>1, <2>2 DEF Pushed
<1>4. ASSUME NEW f, NEW c, TaskCarries(f, c)'
      PROVE  TaskCarries(f, c) \/ (t.fd = f /\ \E x \in Range(Data(t)) : x.conn = c)
  <2>1. PICK i \in DOMAIN cm_queue' : cm_queue'[i].fd = f /\ \E x \in Range(Data(cm_queue'[i])) : x.conn = c
    BY <1>4 DEF TaskCarries
  <2> QED BY <1>3, <2>1 DEF TaskCarries
<1> QED BY <1>2, <1>4 DEF TasksInOrder, QueuedTasks

(* A task without chunks is pushed. *)
LEMMA NoticePushed ==
  ASSUME TypeOK, TasksInOrder, NEW t, Data(t) = <<>>, cm_queue' = Pushed(cm_queue, t)
  PROVE  /\ TasksInOrder' /\ QueuedTasks' \subseteq QueuedTasks
         /\ \A f, c : TaskCarries(f, c)' => TaskCarries(f, c)
<1>1. InOrder(Data(t)) /\ Range(Data(t)) = {} /\ Precede(QueuedTasks, Range(Data(t)))
  BY Nothing
<1> QED BY <1>1, TaskPushed

LEMMA InBuffers == ASSUME NEW x PROVE x \in Buffered <=> \E i \in DOMAIN clients : x \in Range(clients[i].buf)
BY DEF Buffered

LEMMA InSockets == ASSUME NEW x PROVE x \in Unreceived <=> \E c \in Conns : x \in Range(rx[c])
BY DEF Unreceived

(* Nodes are removed, moved, or added with an empty buffer. *)
LEMMA BuffersKept ==
  ASSUME BuffersInOrder, NEW e,
         \A j \in DOMAIN clients' :
           clients'[j].buf # <<>> => e[j] \in DOMAIN clients /\ clients'[j] = clients[e[j]],
         \A j, k \in DOMAIN clients' : clients'[j].buf # <<>> /\ clients'[k].buf # <<>> /\ e[j] = e[k] => j = k
  PROVE  /\ BuffersInOrder' /\ Buffered' \subseteq Buffered
         /\ \A f, c : NodeCarries(f, c)' => NodeCarries(f, c)
<1>1. \A j \in DOMAIN clients' : Range(clients'[j].buf) # {} => clients'[j].buf # <<>>
  BY Nothing
<1>2. \A j \in DOMAIN clients' : InOrder(clients'[j].buf)
  BY Nothing DEF BuffersInOrder
<1>3. ASSUME NEW j \in DOMAIN clients', NEW k \in DOMAIN clients', j # k
      PROVE  Precede(Range(clients'[j].buf), Range(clients'[k].buf))
  <2>1. CASE clients'[j].buf = <<>> \/ clients'[k].buf = <<>>
    BY <2>1, Nothing
  <2>2. CASE clients'[j].buf # <<>> /\ clients'[k].buf # <<>>
    <3>1. e[j] # e[k] /\ e[j] \in DOMAIN clients /\ e[k] \in DOMAIN clients
      BY <1>3, <2>2
    <3>2. Precede(Range(clients[e[j]].buf), Range(clients[e[k]].buf))
      BY <3>1 DEF BuffersInOrder
    <3> QED BY <2>2, <3>2
  <2> QED BY <2>1, <2>2
<1>4. ASSUME NEW x \in Buffered' PROVE x \in Buffered
  <2>1. PICK j \in DOMAIN clients' : x \in Range(clients'[j].buf)
    BY InBuffers DEF Buffered
  <2>2. e[j] \in DOMAIN clients /\ clients'[j] = clients[e[j]]
    BY <1>1, <2>1
  <2> QED BY <2>1, <2>2, InBuffers
<1>5. ASSUME NEW f, NEW c, NodeCarries(f, c)' PROVE NodeCarries(f, c)
  <2>1. PICK j \in DOMAIN clients' : clients'[j].fd = f /\ \E x \in Range(clients'[j].buf) : x.conn = c
    BY <1>5 DEF NodeCarries
  <2>2. e[j] \in DOMAIN clients /\ clients'[j] = clients[e[j]]
    BY <1>1, <2>1
  <2> QED BY <2>1, <2>2 DEF NodeCarries
<1> QED BY <1>2, <1>3, <1>4, <1>5 DEF BuffersInOrder

LEMMA SameBuffers ==
  ASSUME BuffersInOrder, clients' = clients
  PROVE  /\ BuffersInOrder' /\ Buffered' = Buffered
         /\ \A f, c : NodeCarries(f, c)' => NodeCarries(f, c)
BY DEF BuffersInOrder, Buffered, NodeCarries

LEMMA SameTasks ==
  ASSUME TasksInOrder, cm_queue' = cm_queue
  PROVE  /\ TasksInOrder' /\ QueuedTasks' = QueuedTasks
         /\ \A f, c : TaskCarries(f, c)' => TaskCarries(f, c)
BY DEF TasksInOrder, QueuedTasks, TaskCarries

LEMMA SameMessages ==
  ASSUME MessagesInOrder, canvas_queue' = canvas_queue
  PROVE  MessagesInOrder' /\ QueuedMessages' = QueuedMessages
BY DEF MessagesInOrder, QueuedMessages

(* Receive buffers are left alone or emptied. *)
LEMMA RxKept ==
  ASSUME RxInOrder, \A c \in Conns : rx'[c] = rx[c] \/ rx'[c] = <<>>
  PROVE  /\ RxInOrder' /\ Unreceived' \subseteq Unreceived
         /\ \A c \in Conns : Range(rx'[c]) \subseteq Range(rx[c])
<1>1. \A c \in Conns : InOrder(rx'[c]) /\ Range(rx'[c]) \subseteq Range(rx[c])
  BY Nothing DEF RxInOrder
<1>2. Unreceived' \subseteq Unreceived
  <2> SUFFICES ASSUME NEW x \in Unreceived' PROVE x \in Unreceived
    OBVIOUS
  <2>1. PICK c \in Conns : x \in Range(rx'[c])
    BY DEF Unreceived
  <2> QED BY <1>1, <2>1, InSockets
<1> QED BY <1>1, <1>2 DEF RxInOrder

PipeOK == PipelineOrder /\ OneDescriptor /\ NotAhead

(* Nothing new is in any stage. *)
LEMMA PipeKept ==
  ASSUME PipeOK, MessagesInOrder', BuffersInOrder', TasksInOrder', RxInOrder',
         QueuedMessages' \subseteq QueuedMessages, Buffered' \subseteq Buffered,
         QueuedTasks' \subseteq QueuedTasks, Unreceived' \subseteq Unreceived,
         \A c \in Conns : Range(rx'[c]) \subseteq Range(rx[c]), sent' = sent
  PROVE  PipelineOrder' /\ NotAhead'
<1>1. Stages /\ NotAhead
  BY PipelineParts DEF PipeOK
<1>2. Stages'
  BY <1>1, StagesKept
<1>3. NotAhead'
  BY <1>1, NotAheadKept
<1> QED BY <1>2, <1>3, PipelineNext

LEMMA CarriesKept ==
  ASSUME \A f, c : NodeCarries(f, c)' => NodeCarries(f, c),
         \A f, c : TaskCarries(f, c)' => TaskCarries(f, c),
         \A f \in Fds : sock'[f] = sock[f] \/ sock'[f] = None
  PROVE  \A f \in Fds : \A c \in Conns : Carries(f, c)' => Carries(f, c)
<1>1. \A f \in Fds : \A c \in Conns : sock'[f] = c => sock[f] = c
  BY NetworkAssumption
<1> QED BY <1>1 DEF Carries

-----------------------------------------------------------------------------
(* The client manager keeps the pipeline in order                          *)

LEMMA AddClientPipe ==
  ASSUME TypeOK, SocketsFit, PipeOK, AddClient, TasksInOrder',
         QueuedTasks' \subseteq QueuedTasks, \A f, c : TaskCarries(f, c)' => TaskCarries(f, c)
  PROVE  PipeOK'
<1>0. PICK c : c = Head(backlog)
  OBVIOUS
<1>1. PICK fd : fd = LowestFree
  OBVIOUS
<1>2. /\ backlog # <<>> /\ backlog' = Tail(backlog) /\ FreeFds # {}
      /\ sock' = [sock EXCEPT ![fd] = c]
      /\ UNCHANGED <<canvas_queue, peer, sent, rx>>
  BY <1>0, <1>1 DEF AddClient
<1>3. MessagesInOrder /\ BuffersInOrder /\ RxInOrder /\ OneDescriptor /\ NotAhead
  BY PipelineParts DEF PipeOK
<1>4. /\ DOMAIN clients = 1 .. Len(clients) /\ Len(clients) \in Nat
      /\ DOMAIN clients' = 1 .. Len(clients) + 1
      /\ clients'[1].buf = <<>>
      /\ \A i \in DOMAIN clients : clients'[i + 1] = clients[i]
  BY Added DEF NewClient
<1> DEFINE e == [j \in DOMAIN clients' |-> j - 1]
<1>5. ASSUME NEW j \in DOMAIN clients', clients'[j].buf # <<>>
      PROVE  e[j] \in DOMAIN clients /\ clients'[j] = clients[e[j]]
  <2>1. j # 1
    BY <1>4, <1>5
  <2>2. j - 1 \in DOMAIN clients /\ (j - 1) + 1 = j
    BY <1>4, <2>1
  <2> QED BY <1>4, <2>2
<1>6. \A j, k \in DOMAIN clients' : e[j] = e[k] => j = k
  BY <1>4
<1> HIDE DEF e
<1>7. /\ BuffersInOrder' /\ Buffered' \subseteq Buffered
      /\ \A f, d : NodeCarries(f, d)' => NodeCarries(f, d)
  BY <1>3, <1>5, <1>6, BuffersKept
<1>8. MessagesInOrder' /\ QueuedMessages' = QueuedMessages
  BY <1>2, <1>3, SameMessages
<1>9. /\ RxInOrder' /\ Unreceived' \subseteq Unreceived
      /\ \A d \in Conns : Range(rx'[d]) \subseteq Range(rx[d])
  BY <1>2, <1>3, RxKept
<1>10. PipelineOrder' /\ NotAhead'
  BY <1>2, <1>7, <1>8, <1>9, PipeKept
<1>11. /\ \A d \in Conns : Fresh(d)' => Fresh(d)
       /\ c \in Conns /\ Fresh(c) /\ ~Fresh(c)'
  BY <1>0, <1>2, BacklogTaken
<1>12. ASSUME NEW f \in Fds, NEW d \in Conns, Carries(f, d)'
       PROVE  (f = fd /\ d = c) \/ Carries(f, d)
  <2>1. sock'[f] = d => (f = fd /\ d = c) \/ sock[f] = d
    BY <1>2 DEF TypeOK
  <2> QED BY <1>7, <1>12, <2>1 DEF Carries
<1>13. \A f \in Fds : ~Carries(f, c)
  BY <1>3, <1>11 DEF OneDescriptor
<1>14. \A f, g \in Fds : \A d \in Conns : Carries(f, d)' /\ Carries(g, d)' => f = g
  BY <1>3, <1>12, <1>13 DEF OneDescriptor
<1>15. \A f \in Fds : \A d \in Conns : Carries(f, d)' => ~Fresh(d)'
  BY <1>3, <1>11, <1>12 DEF OneDescriptor
<1>16. OneDescriptor'
  BY <1>14, <1>15 DEF OneDescriptor
<1> QED BY <1>10, <1>16 DEF PipeOK

LEMMA NodesRemovedPipe ==
  ASSUME TypeOK, PipeOK, NodesRemoved, TasksInOrder',
         QueuedTasks' \subseteq QueuedTasks, \A f, c : TaskCarries(f, c)' => TaskCarries(f, c)
  PROVE  PipeOK'
<1>1. MessagesInOrder /\ BuffersInOrder /\ RxInOrder /\ OneDescriptor
  BY PipelineParts DEF PipeOK
<1>2. PICK F : removeClients(F) /\ canvas_queue' = canvas_queue
  BY DEF NodesRemoved
<1>3. /\ \A f \in Fds : sock'[f] = sock[f] \/ sock'[f] = None
      /\ \A c \in Conns : rx'[c] = rx[c] \/ rx'[c] = <<>>
      /\ UNCHANGED <<peer, sent, backlog>>
  BY <1>2 DEF removeClients, Close
<1>4. PICK e \in [DOMAIN clients' -> DOMAIN clients] :
           /\ \A j \in DOMAIN clients' : clients'[j] = clients[e[j]]
           /\ \A j, k \in DOMAIN clients' : e[j] = e[k] => j = k
  BY <1>2, Removed
<1>5. /\ BuffersInOrder' /\ Buffered' \subseteq Buffered
      /\ \A f, d : NodeCarries(f, d)' => NodeCarries(f, d)
  BY <1>1, <1>4, BuffersKept
<1>6. MessagesInOrder' /\ QueuedMessages' = QueuedMessages
  BY <1>1, <1>2, SameMessages
<1>7. /\ RxInOrder' /\ Unreceived' \subseteq Unreceived
      /\ \A d \in Conns : Range(rx'[d]) \subseteq Range(rx[d])
  BY <1>1, <1>3, RxKept
<1>8. PipelineOrder' /\ NotAhead'
  BY <1>3, <1>5, <1>6, <1>7, PipeKept
<1>9. \A c \in Conns : Fresh(c)' => Fresh(c)
  BY <1>3 DEF Fresh
<1>10. OneDescriptor'
  BY <1>1, <1>3, <1>5, <1>9, CarriesKept, OneDescriptorKept
<1> QED BY <1>8, <1>10 DEF PipeOK

(* The list of nodes stays, and so do the sockets. *)
LEMMA ListKeptPipe ==
  ASSUME PipeOK, UNCHANGED <<clients, canvas_queue, sent, sock>>,
         \A c \in Conns : rx'[c] = rx[c] \/ rx'[c] = <<>>,
         \A c \in Conns : Fresh(c)' => Fresh(c),
         TasksInOrder', QueuedTasks' \subseteq QueuedTasks,
         \A f, c : TaskCarries(f, c)' => TaskCarries(f, c)
  PROVE  PipeOK'
<1>1. MessagesInOrder /\ BuffersInOrder /\ RxInOrder /\ OneDescriptor
  BY PipelineParts DEF PipeOK
<1>2. /\ BuffersInOrder' /\ Buffered' = Buffered
      /\ \A f, d : NodeCarries(f, d)' => NodeCarries(f, d)
  BY <1>1, SameBuffers
<1>3. MessagesInOrder' /\ QueuedMessages' = QueuedMessages
  BY <1>1, SameMessages
<1>4. /\ RxInOrder' /\ Unreceived' \subseteq Unreceived
      /\ \A d \in Conns : Range(rx'[d]) \subseteq Range(rx[d])
  BY <1>1, RxKept
<1>5. PipelineOrder' /\ NotAhead'
  BY <1>2, <1>3, <1>4, PipeKept
<1>6. OneDescriptor'
  BY <1>1, <1>2, CarriesKept, OneDescriptorKept
<1> QED BY <1>5, <1>6 DEF PipeOK

(* The buffer of one node and the task: together they are a piece of what  *)
(* one connection sent, and nobody else holds a part of it.                *)
LEMMA PieceAlone ==
  ASSUME TypeOK, SocketsFit, PipeOK, cm_queue # <<>>, cm_queue' = Tail(cm_queue),
         NEW i \in DOMAIN clients, clients[i].fd = Task.fd,
         NEW D, D = Range(clients[i].buf) \cup Range(Data(Task))
  PROVE  /\ \A j \in DOMAIN clients : j # i => Precede(D, Range(clients[j].buf)) /\ Precede(Range(clients[j].buf), D)
         /\ D \subseteq Buffered \cup QueuedTasks
         /\ Precede(D, QueuedTasks' \cup Unreceived)
         /\ Precede(QueuedMessages, D)
         /\ Precede(Range(clients[i].buf), Range(Data(Task)))
<1> DEFINE b == Range(clients[i].buf)
           d == Range(Data(Task))
<1>1. BuffersInOrder /\ TasksInOrder /\ Stages /\ OneDescriptor
  BY PipelineParts DEF PipeOK
<1>2. /\ QueuedTasks' \subseteq QueuedTasks /\ d \subseteq QueuedTasks
      /\ Precede(d, QueuedTasks')
      /\ \A x \in d : TaskCarries(Task.fd, x.conn)
  BY <1>1, TaskTaken
<1>3. b \subseteq Buffered
  BY InBuffers
<1>4. D \subseteq Buffered \cup QueuedTasks
  BY <1>2, <1>3
<1>5. Precede(D, QueuedTasks' \cup Unreceived)
  <2>1. Precede(b, QueuedTasks' \cup Unreceived)
    BY <1>1, <1>2, <1>3 DEF Stages, Precede
  <2>2. Precede(d, Unreceived)
    BY <1>1, <1>2 DEF Stages, Precede
  <2> HIDE DEF b, d
  <2>3. Precede(d, QueuedTasks' \cup Unreceived)
    BY <1>2, <2>2, PrecedeUnion
  <2>4. Precede(b \cup d, QueuedTasks' \cup Unreceived)
    BY <2>1, <2>3, PrecedeUnion
  <2> QED BY <2>4 DEF b, d
<1>6. Precede(QueuedMessages, D)
  BY <1>1, <1>4 DEF Stages, Precede
<1>7. Precede(b, d)
  BY <1>1, <1>2, <1>3 DEF Stages, Precede
<1>8. ASSUME NEW j \in DOMAIN clients, j # i
      PROVE  Precede(D, Range(clients[j].buf)) /\ Precede(Range(clients[j].buf), D)
  <2>1. Precede(b, Range(clients[j].buf)) /\ Precede(Range(clients[j].buf), b)
    BY <1>1, <1>8 DEF BuffersInOrder
  <2>2. ASSUME NEW x \in d, NEW y \in Range(clients[j].buf) PROVE x.conn # y.conn
    <3>1. clients[j].fd \in Fds /\ Task.fd \in Fds /\ clients[j].fd # Task.fd
      <4>1. \A k \in DOMAIN clients : clients[k].fd \in Fds
        BY TypeParts, NodeTyped DEF Nodes
      <4> QED BY <1>8, <4>1 DEF SocketsFit, ListMatchesSockets
    <3>2. NodeCarries(clients[j].fd, y.conn)
      BY DEF NodeCarries
    <3>3. TaskCarries(Task.fd, x.conn)
      BY <1>2
    <3>4. x.conn \in Conns
      <4>1. x \in Chunks
        BY <1>2, AllChunks
      <4> QED BY <4>1, ScriptSeq, TypeParts
    <3> QED BY <1>1, <3>1, <3>2, <3>3, <3>4 DEF OneDescriptor, Carries
  <2>3. Precede(d, Range(clients[j].buf)) /\ Precede(Range(clients[j].buf), d)
    BY <2>2 DEF Precede
  <2> HIDE DEF b, d
  <2>4. Precede(b \cup d, Range(clients[j].buf)) /\ Precede(Range(clients[j].buf), b \cup d)
    BY <2>1, <2>3, PrecedeUnion
  <2> QED BY <2>4 DEF b, d
<1> QED BY <1>4, <1>5, <1>6, <1>7, <1>8

LEMMA MessagePushed ==
  ASSUME TypeOK, MessagesInOrder, NEW t, InOrder(Data(t)), Precede(QueuedMessages, Range(Data(t))),
         canvas_queue' = Pushed(canvas_queue, t)
  PROVE  MessagesInOrder' /\ QueuedMessages' \subseteq QueuedMessages \cup Range(Data(t))
<1>1. IsSeq(canvas_queue)
  BY TypeParts DEF CanvasTasksOK, IsSeq
<1>2. /\ QueueInOrder(canvas_queue')
      /\ Queued(canvas_queue') \subseteq Queued(canvas_queue) \cup Range(Data(t))
  BY <1>1, QueuePush DEF MessagesInOrder, QueuedMessages
<1> QED BY <1>2 DEF MessagesInOrder, QueuedMessages

LEMMA NodeUpdatedPipe ==
  ASSUME TypeOK, SocketsFit, PipeOK, NodeUpdated, cm_queue # <<>>, cm_queue' = Tail(cm_queue)
  PROVE  PipeOK'
<1>1. MessagesInOrder /\ BuffersInOrder /\ TasksInOrder /\ RxInOrder /\ Stages /\ OneDescriptor /\ NotAhead
  BY PipelineParts DEF PipeOK
<1>2. PICK i \in DOMAIN clients, node \in Nodes :
        /\ clients[i].fd = Task.fd /\ node.fd = Task.fd
        /\ Update(i, node)
        /\ UNCHANGED kernelVars
        /\ node.buf = <<>> \/ node.buf = clients[i].buf \o Data(Task)
        /\ \/ canvas_queue' = canvas_queue
           \/ \E task : /\ canvas_queue' = Pushed(canvas_queue, task)
                        /\ node.buf = <<>>
                        /\ Data(task) = <<>> \/ Data(task) = clients[i].buf \o Data(Task)
  BY DEF NodeUpdated
<1>3. /\ DOMAIN clients' = DOMAIN clients
      /\ \A j \in DOMAIN clients : clients'[j] = IF j = i THEN node ELSE clients[j]
  BY <1>2 DEF Update
<1>4. /\ TasksInOrder' /\ QueuedTasks' \subseteq QueuedTasks
      /\ \A f, c : TaskCarries(f, c)' => TaskCarries(f, c)
      /\ Data(Task) \in Seq(Chunks) /\ InOrder(Data(Task)) /\ Range(Data(Task)) \subseteq QueuedTasks
      /\ Precede(Range(Data(Task)), QueuedTasks')
      /\ \A x \in Range(Data(Task)) : TaskCarries(Task.fd, x.conn)
  BY <1>1, TaskTaken
<1>5. /\ RxInOrder' /\ Unreceived' = Unreceived
      /\ \A c \in Conns : Range(rx'[c]) \subseteq Range(rx[c])
      /\ UNCHANGED <<sent, sock, peer, backlog>>
  BY <1>1, <1>2 DEF kernelVars, RxInOrder, Unreceived
<1>6. PICK D : D = Range(clients[i].buf) \cup Range(Data(Task))
  OBVIOUS
<1>7. /\ \A j \in DOMAIN clients : j # i => Precede(D, Range(clients[j].buf)) /\ Precede(Range(clients[j].buf), D)
      /\ D \subseteq Buffered \cup QueuedTasks
      /\ Precede(D, QueuedTasks' \cup Unreceived)
      /\ Precede(QueuedMessages, D)
      /\ Precede(Range(clients[i].buf), Range(Data(Task)))
  BY <1>2, <1>6, PieceAlone
<1>8. PICK piece : piece = clients[i].buf \o Data(Task)
  OBVIOUS
<1>9. InOrder(piece) /\ Range(piece) \subseteq D
  <2>1. clients[i].buf \in Seq(Chunks) /\ InOrder(clients[i].buf)
    BY <1>1, TypeParts, NodeTyped DEF Nodes, BuffersInOrder
  <2> QED BY <1>4, <1>6, <1>7, <1>8, <2>1, Concatenated
<1>10. InOrder(node.buf) /\ Range(node.buf) \subseteq D
  BY <1>2, <1>8, <1>9, Nothing
<1>11. BuffersInOrder'
  <2>1. \A j \in DOMAIN clients : InOrder(clients'[j].buf)
    BY <1>1, <1>3, <1>10 DEF BuffersInOrder
  <2>2. ASSUME NEW j \in DOMAIN clients, NEW k \in DOMAIN clients, j # k
        PROVE  Precede(Range(clients'[j].buf), Range(clients'[k].buf))
    <3>1. CASE j = i
      <4>1. clients'[j] = node /\ clients'[k] = clients[k] /\ Precede(D, Range(clients[k].buf))
        BY <1>3, <1>7, <2>2, <3>1
      <4> QED BY <1>10, <4>1, PrecedeParts
    <3>2. CASE k = i
      <4>1. clients'[k] = node /\ clients'[j] = clients[j] /\ Precede(Range(clients[j].buf), D)
        BY <1>3, <1>7, <2>2, <3>2
      <4> QED BY <1>10, <4>1, PrecedeParts
    <3>3. CASE j # i /\ k # i
      BY <1>1, <1>3, <2>2, <3>3 DEF BuffersInOrder
    <3> QED BY <3>1, <3>2, <3>3
  <2> QED BY <1>3, <2>1, <2>2 DEF BuffersInOrder
<1>12. ASSUME NEW x \in Buffered'
       PROVE  \/ \E j \in DOMAIN clients : j # i /\ x \in Range(clients[j].buf)
              \/ x \in Range(node.buf)
  <2>1. PICK j \in DOMAIN clients : x \in Range(clients'[j].buf)
    BY <1>3 DEF Buffered
  <2> QED BY <1>3, <2>1
<1>13. Buffered' \subseteq Buffered \cup D
  BY <1>10, <1>12, InBuffers
<1>14. ASSUME NEW f, NEW c, NodeCarries(f, c)' PROVE NodeCarries(f, c) \/ TaskCarries(f, c)
  <2>1. PICK j \in DOMAIN clients : clients'[j].fd = f /\ \E x \in Range(clients'[j].buf) : x.conn = c
    BY <1>3, <1>14 DEF NodeCarries
  <2>2. CASE j # i
    <3>1. clients'[j] = clients[j]
      BY <1>3, <2>2
    <3> QED BY <2>1, <3>1 DEF NodeCarries
  <2>3. CASE j = i
    <3>1. f = Task.fd /\ \E x \in D : x.conn = c
      BY <1>2, <1>3, <1>10, <2>1, <2>3
    <3>2. PICK x \in D : x.conn = c
      BY <3>1
    <3>3. CASE x \in Range(clients[i].buf)
      BY <1>2, <3>1, <3>2, <3>3 DEF NodeCarries
    <3>4. CASE x \in Range(Data(Task))
      BY <1>4, <3>1, <3>2, <3>4
    <3> QED BY <1>6, <3>2, <3>3, <3>4
  <2> QED BY <2>2, <2>3
<1>15. OneDescriptor'
  <2>1. \A f \in Fds : \A c \in Conns : Carries(f, c)' => Carries(f, c)
    BY <1>4, <1>5, <1>14 DEF Carries
  <2>2. \A c \in Conns : Fresh(c)' => Fresh(c)
    BY <1>5 DEF Fresh
  <2> QED BY <1>1, <2>1, <2>2, OneDescriptorKept
<1>16. /\ MessagesInOrder'
       /\ \/ QueuedMessages' \subseteq QueuedMessages
          \/ node.buf = <<>> /\ QueuedMessages' \subseteq QueuedMessages \cup D
  <2>1. CASE canvas_queue' = canvas_queue
    BY <1>1, <2>1, SameMessages
  <2>2. ASSUME NEW task, canvas_queue' = Pushed(canvas_queue, task), node.buf = <<>>,
               Data(task) = <<>> \/ Data(task) = piece
        PROVE  MessagesInOrder' /\ QueuedMessages' \subseteq QueuedMessages \cup D
    <3>1. InOrder(Data(task)) /\ Range(Data(task)) \subseteq D
      BY <1>9, <2>2, Nothing
    <3>2. Precede(QueuedMessages, Range(Data(task)))
      BY <1>7, <3>1, PrecedeParts
    <3>3. MessagesInOrder' /\ QueuedMessages' \subseteq QueuedMessages \cup Range(Data(task))
      BY <1>1, <2>2, <3>1, <3>2, MessagePushed
    <3> QED BY <3>1, <3>3
  <2> QED BY <1>2, <1>8, <2>1, <2>2
<1>17. Precede(Buffered', QueuedTasks' \cup Unreceived')
  <2>1. Precede(Buffered, QueuedTasks' \cup Unreceived)
    BY <1>1, <1>4 DEF Stages, Precede
  <2>2. Precede(Buffered \cup D, QueuedTasks' \cup Unreceived)
    BY <1>7, <2>1, PrecedeUnion
  <2> QED BY <1>5, <1>13, <2>2, PrecedeParts
<1>18. Precede(QueuedMessages', Buffered' \cup QueuedTasks' \cup Unreceived')
  <2>1. Precede(QueuedMessages, Buffered' \cup QueuedTasks' \cup Unreceived')
    <3>1. Buffered' \cup QueuedTasks' \cup Unreceived' \subseteq Buffered \cup QueuedTasks \cup Unreceived
      BY <1>4, <1>5, <1>7, <1>13
    <3> QED BY <1>1, <3>1, PrecedeParts DEF Stages
  <2>2. CASE QueuedMessages' \subseteq QueuedMessages
    BY <2>1, <2>2, PrecedeParts
  <2>3. CASE node.buf = <<>> /\ QueuedMessages' \subseteq QueuedMessages \cup D
    <3>1. Precede(D, Buffered')
      <4> SUFFICES ASSUME NEW x \in D, NEW y \in Buffered', x.conn = y.conn PROVE x.n < y.n
        BY DEF Precede
      <4>1. PICK j \in DOMAIN clients : j # i /\ y \in Range(clients[j].buf)
        BY <1>12, <2>3, Nothing
      <4>2. Precede(D, Range(clients[j].buf))
        BY <1>7, <4>1
      <4> QED BY <4>1, <4>2 DEF Precede
    <3>2. Precede(D, QueuedTasks') /\ Precede(D, Unreceived')
      BY <1>5, <1>7, PrecedeUnion
    <3>3. Precede(D, Buffered' \cup QueuedTasks' \cup Unreceived')
      BY <3>1, <3>2, PrecedeUnion
    <3>4. Precede(QueuedMessages \cup D, Buffered' \cup QueuedTasks' \cup Unreceived')
      BY <2>1, <3>3, PrecedeUnion
    <3> QED BY <2>3, <3>4, PrecedeParts
  <2> QED BY <1>16, <2>2, <2>3
<1>19. Precede(QueuedTasks', Unreceived')
  BY <1>1, <1>4, <1>5, PrecedeParts DEF Stages
<1>20. Stages'
  BY <1>17, <1>18, <1>19 DEF Stages
<1>21. NotAhead'
  <2>1. QueuedMessages' \subseteq QueuedMessages \cup D
    BY <1>16
  <2>2. QueuedMessages' \cup Buffered' \cup QueuedTasks' \cup Unreceived'
           \subseteq QueuedMessages \cup Buffered \cup QueuedTasks \cup Unreceived
    BY <1>4, <1>5, <1>7, <1>13, <2>1
  <2> QED BY <1>1, <1>5, <2>2, NotAheadKept
<1>22. PipelineOrder'
  BY <1>4, <1>5, <1>11, <1>16, <1>20, PipelineNext
<1> QED BY <1>15, <1>21, <1>22 DEF PipeOK

LEMMA CMPipe == ASSUME TypeOK, SocketsFit, PipeOK, CMStep PROVE PipeOK'
<1>1. cm_queue # <<>> /\ cm_queue' = Tail(cm_queue)
  BY CMCases
<1>2. TasksInOrder
  BY PipelineParts DEF PipeOK
<1>3. /\ TasksInOrder' /\ QueuedTasks' \subseteq QueuedTasks
      /\ \A f, c : TaskCarries(f, c)' => TaskCarries(f, c)
  BY <1>1, <1>2, TaskTaken
<1>4. CASE ListKept
  <2>1. UNCHANGED <<clients, canvas_queue, sent, sock, rx, peer, backlog>>
    BY <1>4 DEF ListKept, kernelVars
  <2>2. \A c \in Conns : Fresh(c)' => Fresh(c)
    BY <2>1 DEF Fresh
  <2> QED BY <1>3, <2>1, <2>2, ListKeptPipe
<1>5. CASE AddClient
  BY <1>3, <1>5, AddClientPipe
<1>6. CASE AddClientFails
  <2>0. PICK c : c = Head(backlog)
    OBVIOUS
  <2>1. /\ backlog # <<>> /\ backlog' = Tail(backlog)
        /\ rx' = [rx EXCEPT ![c] = <<>>]
        /\ UNCHANGED <<clients, canvas_queue, sent, sock, peer>>
    BY <1>6, <2>0 DEF AddClientFails
  <2>2. \A d \in Conns : Fresh(d)' => Fresh(d)
    BY <2>0, <2>1, BacklogTaken
  <2>3. \A d \in Conns : rx'[d] = rx[d] \/ rx'[d] = <<>>
    BY <2>1 DEF TypeOK
  <2> QED BY <1>3, <2>1, <2>2, <2>3, ListKeptPipe
<1>7. CASE NodeUpdated
  BY <1>1, <1>7, NodeUpdatedPipe
<1>8. CASE NodesRemoved
  BY <1>3, <1>8, NodesRemovedPipe
<1> QED BY <1>4, <1>5, <1>6, <1>7, <1>8, CMCases

-----------------------------------------------------------------------------
(* So do the event loop, the canvas and the browsers                       *)

LEMMA LoopPushPipe ==
  ASSUME TypeOK, PipeOK, NEW t, Data(t) = <<>>, cm_queue' = Pushed(cm_queue, t) \/ cm_queue' = cm_queue,
         UNCHANGED <<clients, canvas_queue, sent, sock, rx, peer, backlog>>
  PROVE  PipeOK'
<1>1. TasksInOrder
  BY PipelineParts DEF PipeOK
<1>2. /\ TasksInOrder' /\ QueuedTasks' \subseteq QueuedTasks
      /\ \A f, c : TaskCarries(f, c)' => TaskCarries(f, c)
  BY <1>1, NoticePushed, SameTasks
<1>3. \A c \in Conns : Fresh(c)' => Fresh(c)
  BY DEF Fresh
<1> QED BY <1>2, <1>3, ListKeptPipe

(* One recv: what it returns precedes what it leaves. *)
LEMMA ReceivedPiece ==
  ASSUME TypeOK, RxInOrder, NotAhead, NEW c \in Conns, rx[c] # <<>>, NEW data, data = TaskData(Received(c)),
         rx' = [rx EXCEPT ![c] = SubSeq(rx[c], Len(Received(c)) + 1, Len(rx[c]))]
  PROVE  /\ data \in Seq(Chunks) /\ InOrder(data)
         /\ Range(data) \subseteq Unreceived /\ \A x \in Range(data) : x.conn = c
         /\ RxInOrder' /\ Unreceived' \subseteq Unreceived
         /\ \A d \in Conns : Range(rx'[d]) \subseteq Range(rx[d])
         /\ Precede(Range(data), Unreceived')
<1> DEFINE s == rx[c]
           bytes == Received(c)
           rest == SubSeq(rx[c], Len(Received(c)) + 1, Len(rx[c]))
<1>1. s \in Seq(Chunks) /\ Len(s) \in Nat /\ DOMAIN s = 1 .. Len(s) /\ InOrder(s)
  BY LenProperties DEF TypeOK, RxInOrder
<1>2. PICK m \in 1 .. Len(s) :
           /\ bytes \in Seq(Chunks) /\ Len(bytes) = m
           /\ \A i \in 1 .. m : bytes[i] = s[i]
           /\ rest \in Seq(Chunks) /\ Len(rest) = Len(s) - m
           /\ \A i \in 1 .. Len(s) - m : rest[i] = s[m + i]
           /\ Head(bytes) = s[1]
  BY ReceivedTyped
<1>3. rx'[c] = rest /\ \A d \in Conns : d # c => rx'[d] = rx[d]
  BY DEF TypeOK
<1>4. bytes # <<>>
  BY <1>2, EmptySeq
<1>5. data \in Seq(Chunks) /\ data \in {<<>>, <<Head(bytes)>>, bytes}
  BY <1>2, <1>4, TaskDataTyped
<1> HIDE DEF s, bytes, rest
<1>6. /\ DOMAIN bytes = 1 .. m /\ DOMAIN rest = 1 .. Len(s) - m
      /\ m \in Nat
  BY <1>1, <1>2, LenProperties
<1>7. /\ DOMAIN data \subseteq 1 .. m
      /\ \A i \in DOMAIN data : data[i] = s[i]
  <2>1. CASE data = <<>>
    BY <2>1
  <2>2. CASE data = <<Head(bytes)>>
    BY <1>2, <1>6, <2>2
  <2>3. CASE data = bytes
    BY <1>2, <1>6, <2>3
  <2> QED BY <1>5, <2>1, <2>2, <2>3
<1>8. \A i, j \in DOMAIN s : i < j /\ s[i].conn = s[j].conn => s[i].n < s[j].n
  BY <1>1, InOrderElements
<1>9. InOrder(data)
  <2>1. DOMAIN data \subseteq DOMAIN s
    BY <1>1, <1>6, <1>7
  <2> QED BY <1>7, <1>8, <2>1, InOrderElements
<1>10. ASSUME NEW i \in DOMAIN rest PROVE m + i \in DOMAIN s /\ rest[i] = s[m + i]
  BY <1>1, <1>2, <1>6
<1>11. InOrder(rest)
  <2> SUFFICES ASSUME NEW i \in DOMAIN rest, NEW j \in DOMAIN rest, i < j, rest[i].conn = rest[j].conn
               PROVE  rest[i].n < rest[j].n
    BY InOrderElements
  <2>1. m + i < m + j
    BY <1>1, <1>6
  <2> QED BY <1>8, <1>10, <2>1
<1>12. Range(data) \subseteq Range(s)
  <2>1. DOMAIN data \subseteq DOMAIN s
    BY <1>1, <1>6, <1>7
  <2> QED BY <1>7, <2>1, InRange
<1>13. Range(rest) \subseteq Range(s)
  BY <1>10, InRange
<1>14. \A d \in Conns : InOrder(rx'[d]) /\ Range(rx'[d]) \subseteq Range(rx[d])
  BY <1>3, <1>11, <1>13 DEF RxInOrder, s
<1>15. \A d \in Conns : \A x \in Range(rx[d]) : x.conn = d
  BY DEF NotAhead
<1>16. \A x \in Range(data) : x.conn = c /\ x \in Unreceived
  BY <1>12, <1>15, InSockets DEF s
<1>17. Unreceived' \subseteq Unreceived
  <2> SUFFICES ASSUME NEW x \in Unreceived' PROVE x \in Unreceived
    OBVIOUS
  <2>1. PICK d \in Conns : x \in Range(rx'[d])
    BY DEF Unreceived
  <2> QED BY <1>14, <2>1, InSockets
<1>18. Precede(Range(data), Unreceived')
  <2> SUFFICES ASSUME NEW x \in Range(data), NEW y \in Unreceived', x.conn = y.conn PROVE x.n < y.n
    BY DEF Precede
  <2>1. PICK d \in Conns : y \in Range(rx'[d])
    BY DEF Unreceived
  <2>2. d = c
    BY <1>14, <1>15, <1>16, <2>1
  <2>3. PICK j \in DOMAIN rest : y = rest[j]
    <3>1. y \in Range(rest)
      BY <1>3, <2>1, <2>2
    <3> QED BY <3>1, InRange
  <2>4. PICK i \in DOMAIN data : x = data[i]
    BY InRange
  <2>5. i \in DOMAIN s /\ m + j \in DOMAIN s /\ i < m + j /\ x = s[i] /\ y = s[m + j]
    BY <1>1, <1>6, <1>7, <1>10, <2>3, <2>4
  <2> QED BY <1>8, <2>5
<1> QED BY <1>5, <1>9, <1>14, <1>16, <1>17, <1>18 DEF RxInOrder

LEMMA DataEventPipe ==
  ASSUME TypeOK, PipeOK, DataEvent, UNCHANGED <<clients, canvas_queue>>
  PROVE  PipeOK'
<1>0. MessagesInOrder /\ BuffersInOrder /\ TasksInOrder /\ RxInOrder /\ Stages /\ OneDescriptor /\ NotAhead
  BY PipelineParts DEF PipeOK
<1>1. PICK fd, c : fd = Head(events) /\ c = sock[fd]
  OBVIOUS
<1>2. /\ events # <<>> /\ events' = Tail(events) /\ fd # Listen
      /\ c # None /\ rx[c] # <<>>
      /\ rx' = [rx EXCEPT ![c] = SubSeq(rx[c], Len(Received(c)) + 1, Len(rx[c]))]
      /\ \/ cm_queue' = cm_queue
         \/ /\ TaskType(Received(c)) # "none"
            /\ cm_queue' = Pushed(cm_queue, ClientTask(TaskType(Received(c)), fd, TaskData(Received(c))))
      /\ UNCHANGED <<peer, sent, backlog, sock>>
  BY <1>1 DEF DataEvent
<1>3. fd \in Fds /\ c \in Conns
  <2>1. fd \in Fds
    BY <1>1, <1>2, EventTyped
  <2> QED BY <1>1, <1>2, <2>1 DEF TypeOK
<1>4. PICK data : data = TaskData(Received(c))
  OBVIOUS
<1>5. /\ data \in Seq(Chunks) /\ InOrder(data)
      /\ Range(data) \subseteq Unreceived /\ \A x \in Range(data) : x.conn = c
      /\ RxInOrder' /\ Unreceived' \subseteq Unreceived
      /\ \A d \in Conns : Range(rx'[d]) \subseteq Range(rx[d])
      /\ Precede(Range(data), Unreceived')
  BY <1>0, <1>2, <1>3, <1>4, ReceivedPiece
<1>6. /\ BuffersInOrder' /\ Buffered' = Buffered
      /\ \A f, d : NodeCarries(f, d)' => NodeCarries(f, d)
  BY <1>0, SameBuffers
<1>7. MessagesInOrder' /\ QueuedMessages' = QueuedMessages
  BY <1>0, SameMessages
<1>8. /\ TasksInOrder' /\ QueuedTasks' \subseteq QueuedTasks \cup Range(data)
      /\ \A f, d : TaskCarries(f, d)' => TaskCarries(f, d) \/ (f = fd /\ d = c)
  <2>1. CASE cm_queue' = cm_queue
    BY <1>0, <2>1, SameTasks
  <2>2. ASSUME TaskType(Received(c)) # "none", NEW t, t = ClientTask(TaskType(Received(c)), fd, data),
               cm_queue' = Pushed(cm_queue, t)
        PROVE  /\ TasksInOrder' /\ QueuedTasks' \subseteq QueuedTasks \cup Range(data)
               /\ \A f, d : TaskCarries(f, d)' => TaskCarries(f, d) \/ (f = fd /\ d = c)
    <3>1. t.type = TaskType(Received(c)) /\ t.data = data /\ t.fd = fd
      BY <2>2 DEF ClientTask
    <3>2. t.type \in ClientTaskTypes \cup {"WEBSOCKET_CLOSE"}
      BY <2>2, <3>1, TaskTypeIn
    <3>3. Data(t) = data
      BY <3>1, <3>2 DEF Data, ClientTaskTypes
    <3>4. Precede(QueuedTasks, Range(Data(t)))
      BY <1>0, <1>5, <3>3, PrecedeParts DEF Stages
    <3>5. /\ TasksInOrder' /\ QueuedTasks' \subseteq QueuedTasks \cup Range(Data(t))
          /\ \A f, d : TaskCarries(f, d)' => \/ TaskCarries(f, d)
                                             \/ t.fd = f /\ \E x \in Range(Data(t)) : x.conn = d
      BY <1>0, <1>5, <2>2, <3>3, <3>4, TaskPushed
    <3> QED BY <1>5, <3>1, <3>3, <3>5
  <2> QED BY <1>2, <1>4, <2>1, <2>2
<1>9. OneDescriptor'
  <2>1. \A f \in Fds : \A d \in Conns : Carries(f, d)' => Carries(f, d)
    BY <1>1, <1>2, <1>6, <1>8 DEF Carries
  <2>2. \A d \in Conns : Fresh(d)' => Fresh(d)
    BY <1>2 DEF Fresh
  <2> QED BY <1>0, <2>1, <2>2, OneDescriptorKept
<1>10. QueuedTasks' \cup Unreceived' \subseteq QueuedTasks \cup Unreceived
  BY <1>5, <1>8
<1>11. Precede(QueuedMessages', Buffered' \cup QueuedTasks' \cup Unreceived')
  <2>1. Buffered' \cup QueuedTasks' \cup Unreceived' \subseteq Buffered \cup QueuedTasks \cup Unreceived
    BY <1>6, <1>10
  <2> QED BY <1>0, <1>7, <2>1, PrecedeParts DEF Stages
<1>12. Precede(Buffered', QueuedTasks' \cup Unreceived')
  BY <1>0, <1>6, <1>10, PrecedeParts DEF Stages
<1>13. Precede(QueuedTasks', Unreceived')
  <2>1. Precede(QueuedTasks, Unreceived')
    BY <1>0, <1>5, PrecedeParts DEF Stages
  <2>2. Precede(QueuedTasks \cup Range(data), Unreceived')
    BY <1>5, <2>1, PrecedeUnion
  <2> QED BY <1>8, <2>2, PrecedeParts
<1>14. NotAhead'
  <2>1. QueuedMessages' \cup Buffered' \cup QueuedTasks' \cup Unreceived'
           \subseteq QueuedMessages \cup Buffered \cup QueuedTasks \cup Unreceived
    BY <1>6, <1>7, <1>10
  <2> QED BY <1>0, <1>2, <1>5, <2>1, NotAheadKept
<1>15. Stages'
  BY <1>11, <1>12, <1>13 DEF Stages
<1>16. PipelineOrder'
  BY <1>5, <1>6, <1>7, <1>8, <1>15, PipelineNext
<1> QED BY <1>9, <1>14, <1>16 DEF PipeOK

LEMMA LoopPipe == ASSUME TypeOK, PipeOK, LoopThread PROVE PipeOK'
<1>1. UNCHANGED <<clients, canvas_queue>>
  BY DEF LoopThread, cmVars
<1>2. PICK t : t = [type |-> "NEW_CLIENT", fd |-> 0]
  OBVIOUS
<1>3. Data(t) = <<>>
  BY <1>2 DEF Data
<1>4. CASE EpollWait /\ UNCHANGED cm_queue
  BY <1>1, <1>3, <1>4, LoopPushPipe DEF EpollWait
<1>5. CASE AcceptEvent
  BY <1>1, <1>2, <1>3, <1>5, LoopPushPipe DEF AcceptEvent, netVars
<1>6. CASE CloseEvent
  <2>1. PICK u : u = ClientTask("CLIENT_CLOSE", Head(events), <<>>)
    OBVIOUS
  <2>2. Data(u) = <<>>
    BY <2>1 DEF ClientTask, Data
  <2> QED BY <1>1, <1>6, <2>1, <2>2, LoopPushPipe DEF CloseEvent, netVars
<1>7. CASE DataEvent
  BY <1>1, <1>7, DataEventPipe
<1> QED BY <1>4, <1>5, <1>6, <1>7 DEF LoopThread, HandleEvent

LEMMA CanvasPipe == ASSUME TypeOK, PipeOK, CanvasThread \/ Clock PROVE PipeOK'
<1>0. MessagesInOrder /\ BuffersInOrder /\ TasksInOrder /\ RxInOrder /\ OneDescriptor
  BY PipelineParts DEF PipeOK
<1>1. UNCHANGED <<clients, sent, sock, rx, peer, backlog>>
  BY DEF CanvasThread, Clock, cmVars, netVars
<1>2. \/ canvas_queue' = canvas_queue
      \/ canvas_queue # <<>> /\ canvas_queue' = Tail(canvas_queue)
  BY DEF CanvasThread, Clock, CanvasStep, PixelUpdate, SendCanvas, Timers, Tick, TakeCanvas
<1>3. \/ cm_queue' = cm_queue
      \/ \E t : Data(t) = <<>> /\ cm_queue' = Pushed(cm_queue, t)
  <2>1. CASE SendCanvas
    <3>1. PICK t : t = [type |-> "INIT_CANAVAS", fd |-> CanvasTask.fd, data |-> trans_canvas_as_json]
      OBVIOUS
    <3>2. Data(t) = <<>>
      BY <3>1 DEF Data
    <3>3. cm_queue' = Pushed(cm_queue, t)
      BY <2>1, <3>1 DEF SendCanvas
    <3> QED BY <3>2, <3>3
  <2>2. CASE Timers
    <3>1. PICK t : t = [type |-> "BROADCAST", fd |-> 0, data |-> modified_pixels]
      OBVIOUS
    <3>2. Data(t) = <<>>
      BY <3>1 DEF Data
    <3>3. cm_queue' = cm_queue \/ cm_queue' = Pushed(cm_queue, t)
      BY <2>2, <3>1 DEF Timers, BroadcastUpdates
    <3> QED BY <3>2, <3>3
  <2>3. CASE PixelUpdate \/ Tick
    BY <2>3 DEF PixelUpdate, Tick
  <2> QED BY <2>1, <2>2, <2>3 DEF CanvasThread, Clock, CanvasStep
<1>4. /\ TasksInOrder' /\ QueuedTasks' \subseteq QueuedTasks
      /\ \A f, c : TaskCarries(f, c)' => TaskCarries(f, c)
  BY <1>0, <1>3, NoticePushed, SameTasks
<1>5. MessagesInOrder' /\ QueuedMessages' \subseteq QueuedMessages
  <2>1. CASE canvas_queue' = canvas_queue
    BY <1>0, <2>1, SameMessages
  <2>2. CASE canvas_queue # <<>> /\ canvas_queue' = Tail(canvas_queue)
    <3>1. IsSeq(canvas_queue)
      BY TypeParts DEF CanvasTasksOK, IsSeq
    <3>2. QueueInOrder(canvas_queue') /\ Queued(canvas_queue') \subseteq Queued(canvas_queue)
      BY <1>0, <2>2, <3>1, QueueTail DEF MessagesInOrder
    <3> QED BY <3>2 DEF MessagesInOrder, QueuedMessages
  <2> QED BY <1>2, <2>1, <2>2
<1>6. /\ BuffersInOrder' /\ Buffered' = Buffered
      /\ \A f, d : NodeCarries(f, d)' => NodeCarries(f, d)
  BY <1>0, <1>1, SameBuffers
<1>7. /\ RxInOrder' /\ Unreceived' \subseteq Unreceived
      /\ \A d \in Conns : Range(rx'[d]) \subseteq Range(rx[d])
  BY <1>0, <1>1, RxKept
<1>8. PipelineOrder' /\ NotAhead'
  BY <1>1, <1>4, <1>5, <1>6, <1>7, PipeKept
<1>9. \A c \in Conns : Fresh(c)' => Fresh(c)
  BY <1>1 DEF Fresh
<1>10. OneDescriptor'
  BY <1>0, <1>1, <1>4, <1>6, <1>9, CarriesKept, OneDescriptorKept
<1> QED BY <1>8, <1>10 DEF PipeOK

LEMMA SendPipe ==
  ASSUME TypeOK, PipeOK, NEW c \in Conns, ClientSend(c), UNCHANGED <<clients, cm_queue, canvas_queue>>
  PROVE  PipeOK'
<1>0. MessagesInOrder /\ BuffersInOrder /\ TasksInOrder /\ RxInOrder /\ Stages /\ OneDescriptor /\ NotAhead
  BY PipelineParts DEF PipeOK
<1>1. PICK chunk : chunk = [conn |-> c, n |-> sent[c] + 1]
  OBVIOUS
<1>2. /\ sent' = [sent EXCEPT ![c] = @ + 1]
      /\ rx' = [rx EXCEPT ![c] = Append(@, chunk)]
      /\ UNCHANGED <<peer, backlog, sock>>
  BY <1>1 DEF ClientSend
<1>3. rx \in [Conns -> Seq(Chunks)] /\ sent \in [Conns -> Nat]
  BY DEF TypeOK
<1>4. \A x \in QueuedMessages \cup Buffered \cup QueuedTasks \cup Unreceived :
        x.conn \in Conns /\ x.n \in Nat /\ x.n <= sent[x.conn]
  BY <1>0, AllChunks, ScriptSeq, TypeParts DEF NotAhead
<1>5. chunk.conn = c /\ chunk.n = sent[c] + 1
  BY <1>1
<1>6. Precede(QueuedMessages \cup Buffered \cup QueuedTasks \cup Unreceived, {chunk})
  BY <1>3, <1>4, <1>5 DEF Precede
<1>7. InOrder(Append(rx[c], chunk)) /\ Range(Append(rx[c], chunk)) \subseteq Range(rx[c]) \cup {chunk}
  <2> DEFINE s == rx[c]
             t == Append(s, chunk)
  <2>1. IsSeq(s)
    BY <1>3, SeqOfRange DEF IsSeq
  <2>2. InOrder(s)
    BY <1>0 DEF RxInOrder
  <2>3. Precede(Range(s), {chunk})
    BY <1>6, InSockets DEF Precede
  <2> HIDE DEF s
  <2>4. /\ DOMAIN s = 1 .. Len(s) /\ Len(s) \in Nat
        /\ DOMAIN t = 1 .. Len(s) + 1
        /\ \A i \in 1 .. Len(s) : t[i] = s[i]
        /\ t[Len(s) + 1] = chunk
    BY <2>1, AppendSeq
  <2> HIDE DEF t
  <2>5. \A i \in DOMAIN t : (i \in DOMAIN s /\ t[i] = s[i]) \/ (i = Len(s) + 1 /\ t[i] = chunk)
    BY <2>4
  <2>6. Range(t) \subseteq Range(s) \cup {chunk}
    BY <2>5, InRange
  <2>7. ASSUME NEW i \in DOMAIN t, NEW j \in DOMAIN t, i < j, t[i].conn = t[j].conn
        PROVE  t[i].n < t[j].n
    <3>1. i \in DOMAIN s /\ t[i] = s[i]
      BY <2>4, <2>5, <2>7
    <3>2. CASE j \in DOMAIN s /\ t[j] = s[j]
      <4>1. s[i].conn = s[j].conn => s[i].n < s[j].n
        BY <2>2, <2>7, <3>1, <3>2, InOrderElements
      <4> QED BY <2>7, <3>1, <3>2, <4>1
    <3>3. CASE t[j] = chunk
      <4>1. s[i] \in Range(s)
        BY <3>1, InRange
      <4> QED BY <2>3, <2>7, <3>1, <3>3, <4>1 DEF Precede
    <3> QED BY <2>5, <3>2, <3>3
  <2>8. InOrder(t)
    BY <2>7, InOrderElements
  <2> QED BY <2>6, <2>8 DEF s, t
<1>8. rx'[c] = Append(rx[c], chunk) /\ \A d \in Conns : d # c => rx'[d] = rx[d]
  BY <1>2, <1>3
<1>9. \A d \in Conns : InOrder(rx'[d]) /\ \A x \in Range(rx'[d]) : x \in Range(rx[d]) \/ (x = chunk /\ d = c)
  BY <1>0, <1>7, <1>8 DEF RxInOrder
<1>10. RxInOrder' /\ Unreceived' \subseteq Unreceived \cup {chunk}
  <2>1. ASSUME NEW x \in Unreceived' PROVE x \in Unreceived \/ x = chunk
    <3>1. PICK d \in Conns : x \in Range(rx'[d])
      BY DEF Unreceived
    <3> QED BY <1>9, <3>1, InSockets
  <2> QED BY <1>9, <2>1 DEF RxInOrder
<1>11. /\ BuffersInOrder' /\ Buffered' = Buffered
       /\ \A f, d : NodeCarries(f, d)' => NodeCarries(f, d)
  BY <1>0, SameBuffers
<1>12. MessagesInOrder' /\ QueuedMessages' = QueuedMessages
  BY <1>0, SameMessages
<1>13. /\ TasksInOrder' /\ QueuedTasks' = QueuedTasks
       /\ \A f, d : TaskCarries(f, d)' => TaskCarries(f, d)
  BY <1>0, SameTasks
<1>14. Stages'
  <2>1. Precede(QueuedMessages, {chunk}) /\ Precede(Buffered, {chunk}) /\ Precede(QueuedTasks, {chunk})
    BY <1>6 DEF Precede
  <2>2. Precede(QueuedMessages, (Buffered \cup QueuedTasks \cup Unreceived) \cup {chunk})
    BY <1>0, <2>1, PrecedeUnion DEF Stages
  <2>3. Precede(Buffered, (QueuedTasks \cup Unreceived) \cup {chunk})
    BY <1>0, <2>1, PrecedeUnion DEF Stages
  <2>4. Precede(QueuedTasks, Unreceived \cup {chunk})
    BY <1>0, <2>1, PrecedeUnion DEF Stages
  <2>5. Precede(QueuedMessages', Buffered' \cup QueuedTasks' \cup Unreceived')
    <3>1. Buffered \cup QueuedTasks \cup Unreceived' \subseteq (Buffered \cup QueuedTasks \cup Unreceived) \cup {chunk}
      BY <1>10
    <3> QED BY <1>11, <1>12, <1>13, <2>2, <3>1, PrecedeParts
  <2>6. Precede(Buffered', QueuedTasks' \cup Unreceived')
    <3>1. QueuedTasks \cup Unreceived' \subseteq (QueuedTasks \cup Unreceived) \cup {chunk}
      BY <1>10
    <3> QED BY <1>11, <1>13, <2>3, <3>1, PrecedeParts
  <2>7. Precede(QueuedTasks', Unreceived')
    BY <1>10, <1>13, <2>4, PrecedeParts
  <2> QED BY <2>5, <2>6, <2>7 DEF Stages
<1>15. NotAhead'
  <2>1. \A d \in Conns : \A x \in Range(rx'[d]) : x.conn = d
    BY <1>0, <1>5, <1>9 DEF NotAhead
  <2>2. ASSUME NEW x \in QueuedMessages' \cup Buffered' \cup QueuedTasks' \cup Unreceived'
        PROVE  x.n <= sent'[x.conn]
    <3>1. CASE x = chunk
      BY <1>2, <1>3, <1>5, <3>1
    <3>2. CASE x \in QueuedMessages \cup Buffered \cup QueuedTasks \cup Unreceived
      <4>1. x.conn \in Conns /\ x.n \in Nat /\ x.n <= sent[x.conn]
        BY <1>4, <3>2
      <4>2. sent[x.conn] \in Nat /\ sent'[x.conn] \in Nat /\ sent[x.conn] <= sent'[x.conn]
        BY <1>2, <1>3, <4>1
      <4> QED BY <4>1, <4>2
    <3> QED BY <1>10, <1>11, <1>12, <1>13, <2>2, <3>1, <3>2
  <2> QED BY <2>1, <2>2 DEF NotAhead
<1>16. OneDescriptor'
  <2>1. \A d \in Conns : Fresh(d)' => Fresh(d)
    BY <1>2 DEF Fresh
  <2> QED BY <1>0, <1>2, <1>11, <1>13, <2>1, CarriesKept, OneDescriptorKept
<1>17. PipelineOrder'
  BY <1>10, <1>11, <1>12, <1>13, <1>14, PipelineNext
<1> QED BY <1>15, <1>16, <1>17 DEF PipeOK

LEMMA BrowserPipe == ASSUME TypeOK, PipeOK, Browsers PROVE PipeOK'
<1>1. PICK c \in Conns : Browser(c)
  BY DEF Browsers
<1>2. UNCHANGED <<clients, cm_queue, canvas_queue>>
  BY DEF Browsers, cmVars
<1>3. ASSUME UNCHANGED <<sent, sock, rx>>, \A d \in Conns : Fresh(d)' => Fresh(d) PROVE PipeOK'
  <2>1. TasksInOrder
    BY PipelineParts DEF PipeOK
  <2>2. /\ TasksInOrder' /\ QueuedTasks' \subseteq QueuedTasks
        /\ \A f, d : TaskCarries(f, d)' => TaskCarries(f, d)
    BY <1>2, <2>1, SameTasks
  <2> QED BY <1>2, <1>3, <2>2, ListKeptPipe
<1>4. CASE Connect(c)
  <2>1. /\ peer[c] = "new" /\ peer' = [peer EXCEPT ![c] = "up"]
        /\ backlog' = Append(backlog, c) /\ UNCHANGED <<sent, sock, rx>>
    BY <1>4 DEF Connect
  <2>2. /\ DOMAIN backlog = 1 .. Len(backlog) /\ Len(backlog) \in Nat
        /\ DOMAIN backlog' = 1 .. Len(backlog) + 1
        /\ \A i \in DOMAIN backlog : backlog'[i] = backlog[i]
        /\ backlog'[Len(backlog) + 1] = c
    BY <2>1, AppendBacklog
  <2>3. \A i \in DOMAIN backlog' : backlog'[i] = c \/ \E j \in DOMAIN backlog : backlog[j] = backlog'[i]
    BY <2>2
  <2>4. \A d \in Conns : peer'[d] = "new" => peer[d] = "new"
    BY <2>1 DEF TypeOK
  <2>5. \A d \in Conns : Fresh(d)' => Fresh(d)
    BY <2>1, <2>3, <2>4 DEF Fresh
  <2> QED BY <1>3, <2>1, <2>5
<1>5. CASE ClientSend(c)
  BY <1>2, <1>5, SendPipe
<1>6. CASE ClientClose(c)
  <2>1. peer[c] = "up" /\ peer' = [peer EXCEPT ![c] = "fin"] /\ UNCHANGED <<backlog, sock, sent, rx>>
    BY <1>6 DEF ClientClose
  <2>2. \A d \in Conns : Fresh(d)' => Fresh(d)
    BY <2>1 DEF Fresh, TypeOK
  <2> QED BY <1>3, <2>1, <2>2
<1> QED BY <1>1, <1>4, <1>5, <1>6 DEF Browser

LEMMA PipeNext == ASSUME TypeOK, SocketsFit, PipeOK, [Next]_vars PROVE PipeOK'
<1>1. CASE CMThread
  BY <1>1, CMPipe DEF CMThread
<1>2. CASE LoopThread
  BY <1>2, LoopPipe
<1>3. CASE CanvasThread \/ Clock
  BY <1>3, CanvasPipe
<1>4. CASE Browsers
  BY <1>4, BrowserPipe
<1>5. CASE UNCHANGED vars
  <2>1. UNCHANGED <<clients, cm_queue, canvas_queue, sent, sock, rx, peer, backlog>>
    BY <1>5 DEF vars, netVars, cmVars
  <2>2. Data([type |-> "NEW_CLIENT"]) = <<>>
    BY DEF Data
  <2> QED BY <2>1, <2>2, LoopPushPipe
<1> QED BY <1>1, <1>2, <1>3, <1>4, <1>5 DEF Next

LEMMA PipeInit == ASSUME Init PROVE PipeOK
<1>1. /\ clients = <<>> /\ cm_queue = <<>> /\ canvas_queue = <<>>
      /\ rx = [c \in Conns |-> <<>>] /\ sock = [f \in Fds |-> None]
  BY DEF Init, NetInit, CMInit
<1>2. DOMAIN clients = {} /\ DOMAIN cm_queue = {} /\ DOMAIN canvas_queue = {}
  BY <1>1
<1>3. QueuedMessages = {} /\ QueuedTasks = {} /\ Buffered = {}
  BY <1>2 DEF QueuedMessages, QueuedTasks, Queued, Buffered
<1>4. \A c \in Conns : Range(rx[c]) = {} /\ InOrder(rx[c])
  BY <1>1, Nothing
<1>5. Unreceived = {}
  BY <1>4 DEF Unreceived
<1>6. MessagesInOrder /\ BuffersInOrder /\ TasksInOrder /\ RxInOrder
  BY <1>2, <1>4 DEF MessagesInOrder, BuffersInOrder, TasksInOrder, RxInOrder, QueueInOrder
<1>7. Stages
  BY <1>3, <1>5, Nothing DEF Stages
<1>8. \A f \in Fds : \A c \in Conns : ~Carries(f, c)
  BY <1>1, <1>2, NetworkAssumption DEF Carries, NodeCarries, TaskCarries
<1>9. OneDescriptor /\ NotAhead
  BY <1>3, <1>4, <1>5, <1>8 DEF OneDescriptor, NotAhead
<1> QED BY <1>6, <1>7, <1>9, PipelineParts DEF PipeOK

(* Nothing a client sent overtakes or repeats what it sent before, on the  *)
(* whole way from its socket through the client manager's queue, the       *)
(* reassembly buffer of its node and the canvas's queue, though            *)
(* descriptors are used again and either queue drops what it has no room   *)
(* for.                                                                    *)
THEOREM NothingOvertakes == Spec => []PipelineOrder
<1>1. Init => TypeOK /\ SocketsFit /\ PipeOK
  BY InitTyped, SocketsFitInit, PipeInit
<1>2. TypeOK /\ SocketsFit /\ PipeOK /\ [Next]_vars => (TypeOK /\ SocketsFit /\ PipeOK)'
  BY NextTyped, SocketsNext, PipeNext
<1>3. PipeOK => PipelineOrder
  BY DEF PipeOK
<1> QED BY <1>1, <1>2, <1>3, PTL DEF Spec
=============================================================================
