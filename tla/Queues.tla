------------------------------- MODULE Queues -------------------------------
(***************************************************************************)
(* The two task queues through which the threads of the 1.2v server talk:  *)
(* the event loop and the canvas push to the client manager's queue, the   *)
(* client manager pushes to the canvas's queue.  push_task and pop_task    *)
(* are used as the atomic operations of BoundedFifo, which TaskQueue is    *)
(* shown to implement.                                                     *)
(***************************************************************************)
EXTENDS Naturals, Sequences

CONSTANT QueueSize      \* TASK_QUEUE_SIZE: slots of each ring

ASSUME QueueSizeAssumption == QueueSize \in Nat /\ QueueSize >= 2

VARIABLES cm_queue,     \* tasks for the client manager, oldest first
          canvas_queue  \* tasks for the canvas, oldest first

(* A ring of QueueSize slots holds QueueSize - 1 tasks. *)
HasRoom(q) == Len(q) + 1 < QueueSize

(* push_task: on a full queue the task is dropped. *)
Pushed(q, task) == IF HasRoom(q) THEN Append(q, task) ELSE q
=============================================================================
