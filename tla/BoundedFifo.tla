---------------------------- MODULE BoundedFifo ----------------------------
(***************************************************************************)
(* What task_queue.c promises to the threads of the server: a FIFO of at   *)
(* most Size - 1 tasks in which a call of push_task either appends its     *)
(* task or, when the queue is full, drops it, and a call of pop_task       *)
(* returns the oldest task.  Locks, indices and wake-ups are gone; what is *)
(* left is what the other modules of this project build on (Queues).       *)
(***************************************************************************)
EXTENDS Naturals, Sequences

CONSTANTS Producers,  \* threads that call push_task
          Consumers,  \* threads that call pop_task
          Tasks,      \* what can be queued
          Size,       \* number of slots of the ring
          None        \* "no task"

VARIABLES queue,      \* the tasks pushed and not yet popped, oldest first
          call,       \* call[p]: the task whose push has not taken effect yet
          got         \* got[c]: the task c has popped and is working on

vars == <<queue, call, got>>

Capacity == Size - 1

Init == /\ queue = <<>>
        /\ call = [p \in Producers |-> None]
        /\ got = [c \in Consumers |-> None]

(* A thread calls push_task(t). *)
CallPush(p, t) == /\ call[p] = None
                  /\ call' = [call EXCEPT ![p] = t]
                  /\ UNCHANGED <<queue, got>>

(* The push takes effect: there is room, and the task goes to the back. *)
Enqueue(p) == /\ call[p] # None
              /\ Len(queue) < Capacity
              /\ queue' = Append(queue, call[p])
              /\ call' = [call EXCEPT ![p] = None]
              /\ UNCHANGED got

(* The push takes effect on a full queue: the task is dropped. *)
Drop(p) == /\ call[p] # None
           /\ Len(queue) = Capacity
           /\ call' = [call EXCEPT ![p] = None]
           /\ UNCHANGED <<queue, got>>

(* A pop takes effect: it takes the oldest task. *)
Dequeue(c) == /\ got[c] = None
              /\ queue # <<>>
              /\ queue' = Tail(queue)
              /\ got' = [got EXCEPT ![c] = Head(queue)]
              /\ UNCHANGED call

(* The caller of pop_task is done with its task and asks for the next one. *)
Finish(c) == /\ got[c] # None
             /\ got' = [got EXCEPT ![c] = None]
             /\ UNCHANGED <<queue, call>>

Next == \/ \E p \in Producers : \/ \E t \in Tasks : CallPush(p, t)
                                \/ Enqueue(p)
                                \/ Drop(p)
        \/ \E c \in Consumers : Dequeue(c) \/ Finish(c)

Spec == Init /\ [][Next]_vars
=============================================================================
