----------------------------- MODULE TaskQueue -----------------------------
(***************************************************************************)
(* task_queue.c (1.2v): a ring of `size` slots guarded by one mutex and    *)
(* one condition variable.  Every statement between pthread_mutex_lock and *)
(* pthread_mutex_unlock is a step of its own.  The producers are the       *)
(* threads that call push_task (the event loop, the client manager, the    *)
(* canvas), the consumers the threads that loop on pop_task.               *)
(***************************************************************************)
EXTENDS Naturals, Sequences, FiniteSets

CONSTANTS Producers, Consumers, Tasks, Size, None

Threads == Producers \cup Consumers

ASSUME SizeAssumption == Size \in Nat /\ Size >= 2
ASSUME ThreadsAssumption == Producers \cap Consumers = {}
ASSUME FiniteAssumption == IsFiniteSet(Producers) /\ IsFiniteSet(Consumers)
ASSUME NoneAssumption == None \notin Threads /\ None \notin Tasks

VARIABLES tasks,    \* the ring: queue->tasks
          front,    \* queue->front: index of the oldest task
          rear,     \* queue->rear: index of the first free slot
          lock,     \* the thread that holds queue->lock, or None
          waiting,  \* the consumers blocked in pthread_cond_wait
          pc,       \* where each thread is in push_task or pop_task
          task      \* argument of push_task, local variable of pop_task

vars == <<tasks, front, rear, lock, waiting, pc, task>>

Slots == 0 .. Size - 1

Succ_m(i) == i + 1                              \* mutant: no wrap-around
Succ(i) == (i + 1) % Size

(* None in a slot stands for what malloc left there. *)
Init == /\ tasks = [i \in Slots |-> None]
        /\ front = 0
        /\ rear = 0
        /\ lock = None
        /\ waiting = {}
        /\ pc = [t \in Threads |-> IF t \in Producers THEN "idle" ELSE "pop"]
        /\ task = [t \in Threads |-> None]

Goto(t, label) == pc' = [pc EXCEPT ![t] = label]

Acquire(t) == lock = None /\ lock' = t
Release(t) == lock = t /\ lock' = None

(***************************************************************************)
(* push_task                                                               *)
(***************************************************************************)
CallPush(p, t) == /\ pc[p] = "idle"
                  /\ task' = [task EXCEPT ![p] = t]
                  /\ Goto(p, "push")
                  /\ UNCHANGED <<tasks, front, rear, lock, waiting>>

LockPush(p) == /\ pc[p] = "push"
               /\ Acquire(p)
               /\ Goto(p, "full?")
               /\ UNCHANGED <<tasks, front, rear, waiting, task>>

(* One slot always stays free: a full ring would look like an empty one. *)
Full == Succ(rear) = front

(* mutant: the early return forgets to unlock *)
CheckFull_m(p) == /\ pc[p] = "full?"
                  /\ Goto(p, IF Full THEN "idle" ELSE "store")
                  /\ UNCHANGED <<tasks, front, rear, lock, waiting, task>>
(* mutant: the full test is missing *)
CheckFull_m2(p) == /\ pc[p] = "full?"
                   /\ Goto(p, "store")
                   /\ UNCHANGED <<tasks, front, rear, lock, waiting, task>>
(* A full ring drops the task and leaves by the early return. *)
CheckFull(p) == /\ pc[p] = "full?"
                /\ Goto(p, IF Full THEN "unlock" ELSE "store")
                /\ UNCHANGED <<tasks, front, rear, lock, waiting, task>>

Store(p) == /\ pc[p] = "store"
            /\ tasks' = [tasks EXCEPT ![rear] = task[p]]
            /\ Goto(p, "advance rear")
            /\ UNCHANGED <<front, rear, lock, waiting, task>>

AdvanceRear(p) == /\ pc[p] = "advance rear"
                  /\ rear' = Succ(rear)
                  /\ Goto(p, "signal")
                  /\ UNCHANGED <<tasks, front, lock, waiting, task>>

(* mutant: signal only when the ring was empty before *)
Signal_m(p) == /\ pc[p] = "signal"
               /\ \E W \in SUBSET waiting :
                    /\ waiting # {} /\ rear = Succ(front) => W # {}
                    /\ waiting' = waiting \ W
               /\ Goto(p, "unlock")
               /\ UNCHANGED <<tasks, front, rear, lock, task>>
(* mutant: no signal *)
Signal_m2(p) == /\ pc[p] = "signal"
                /\ Goto(p, "unlock")
                /\ UNCHANGED <<tasks, front, rear, lock, waiting, task>>
(* pthread_cond_signal: at least one of the blocked threads is unblocked. *)
Signal(p) == /\ pc[p] = "signal"
             /\ \E W \in SUBSET waiting :
                  /\ waiting # {} => W # {}
                  /\ waiting' = waiting \ W
             /\ Goto(p, "unlock")
             /\ UNCHANGED <<tasks, front, rear, lock, task>>

UnlockPush(p) == /\ pc[p] = "unlock"
                 /\ Release(p)
                 /\ Goto(p, "idle")
                 /\ UNCHANGED <<tasks, front, rear, waiting, task>>

Push(p) == \/ LockPush(p) \/ CheckFull(p) \/ Store(p) \/ AdvanceRear(p)
           \/ Signal(p) \/ UnlockPush(p)

(***************************************************************************)
(* pop_task and the loop around it                                         *)
(***************************************************************************)
LockPop(c) == /\ pc[c] = "pop"
              /\ Acquire(c)
              /\ Goto(c, "empty?")
              /\ UNCHANGED <<tasks, front, rear, waiting, task>>

(* pthread_cond_wait: release the mutex and block, as one step. *)
Wait(c) == /\ pc[c] = "empty?"
           /\ front = rear
           /\ Release(c)
           /\ waiting' = waiting \cup {c}
           /\ Goto(c, "wait")
           /\ UNCHANGED <<tasks, front, rear, task>>

(* pthread_cond_wait may return without a signal. *)
SpuriousWakeup(c) == /\ c \in waiting
                     /\ waiting' = waiting \ {c}
                     /\ UNCHANGED <<tasks, front, rear, lock, pc, task>>

(* mutant: `if` instead of `while` around pthread_cond_wait *)
Relock_m(c) == /\ pc[c] = "wait"
               /\ c \notin waiting
               /\ Acquire(c)
               /\ Goto(c, "load")
               /\ UNCHANGED <<tasks, front, rear, waiting, task>>
(* An unblocked thread takes the mutex again and re-evaluates the loop. *)
Relock(c) == /\ pc[c] = "wait"
             /\ c \notin waiting
             /\ Acquire(c)
             /\ Goto(c, "empty?")
             /\ UNCHANGED <<tasks, front, rear, waiting, task>>

LeaveLoop(c) == /\ pc[c] = "empty?"
                /\ front # rear
                /\ Goto(c, "load")
                /\ UNCHANGED <<tasks, front, rear, lock, waiting, task>>

Load(c) == /\ pc[c] = "load"
           /\ task' = [task EXCEPT ![c] = tasks[front]]
           /\ Goto(c, "advance front")
           /\ UNCHANGED <<tasks, front, rear, lock, waiting>>

AdvanceFront(c) == /\ pc[c] = "advance front"
                   /\ front' = Succ(front)
                   /\ Goto(c, "unlock")
                   /\ UNCHANGED <<tasks, rear, lock, waiting, task>>

UnlockPop(c) == /\ pc[c] = "unlock"
                /\ Release(c)
                /\ Goto(c, "work")
                /\ UNCHANGED <<tasks, front, rear, waiting, task>>

(* The worker thread has handled its task and calls pop_task again. *)
Work(c) == /\ pc[c] = "work"
           /\ task' = [task EXCEPT ![c] = None]
           /\ Goto(c, "pop")
           /\ UNCHANGED <<tasks, front, rear, lock, waiting>>

Pop(c) == \/ LockPop(c) \/ Wait(c) \/ Relock(c) \/ LeaveLoop(c) \/ Load(c)
          \/ AdvanceFront(c) \/ UnlockPop(c) \/ Work(c)

Next == \/ \E p \in Producers : (\E t \in Tasks : CallPush(p, t)) \/ Push(p)
        \/ \E c \in Consumers : Pop(c) \/ SpuriousWakeup(c)

(***************************************************************************)
(* A thread that can run is eventually scheduled.  Nobody is obliged to    *)
(* call push_task, and spurious wake-ups need not happen.                  *)
(***************************************************************************)
Fairness == /\ \A p \in Producers : WF_vars(Push(p))
            /\ \A c \in Consumers : WF_vars(Pop(c))

Spec == Init /\ [][Next]_vars /\ Fairness

(***************************************************************************)
(* Properties                                                              *)
(***************************************************************************)
PushLabels == {"idle", "push", "full?", "store", "advance rear", "signal", "unlock"}
PopLabels == {"pop", "empty?", "wait", "load", "advance front", "unlock", "work"}

(* Type invariant: indices stay inside the ring, threads at their labels. *)
TypeOK == /\ tasks \in [Slots -> Tasks \cup {None}]
          /\ front \in Slots /\ rear \in Slots
          /\ lock \in Threads \cup {None}
          /\ waiting \subseteq Consumers
          /\ pc \in [Threads -> PushLabels \cup PopLabels]
          /\ \A p \in Producers : pc[p] \in PushLabels
          /\ \A c \in Consumers : pc[c] \in PopLabels
          /\ task \in [Threads -> Tasks \cup {None}]

Locked == {"full?", "store", "advance rear", "signal", "unlock", "empty?",
           "load", "advance front"}

(* push_task and pop_task: a thread is between lock and unlock exactly     *)
(* while it is the holder of the mutex, so no two threads ever are.        *)
MutexHeld == \A t \in Threads : pc[t] \in Locked <=> lock = t

Count == (rear + Size - front) % Size

(* The tasks in the ring, oldest first. *)
Contents == [i \in 1 .. Count |-> tasks[(front + i - 1) % Size]]

(* A consumer past the emptiness loop has something to load, and a         *)
(* producer past the fullness check has room: nothing can change front or  *)
(* rear in between, whoever was waiting or woken.                          *)
CheckStillTrue ==
  /\ \A c \in Consumers : pc[c] \in {"load", "advance front"} => front # rear
  /\ \A p \in Producers : pc[p] \in {"store", "advance rear"} => ~Full

Awake == Consumers \ waiting
Signalling == {p \in Producers : pc[p] = "signal"}

(* No wake-up is lost: while consumers are blocked in pthread_cond_wait,   *)
(* every queued task has an awake consumer, or a signal on its way.        *)
NoLostWakeup ==
  waiting # {} => Count <= Cardinality(Awake) + Cardinality(Signalling)

(* Tasks do not get stuck: again and again the queue has been emptied or   *)
(* some thread is in the middle of a push_task.                            *)
QueueDrains == []<>(front = rear \/ \E p \in Producers : pc[p] # "idle")

(* The ring implements the bounded FIFO: a push takes effect when rear     *)
(* moves (or when the full test succeeds), a pop when front moves.         *)
Fifo == INSTANCE BoundedFifo WITH
  queue <- Contents,
  call <- [p \in Producers |->
             IF pc[p] \in {"push", "full?", "store", "advance rear"}
             THEN task[p] ELSE None],
  got <- [c \in Consumers |->
            IF pc[c] \in {"unlock", "work"} THEN task[c] ELSE None]

ImplementsFifo == Fifo!Spec
=============================================================================
