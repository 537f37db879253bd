-------------------------- MODULE SharedMemoryProofs --------------------------
(***************************************************************************)
(* Proofs about what threads share: the task queue of all versions         *)
(* (task_queue.c, guarded by a mutex) and the list of clients of 1.1v      *)
(* (client_manager.c, guarded by nothing), with what goes through both.    *)
(*                                                                         *)
(* The first part is about task_queue.c, for every set of threads, every   *)
(* set of tasks and every ring size.  The inductive invariant is           *)
(*     IInv == TypeOK /\ MutexHeld /\ WaitersWait /\ CheckStillTrue        *)
(* MutexHeld is what makes CheckStillTrue inductive: the index that would  *)
(* falsify a test already made is moved only by the holder of the mutex.   *)
(* On top of it, NoLostWakeup is preserved by itself, and so is Carried:   *)
(* what the threads hold and the ring contains are tasks, and the task a   *)
(* thread is about to store or has just loaded is the one in the slot.     *)
(* From both follows that task_queue.c implements BoundedFifo.             *)
(***************************************************************************)
EXTENDS TaskQueue, SharedListServer, FiniteSetTheorems, SequenceTheorems, WellFoundedInduction, TLAPS

(* A consumer blocked in pthread_cond_wait stands at that call. *)
WaitersWait == \A c \in waiting : pc[c] = "wait"

IInv == TypeOK /\ MutexHeld /\ WaitersWait /\ CheckStillTrue

(* Succ stays in the ring and moves every index. *)
LEMMA SuccInRing ==
  ASSUME NEW i \in Slots
  PROVE  Succ(i) \in Slots /\ Succ(i) # i
  BY SizeAssumption DEF Succ, Slots

(* The state init_task_queue leaves, with no thread inside the queue,      *)
(* satisfies the inductive invariant.                                      *)
LEMMA InitIInv == Init => IInv
  <1> SUFFICES ASSUME Init PROVE IInv
    OBVIOUS
  <1> USE ThreadsAssumption, NoneAssumption
      DEF Init, Threads, PushLabels, PopLabels, Locked
  <1>1. \A p \in Producers : pc[p] = "idle"
    OBVIOUS
  <1>2. \A c \in Consumers : pc[c] = "pop"
    OBVIOUS
  <1>3. TypeOK
    <2>1. 0 \in Slots
      BY SizeAssumption DEF Slots
    <2>2. pc \in [Threads -> PushLabels \cup PopLabels]
      OBVIOUS
    <2> QED BY <1>1, <1>2, <2>1, <2>2 DEF TypeOK
  <1>4. MutexHeld
    BY <1>1, <1>2 DEF MutexHeld
  <1>5. WaitersWait /\ CheckStillTrue
    BY <1>1, <1>2 DEF WaitersWait, CheckStillTrue
  <1> QED BY <1>3, <1>4, <1>5 DEF IInv

(* One step of push_task preserves the inductive invariant. *)
LEMMA PushIInv ==
  ASSUME IInv, NEW p \in Producers, Push(p)
  PROVE  IInv'
  <1> USE SizeAssumption, ThreadsAssumption, NoneAssumption
      DEF IInv, Goto, Threads, PushLabels, PopLabels, Locked
  <1>1. p \in Threads /\ p \notin Consumers
    OBVIOUS
  <1>2. CASE LockPush(p)
    BY <1>1, <1>2 DEF LockPush, Acquire, TypeOK, MutexHeld, WaitersWait, CheckStillTrue, Full
  <1>3. CASE CheckFull(p)
    BY <1>1, <1>3 DEF CheckFull, TypeOK, MutexHeld, WaitersWait, CheckStillTrue, Full
  <1>4. CASE Store(p)
    BY <1>1, <1>4 DEF Store, TypeOK, MutexHeld, WaitersWait, CheckStillTrue, Full
  <1>5. CASE AdvanceRear(p)
    BY <1>1, <1>5, SuccInRing DEF AdvanceRear, TypeOK, MutexHeld, WaitersWait, CheckStillTrue, Full
  <1>6. CASE Signal(p)
    BY <1>1, <1>6 DEF Signal, TypeOK, MutexHeld, WaitersWait, CheckStillTrue, Full
  <1>7. CASE UnlockPush(p)
    BY <1>1, <1>7 DEF UnlockPush, Release, TypeOK, MutexHeld, WaitersWait, CheckStillTrue, Full
  <1> QED BY <1>2, <1>3, <1>4, <1>5, <1>6, <1>7 DEF Push

(* One step of pop_task, or of the loop around it, preserves the invariant. *)
LEMMA PopIInv ==
  ASSUME IInv, NEW c \in Consumers, Pop(c)
  PROVE  IInv'
  <1> USE SizeAssumption, ThreadsAssumption, NoneAssumption
      DEF IInv, Goto, Threads, PushLabels, PopLabels, Locked
  <1>1. c \in Threads /\ c \notin Producers
    OBVIOUS
  <1>2. CASE LockPop(c)
    BY <1>1, <1>2 DEF LockPop, Acquire, TypeOK, MutexHeld, WaitersWait, CheckStillTrue, Full
  <1>3. CASE Wait(c)
    BY <1>1, <1>3 DEF Wait, Release, TypeOK, MutexHeld, WaitersWait, CheckStillTrue, Full
  <1>4. CASE Relock(c)
    BY <1>1, <1>4 DEF Relock, Acquire, TypeOK, MutexHeld, WaitersWait, CheckStillTrue, Full
  <1>5. CASE LeaveLoop(c)
    BY <1>1, <1>5 DEF LeaveLoop, TypeOK, MutexHeld, WaitersWait, CheckStillTrue, Full
  <1>6. CASE Load(c)
    BY <1>1, <1>6 DEF Load, TypeOK, MutexHeld, WaitersWait, CheckStillTrue, Full
  <1>7. CASE AdvanceFront(c)
    BY <1>1, <1>7, SuccInRing DEF AdvanceFront, TypeOK, MutexHeld, WaitersWait, CheckStillTrue, Full
  <1>8. CASE UnlockPop(c)
    BY <1>1, <1>8 DEF UnlockPop, Release, TypeOK, MutexHeld, WaitersWait, CheckStillTrue, Full
  <1>9. CASE Work(c)
    BY <1>1, <1>9 DEF Work, TypeOK, MutexHeld, WaitersWait, CheckStillTrue, Full
  <1> QED BY <1>2, <1>3, <1>4, <1>5, <1>6, <1>7, <1>8, <1>9 DEF Pop

(* Every step does: besides push_task and pop_task there are a new call,   *)
(* which takes no lock, and a wake-up nobody asked for.                    *)
LEMMA NextIInv == IInv /\ [Next]_vars => IInv'
  <1> SUFFICES ASSUME IInv, [Next]_vars PROVE IInv'
    OBVIOUS
  <1>1. ASSUME NEW p \in Producers, NEW t \in Tasks, CallPush(p, t)
        PROVE  IInv'
    BY <1>1, ThreadsAssumption, NoneAssumption
    DEF CallPush, Goto, IInv, TypeOK, MutexHeld, WaitersWait, CheckStillTrue,
        Full, Threads, PushLabels, PopLabels, Locked
  <1>2. ASSUME NEW c \in Consumers, SpuriousWakeup(c)
        PROVE  IInv'
    BY <1>2 DEF SpuriousWakeup, IInv, TypeOK, MutexHeld, WaitersWait, CheckStillTrue, Full
  <1>3. CASE UNCHANGED vars
    BY <1>3 DEF vars, IInv, TypeOK, MutexHeld, WaitersWait, CheckStillTrue, Full
  <1> QED BY <1>1, <1>2, <1>3, PushIInv, PopIInv DEF Next

(* The inductive invariant holds in every state of every behaviour of      *)
(* push_task and pop_task.                                                 *)
THEOREM Invariance == Spec => []IInv
  BY InitIInv, NextIInv, PTL DEF Spec

(* The indices of the ring, the mutex, the set of blocked threads and the  *)
(* program counters always have the type their declarations give them.     *)
THEOREM TypeCorrect == Spec => []TypeOK
  BY Invariance, PTL DEF IInv

(* pthread_mutex_lock/unlock in push_task and pop_task: a thread is inside *)
(* the critical section exactly while it holds the mutex.                  *)
THEOREM MutualExclusion == Spec => []MutexHeld
  BY Invariance, PTL DEF IInv

(* The full test of push_task and the empty test of pop_task still hold    *)
(* when the slot they guard is written, respectively read.                 *)
THEOREM ChecksStayValid == Spec => []CheckStillTrue
  BY Invariance, PTL DEF IInv

(***************************************************************************)
(* How many tasks the ring holds                                           *)
(***************************************************************************)
(* Arithmetic modulo the size of the ring, without division. *)
LEMMA ModSize ==
  ASSUME NEW n \in Nat, n < 2 * Size
  PROVE  n % Size = IF n < Size THEN n ELSE n - Size
  <1> USE SizeAssumption
  <1>1. CASE n < Size
    BY <1>1
  <1>2. CASE n >= Size
    BY <1>2
  <1> QED BY <1>1, <1>2

(* The number of tasks between two indices is a number. *)
LEMMA DistanceInNat ==
  ASSUME NEW f \in Slots, NEW r \in Slots
  PROVE  (r + Size - f) % Size \in Nat
  <1>1. r + Size - f \in Nat
    BY SizeAssumption DEF Slots
  <1> QED BY <1>1, SizeAssumption

(* Count and the slots it counts, by cases instead of by remainders. *)
LEMMA CountCases ==
  ASSUME front \in Slots, rear \in Slots
  PROVE  /\ Count = IF front <= rear THEN rear - front ELSE rear + Size - front
         /\ Count \in 0 .. Size - 1
         /\ Succ(rear) = IF rear = Size - 1 THEN 0 ELSE rear + 1
         /\ Succ(front) = IF front = Size - 1 THEN 0 ELSE front + 1
         /\ \A i \in 1 .. Count :
              (front + i - 1) % Size
                = IF front + i - 1 < Size THEN front + i - 1 ELSE front + i - 1 - Size
  <1> USE SizeAssumption DEF Slots
  <1>1. Count = IF front <= rear THEN rear - front ELSE rear + Size - front
    <2>1. rear + Size - front \in Nat /\ rear + Size - front < 2 * Size
      OBVIOUS
    <2> QED BY <2>1, ModSize DEF Count
  <1>2. Count \in 0 .. Size - 1
    BY <1>1
  <1>3. Succ(rear) = IF rear = Size - 1 THEN 0 ELSE rear + 1
    <2>1. rear + 1 \in Nat /\ rear + 1 < 2 * Size
      OBVIOUS
    <2> QED BY <2>1, ModSize DEF Succ
  <1>4. Succ(front) = IF front = Size - 1 THEN 0 ELSE front + 1
    <2>1. front + 1 \in Nat /\ front + 1 < 2 * Size
      OBVIOUS
    <2> QED BY <2>1, ModSize DEF Succ
  <1>5. ASSUME NEW i \in 1 .. Count
        PROVE  (front + i - 1) % Size
                = IF front + i - 1 < Size THEN front + i - 1 ELSE front + i - 1 - Size
    <2>1. front + i - 1 \in Nat /\ front + i - 1 < 2 * Size
      BY <1>2
    <2> QED BY <2>1, ModSize
  <1> QED BY <1>1, <1>2, <1>3, <1>4, <1>5

(* The ring is full for push_task when it holds Size - 1 tasks, and empty  *)
(* for pop_task when it holds none.                                        *)
LEMMA FullEmpty ==
  ASSUME TypeOK
  PROVE  /\ Full <=> Count = Size - 1
         /\ front = rear <=> Count = 0
  BY CountCases, SizeAssumption DEF TypeOK, Full, Slots

(* A push adds one to the number of queued tasks. *)
LEMMA CountGrows ==
  ASSUME TypeOK, ~Full, UNCHANGED front, rear' = Succ(rear)
  PROVE  Count' = Count + 1
  <1>1. rear' \in Slots /\ front' \in Slots /\ front \in Slots /\ rear \in Slots
    BY SuccInRing DEF TypeOK
  <1>2. Count' = IF front' <= rear' THEN rear' - front' ELSE rear' + Size - front'
    <2>1. rear' + Size - front' \in Nat /\ rear' + Size - front' < 2 * Size
      BY <1>1, SizeAssumption DEF Slots
    <2> QED BY <1>1, <2>1, ModSize, SizeAssumption DEF Count, Slots
  <1> QED
    BY <1>1, <1>2, CountCases, SizeAssumption DEF Full, Slots

(* A pop takes one away. *)
LEMMA CountShrinks ==
  ASSUME TypeOK, front # rear, UNCHANGED rear, front' = Succ(front)
  PROVE  Count' = Count - 1 /\ Count \in Nat /\ Count >= 1
  <1>1. rear' \in Slots /\ front' \in Slots /\ front \in Slots /\ rear \in Slots
    BY SuccInRing DEF TypeOK
  <1>2. Count' = IF front' <= rear' THEN rear' - front' ELSE rear' + Size - front'
    <2>1. rear' + Size - front' \in Nat /\ rear' + Size - front' < 2 * Size
      BY <1>1, SizeAssumption DEF Slots
    <2> QED BY <1>1, <2>1, ModSize, SizeAssumption DEF Count, Slots
  <1> QED
    BY <1>1, <1>2, CountCases, SizeAssumption DEF Slots

(***************************************************************************)
(* No wake-up is lost                                                      *)
(***************************************************************************)
(* The consumers outside pthread_cond_wait and the producers about to      *)
(* signal can be counted.                                                  *)
LEMMA FiniteCounts ==
  ASSUME TypeOK
  PROVE  /\ IsFiniteSet(Awake) /\ Cardinality(Awake) \in Nat
         /\ IsFiniteSet(Signalling) /\ Cardinality(Signalling) \in Nat
  <1>1. IsFiniteSet(Awake) /\ IsFiniteSet(Signalling)
    BY FiniteAssumption, FS_Subset DEF Awake, Signalling
  <1> QED BY <1>1, FS_CardinalityType

(* A step that neither queues a task, nor blocks a consumer, nor takes a   *)
(* producer away from its signal cannot lose a wake-up.                    *)
LEMMA WakeupFrame ==
  ASSUME TypeOK, TypeOK', NoLostWakeup, Count' <= Count, Count' \in Nat, Count \in Nat,
         waiting' \subseteq waiting, Signalling' = Signalling
  PROVE  NoLostWakeup'
  <1>1. Awake \subseteq Awake'
    BY DEF Awake
  <1>2. IsFiniteSet(Awake') /\ Cardinality(Awake') \in Nat
    <2>1. Awake' \subseteq Consumers
      BY DEF Awake
    <2> QED BY <2>1, FiniteAssumption, FS_Subset, FS_CardinalityType
  <1>3. Cardinality(Awake) <= Cardinality(Awake')
    BY <1>1, <1>2, FS_Subset
  <1>4. waiting' # {} => waiting # {}
    OBVIOUS
  <1> QED BY <1>2, <1>3, <1>4, FiniteCounts DEF NoLostWakeup

(* pthread_cond_signal, and no more than it, keeps NoLostWakeup.           *)
LEMMA WakeupStep == IInv /\ NoLostWakeup /\ [Next]_vars => NoLostWakeup'
  <1> SUFFICES ASSUME IInv, NoLostWakeup, [Next]_vars PROVE NoLostWakeup'
    OBVIOUS
  <1> USE DEF Goto
  <1>1. TypeOK /\ TypeOK' /\ pc \in [Threads -> PushLabels \cup PopLabels] /\ waiting \subseteq Consumers
    BY NextIInv DEF IInv, TypeOK
  <1>2. Count \in Nat /\ Count' \in Nat
    <2>1. front \in Slots /\ rear \in Slots /\ front' \in Slots /\ rear' \in Slots
      BY <1>1 DEF TypeOK
    <2> QED BY <2>1, DistanceInNat DEF Count
  <1>3. ASSUME NEW p \in Producers PROVE p \in Threads /\ p \notin Consumers
    BY ThreadsAssumption DEF Threads
  <1>4. ASSUME NEW c \in Consumers PROVE c \in Threads /\ c \notin Producers
    BY ThreadsAssumption DEF Threads
  <1>5. ASSUME NEW p \in Producers, NEW t \in Tasks, CallPush(p, t) PROVE NoLostWakeup'
    <2>1. Signalling' = Signalling /\ Count' = Count
      BY <1>1, <1>3, <1>5 DEF CallPush, Signalling, Count
    <2> QED BY <1>1, <1>2, <1>5, <2>1, WakeupFrame DEF CallPush
  <1>6. ASSUME NEW p \in Producers, Push(p) PROVE NoLostWakeup'
    <2>1. CASE LockPush(p) \/ CheckFull(p) \/ Store(p) \/ UnlockPush(p)
      <3>1. Signalling' = Signalling /\ Count' = Count /\ waiting' = waiting
        BY <1>1, <1>3, <2>1 DEF LockPush, CheckFull, Store, UnlockPush, Signalling, Count
      <3> QED BY <1>1, <1>2, <3>1, WakeupFrame
    <2>2. CASE AdvanceRear(p)
      <3>1. Count' = Count + 1
        BY <1>1, <2>2, CountGrows DEF AdvanceRear, IInv, CheckStillTrue
      <3>2. Signalling' = Signalling \cup {p} /\ p \notin Signalling
        BY <1>1, <1>3, <2>2 DEF AdvanceRear, Signalling
      <3>3. Cardinality(Signalling') = Cardinality(Signalling) + 1
        BY <1>1, <3>2, FiniteCounts, FS_AddElement
      <3>4. waiting' = waiting /\ Awake' = Awake
        BY <2>2 DEF AdvanceRear, Awake
      <3> QED BY <1>1, <1>2, <3>1, <3>3, <3>4, FiniteCounts DEF NoLostWakeup
    <2>3. CASE Signal(p)
      <3>1. Signalling' = Signalling \ {p} /\ p \in Signalling
        BY <1>1, <1>3, <2>3 DEF Signal, Signalling
      <3>2. Cardinality(Signalling') = Cardinality(Signalling) - 1
        BY <1>1, <3>1, FiniteCounts, FS_RemoveElement
      <3>3. Count' = Count
        BY <2>3 DEF Signal, Count
      <3>4. PICK W \in SUBSET waiting : (waiting # {} => W # {}) /\ waiting' = waiting \ W
        BY <2>3 DEF Signal
      <3>5. CASE waiting = {}
        BY <3>4, <3>5 DEF NoLostWakeup
      <3>6. CASE waiting # {}
        <4>1. PICK w \in W : TRUE
          BY <3>4, <3>6
        <4>2. w \notin Awake /\ Awake \cup {w} \subseteq Awake'
          BY <1>1, <3>4, <4>1 DEF Awake
        <4>3. IsFiniteSet(Awake')
          BY FiniteAssumption, FS_Subset DEF Awake
        <4>4. Cardinality(Awake \cup {w}) = Cardinality(Awake) + 1
          BY <1>1, <4>2, FiniteCounts, FS_AddElement
        <4>5. Cardinality(Awake) + 1 <= Cardinality(Awake')
          BY <4>2, <4>3, <4>4, FS_Subset
        <4>6. Cardinality(Awake') \in Nat
          BY <4>3, FS_CardinalityType
        <4> QED BY <1>1, <1>2, <3>2, <3>3, <3>6, <4>5, <4>6, FiniteCounts DEF NoLostWakeup
      <3> QED BY <3>5, <3>6
    <2> QED BY <1>6, <2>1, <2>2, <2>3 DEF Push
  <1>7. ASSUME NEW c \in Consumers, Pop(c) PROVE NoLostWakeup'
    <2>1. Signalling' = Signalling
      BY <1>1, <1>3, <1>4, <1>7
      DEF Pop, LockPop, Wait, Relock, LeaveLoop, Load, AdvanceFront, UnlockPop, Work, Signalling
    <2>2. CASE Wait(c)
      <3>1. Count' = 0
        BY <1>1, <2>2, FullEmpty DEF Wait, Count
      <3>2. Cardinality(Awake') \in Nat
        BY FiniteAssumption, FS_Subset, FS_CardinalityType DEF Awake
      <3> QED BY <1>1, <2>1, <3>1, <3>2, FiniteCounts DEF NoLostWakeup
    <2>3. CASE AdvanceFront(c)
      <3>1. Count' = Count - 1
        BY <1>1, <2>3, CountShrinks DEF AdvanceFront, IInv, CheckStillTrue
      <3>2. waiting' = waiting
        BY <2>3 DEF AdvanceFront
      <3>3. Count' <= Count
        BY <1>2, <3>1
      <3> QED BY <1>1, <1>2, <2>1, <3>2, <3>3, WakeupFrame
    <2>4. CASE LockPop(c) \/ Relock(c) \/ LeaveLoop(c) \/ Load(c) \/ UnlockPop(c) \/ Work(c)
      <3>1. Count' = Count /\ waiting' = waiting
        BY <2>4 DEF LockPop, Relock, LeaveLoop, Load, UnlockPop, Work, Count
      <3> QED BY <1>1, <1>2, <2>1, <3>1, WakeupFrame
    <2> QED BY <1>7, <2>2, <2>3, <2>4 DEF Pop
  <1>8. ASSUME NEW c \in Consumers, SpuriousWakeup(c) PROVE NoLostWakeup'
    <2>1. Signalling' = Signalling /\ Count' = Count /\ waiting' \subseteq waiting
      BY <1>8 DEF SpuriousWakeup, Signalling, Count
    <2> QED BY <1>1, <1>2, <2>1, WakeupFrame
  <1>9. CASE UNCHANGED vars
    BY <1>9 DEF vars, NoLostWakeup, Awake, Signalling, Count
  <1> QED BY <1>5, <1>6, <1>7, <1>8, <1>9 DEF Next

(* The condition variable of task_queue.c: whenever consumers are blocked  *)
(* in pthread_cond_wait, each queued task has an awake consumer or a       *)
(* signal about to be sent, for any number of threads and slots.           *)
THEOREM WakeupsKept == Spec => []NoLostWakeup
  <1>1. Init => NoLostWakeup
    BY DEF Init, NoLostWakeup
  <1> QED BY <1>1, WakeupStep, Invariance, PTL DEF Spec

-----------------------------------------------------------------------------
(* What is in the hands of the threads and in the ring is a task.          *)
Carried ==
  /\ \A p \in Producers : pc[p] \in {"push", "full?", "store", "advance rear"}
                          => task[p] \in Tasks
  /\ \A p \in Producers : pc[p] = "advance rear" => tasks[rear] = task[p]
  /\ \A c \in Consumers : pc[c] = "advance front" => task[c] = tasks[front]
  /\ \A c \in Consumers : pc[c] \in {"unlock", "work"} => task[c] \in Tasks
  /\ \A i \in 1 .. Count : tasks[(front + i - 1) % Size] \in Tasks

(* The contents of the ring are a sequence of Count tasks. *)
LEMMA ContentsSeq ==
  ASSUME TypeOK, Carried
  PROVE  /\ Contents \in Seq(Tasks)
         /\ Len(Contents) = Count
         /\ \A i \in 1 .. Count : Contents[i] = tasks[(front + i - 1) % Size]
  <1>1. Count \in Nat
    BY CountCases, SizeAssumption DEF TypeOK
  <1>2. Contents \in [1 .. Count -> Tasks]
    BY DEF Contents, Carried
  <1>3. Contents \in Seq(Tasks)
    BY <1>1, <1>2, SeqDef
  <1>4. Len(Contents) = Count
    BY <1>1, <1>2, <1>3, LenProperties
  <1> QED BY <1>3, <1>4 DEF Contents

(* Writing the free slot at rear changes nothing that is queued. *)
LEMMA StoreFree ==
  ASSUME TypeOK, UNCHANGED <<front, rear>>, NEW t, tasks' = [tasks EXCEPT ![rear] = t]
  PROVE  /\ Count' = Count
         /\ \A i \in 1 .. Count : tasks'[(front + i - 1) % Size] = tasks[(front + i - 1) % Size]
         /\ Contents' = Contents
  <1>1. Count' = Count
    BY DEF Count
  <1>2. ASSUME NEW i \in 1 .. Count
        PROVE  (front + i - 1) % Size # rear /\ (front + i - 1) % Size \in Slots
    <2>1. front \in Slots /\ rear \in Slots
      BY DEF TypeOK
    <2>2. (front + i - 1) % Size = IF front + i - 1 < Size THEN front + i - 1
                                                         ELSE front + i - 1 - Size
      BY <2>1, CountCases
    <2>3. Count = IF front <= rear THEN rear - front ELSE rear + Size - front
      BY <2>1, CountCases
    <2> QED BY <2>1, <2>2, <2>3, SizeAssumption DEF Slots
  <1>3. ASSUME NEW i \in 1 .. Count
        PROVE  tasks'[(front + i - 1) % Size] = tasks[(front + i - 1) % Size]
    BY <1>2 DEF TypeOK
  <1>4. Contents' = [i \in 1 .. Count |-> tasks'[(front + i - 1) % Size]]
    BY <1>1 DEF Contents
  <1>5. Contents' = Contents
    BY <1>3, <1>4 DEF Contents
  <1> QED BY <1>1, <1>3, <1>5

(* Advancing rear over a stored task appends it. *)
LEMMA AppendRear ==
  ASSUME TypeOK, Carried, ~Full, tasks[rear] \in Tasks,
         UNCHANGED <<tasks, front>>, rear' = Succ(rear)
  PROVE  /\ Count' = Count + 1
         /\ \A i \in 1 .. Count' : tasks[(front + i - 1) % Size] \in Tasks
         /\ Contents' = Append(Contents, tasks[rear])
  <1>1. front \in Slots /\ rear \in Slots
    BY DEF TypeOK
  <1>2. Count' = Count + 1
    BY CountGrows
  <1>3. (front + (Count + 1) - 1) % Size = rear
    <2>1. front + (Count + 1) - 1 \in Nat /\ front + (Count + 1) - 1 < 2 * Size
      BY <1>1, CountCases, SizeAssumption DEF Slots
    <2> QED BY <1>1, <2>1, ModSize, CountCases, SizeAssumption DEF Slots
  <1>4. Count \in Nat
    BY <1>1, CountCases, SizeAssumption
  <1>5. \A i \in 1 .. Count' : tasks[(front + i - 1) % Size] \in Tasks
    <2>1. ASSUME NEW i \in 1 .. Count + 1, i # Count + 1
          PROVE  i \in 1 .. Count
      BY <1>4, <2>1
    <2> QED BY <1>2, <1>3, <1>4, <2>1 DEF Carried
  <1>6. Contents' = [i \in 1 .. Count + 1 |-> tasks[(front + i - 1) % Size]]
    BY <1>2 DEF Contents
  <1>7. Contents' \in Seq(Tasks) /\ Len(Contents') = Count + 1
    <2>1. Contents' \in [1 .. Count + 1 -> Tasks]
      BY <1>2, <1>5, <1>6
    <2>2. Contents' \in Seq(Tasks)
      BY <1>4, <2>1, SeqDef
    <2> QED BY <1>4, <2>1, <2>2, LenProperties
  <1>8. /\ Append(Contents, tasks[rear]) \in Seq(Tasks)
        /\ Len(Append(Contents, tasks[rear])) = Count + 1
        /\ \A i \in 1 .. Count + 1 : Append(Contents, tasks[rear])[i]
                                    = IF i = Count + 1 THEN tasks[rear] ELSE Contents[i]
    BY <1>4, ContentsSeq
  <1>9. \A i \in 1 .. Count + 1 : Contents'[i] = Append(Contents, tasks[rear])[i]
    BY <1>3, <1>4, <1>6, <1>8, ContentsSeq
  <1>10. Contents' = Append(Contents, tasks[rear])
    BY <1>7, <1>8, <1>9, SeqEqual
  <1> QED BY <1>2, <1>5, <1>10

(* Advancing front over a loaded task removes it. *)
LEMMA TailFront ==
  ASSUME TypeOK, Carried, front # rear,
         UNCHANGED <<tasks, rear>>, front' = Succ(front)
  PROVE  /\ Count' = Count - 1
         /\ \A i \in 1 .. Count' : tasks[(front' + i - 1) % Size] \in Tasks
         /\ Contents # <<>>
         /\ Head(Contents) = tasks[front]
         /\ Contents' = Tail(Contents)
  <1>1. front' \in Slots /\ front \in Slots /\ rear \in Slots
    BY SuccInRing DEF TypeOK
  <1>2. Count' = Count - 1 /\ Count \in Nat /\ Count >= 1
    BY CountShrinks
  <1>3. ASSUME NEW i \in 1 .. Count - 1
        PROVE  (front' + i - 1) % Size = (front + (i + 1) - 1) % Size
    <2>1. front' + i - 1 \in Nat /\ front' + i - 1 < 2 * Size
      BY <1>1, <1>2, CountCases, SizeAssumption DEF Slots
    <2>2. (front' + i - 1) % Size = IF front' + i - 1 < Size THEN front' + i - 1
                                                          ELSE front' + i - 1 - Size
      BY <1>1, <1>2, <2>1, ModSize, SizeAssumption DEF Slots
    <2>3. i + 1 \in 1 .. Count
      BY <1>2
    <2> QED BY <1>1, <1>2, <2>2, <2>3, CountCases, SizeAssumption DEF Slots
  <1>4. \A i \in 1 .. Count' : tasks[(front' + i - 1) % Size] \in Tasks
    <2> SUFFICES ASSUME NEW i \in 1 .. Count - 1
                 PROVE  tasks[(front' + i - 1) % Size] \in Tasks
      BY <1>2
    <2>1. i + 1 \in 1 .. Count
      BY <1>2
    <2> QED BY <1>3, <2>1 DEF Carried
  <1>5. Contents # <<>> /\ Head(Contents) = Contents[1] /\ Contents[1] = tasks[front]
    <2>1. front % Size = front
      BY <1>1, ModSize, SizeAssumption DEF Slots
    <2> QED BY <1>1, <1>2, <2>1, ContentsSeq, EmptySeq DEF Slots
  <1>6. Contents' = [i \in 1 .. Count - 1 |-> tasks[(front' + i - 1) % Size]]
    BY <1>2 DEF Contents
  <1>7. Contents' \in Seq(Tasks) /\ Len(Contents') = Count - 1
    <2>1. Contents' \in [1 .. Count - 1 -> Tasks]
      BY <1>2, <1>4, <1>6
    <2>2. Contents' \in Seq(Tasks)
      BY <1>2, <2>1, SeqDef
    <2> QED BY <1>2, <2>1, <2>2, LenProperties
  <1>8. /\ Tail(Contents) \in Seq(Tasks)
        /\ Len(Tail(Contents)) = Count - 1
        /\ \A i \in 1 .. Count - 1 : Tail(Contents)[i] = Contents[i + 1]
    BY <1>2, <1>5, ContentsSeq, HeadTailProperties
  <1>9. \A i \in 1 .. Count - 1 : Contents'[i] = Tail(Contents)[i]
    <2> SUFFICES ASSUME NEW i \in 1 .. Count - 1
                 PROVE  Contents'[i] = Tail(Contents)[i]
      OBVIOUS
    <2>1. i + 1 \in 1 .. Count
      BY <1>2
    <2> QED BY <1>3, <1>6, <1>8, <2>1, ContentsSeq
  <1>10. Contents' = Tail(Contents)
    BY <1>7, <1>8, <1>9, SeqEqual
  <1> QED BY <1>2, <1>4, <1>5, <1>10

(* A step that moves neither ring, index nor task, and brings no thread to *)
(* a place of which Carried speaks, preserves it.                          *)
LEMMA CarriedFrame ==
  ASSUME IInv, Carried, UNCHANGED <<tasks, front, rear, task>>,
         \A p \in Producers :
           /\ pc'[p] \in {"push", "full?", "store", "advance rear"}
                => pc[p] \in {"push", "full?", "store", "advance rear"}
           /\ pc'[p] = "advance rear" => pc[p] = "advance rear",
         \A c \in Consumers :
           /\ pc'[c] = "advance front" => pc[c] = "advance front"
           /\ pc'[c] \in {"unlock", "work"} => pc[c] \in {"unlock", "work"}
  PROVE  Carried'
  <1>1. Count' = Count
    BY DEF Count
  <1> QED BY <1>1 DEF Carried

(* What a thread carries stays a task, step by step. *)
LEMMA CarriedStep == IInv /\ Carried /\ [Next]_vars => Carried'
  <1> SUFFICES ASSUME IInv, Carried, [Next]_vars PROVE Carried'
    OBVIOUS
  <1> USE DEF Goto
  <1>1. pc \in [Threads -> PushLabels \cup PopLabels] /\ task \in [Threads -> Tasks \cup {None}]
    BY DEF IInv, TypeOK
  <1>2. TypeOK /\ TypeOK' /\ MutexHeld
    BY NextIInv DEF IInv
  <1>3. ASSUME NEW p \in Producers PROVE p \in Threads /\ p \notin Consumers
    BY ThreadsAssumption DEF Threads
  <1>4. ASSUME NEW c \in Consumers PROVE c \in Threads /\ c \notin Producers
    BY ThreadsAssumption DEF Threads
  <1>5. ASSUME NEW p \in Producers, NEW t \in Tasks, CallPush(p, t) PROVE Carried'
    <2>1. Count' = Count
      BY <1>5 DEF CallPush, Count
    <2> QED BY <1>1, <1>3, <1>4, <1>5, <2>1 DEF CallPush, Carried
  <1>6. ASSUME NEW p \in Producers, Push(p) PROVE Carried'
    <2>1. CASE LockPush(p) \/ CheckFull(p) \/ Signal(p) \/ UnlockPush(p)
      BY <1>1, <1>3, <1>4, <2>1, CarriedFrame
      DEF LockPush, CheckFull, Signal, UnlockPush, Acquire, Release
    <2>2. CASE Store(p)
      <3>1. /\ Count' = Count
            /\ \A i \in 1 .. Count : tasks'[(front + i - 1) % Size] = tasks[(front + i - 1) % Size]
        BY <1>2, <2>2, StoreFree DEF Store
      <3>2. \A c \in Consumers : pc[c] # "advance front"
        BY <1>2, <1>3, <1>4, <2>2 DEF Store, MutexHeld, Locked
      <3>3. \A q \in Producers : pc[q] = "advance rear" => q = p
        BY <1>2, <1>3, <2>2 DEF Store, MutexHeld, Locked
      <3>4. tasks'[rear] = task[p]
        BY <1>2, <2>2 DEF Store, TypeOK
      <3> QED BY <1>1, <1>3, <1>4, <2>2, <3>1, <3>2, <3>3, <3>4 DEF Store, Carried
    <2>3. CASE AdvanceRear(p)
      <3>1. ~Full /\ tasks[rear] \in Tasks
        BY <2>3 DEF AdvanceRear, IInv, CheckStillTrue, Carried
      <3>2. \A i \in 1 .. Count' : tasks[(front + i - 1) % Size] \in Tasks
        BY <1>2, <2>3, <3>1, AppendRear DEF AdvanceRear
      <3>3. \A q \in Producers : pc[q] = "advance rear" => q = p
        BY <1>2, <1>3, <2>3 DEF AdvanceRear, MutexHeld, Locked
      <3> QED BY <1>1, <1>3, <1>4, <2>3, <3>2, <3>3 DEF AdvanceRear, Carried
    <2> QED BY <1>6, <2>1, <2>2, <2>3 DEF Push
  <1>7. ASSUME NEW c \in Consumers, Pop(c) PROVE Carried'
    <2>1. CASE LockPop(c) \/ Wait(c) \/ Relock(c) \/ LeaveLoop(c) \/ UnlockPop(c)
      BY <1>1, <1>3, <1>4, <2>1, CarriedFrame
      DEF LockPop, Wait, Relock, LeaveLoop, UnlockPop, Acquire, Release
    <2>2. CASE Load(c)
      <3>1. Count' = Count
        BY <2>2 DEF Load, Count
      <3> QED BY <1>1, <1>3, <1>4, <2>2, <3>1 DEF Load, Carried
    <2>3. CASE AdvanceFront(c)
      <3>1. front # rear
        BY <2>3 DEF AdvanceFront, IInv, CheckStillTrue
      <3>2. \A i \in 1 .. Count' : tasks[(front' + i - 1) % Size] \in Tasks
        BY <1>2, <2>3, <3>1, TailFront DEF AdvanceFront
      <3>3. task[c] \in Tasks
        <4>1. Contents # <<>> /\ Head(Contents) = tasks[front]
          BY <1>2, <2>3, <3>1, TailFront DEF AdvanceFront
        <4>2. Head(Contents) \in Tasks
          BY <1>2, <4>1, ContentsSeq, HeadTailProperties
        <4> QED BY <2>3, <4>1, <4>2 DEF AdvanceFront, Carried
      <3>4. \A e \in Consumers : pc[e] = "advance front" => e = c
        BY <1>2, <1>4, <2>3 DEF AdvanceFront, MutexHeld, Locked
      <3> QED BY <1>1, <1>3, <1>4, <2>3, <3>2, <3>3, <3>4 DEF AdvanceFront, Carried
    <2>4. CASE Work(c)
      <3>1. Count' = Count
        BY <2>4 DEF Work, Count
      <3> QED BY <1>1, <1>3, <1>4, <2>4, <3>1 DEF Work, Carried
    <2> QED BY <1>7, <2>1, <2>2, <2>3, <2>4 DEF Pop
  <1>8. ASSUME NEW c \in Consumers, SpuriousWakeup(c) PROVE Carried'
    BY <1>8, CarriedFrame DEF SpuriousWakeup
  <1>9. CASE UNCHANGED vars
    BY <1>9, CarriedFrame DEF vars
  <1> QED BY <1>5, <1>6, <1>7, <1>8, <1>9 DEF Next

LEMMA CarriedInit == Init => Carried
  <1> SUFFICES ASSUME Init PROVE Carried
    OBVIOUS
  <1>1. Count = 0
    BY CountCases, SizeAssumption DEF Init, Slots
  <1> QED BY <1>1, ThreadsAssumption DEF Init, Carried, Threads

(* The initial ring is the empty queue. *)
LEMMA FifoInit == Init => Fifo!Init
  <1> SUFFICES ASSUME Init PROVE Fifo!Init
    OBVIOUS
  <1>1. TypeOK /\ Carried
    BY InitIInv, CarriedInit DEF IInv
  <1>2. Count = 0
    BY CountCases, SizeAssumption DEF Init, Slots
  <1>3. Contents = <<>>
    BY <1>1, <1>2, ContentsSeq, EmptySeq
  <1> QED BY <1>3, ThreadsAssumption DEF Init, Fifo!Init, Threads

(* Every step of push_task and pop_task is a step of the bounded FIFO or   *)
(* leaves what the FIFO shows unchanged.                                   *)
LEMMA FifoStep == IInv /\ Carried /\ [Next]_vars => [Fifo!Next]_(Fifo!vars)
  <1> SUFFICES ASSUME IInv, Carried, [Next]_vars PROVE [Fifo!Next]_(Fifo!vars)
    OBVIOUS
  <1> USE DEF Goto
  <1>1. pc \in [Threads -> PushLabels \cup PopLabels] /\ task \in [Threads -> Tasks \cup {None}]
    BY DEF IInv, TypeOK
  <1>2. TypeOK
    BY DEF IInv
  <1>3. ASSUME NEW p \in Producers PROVE p \in Threads /\ p \notin Consumers
    BY ThreadsAssumption DEF Threads
  <1>4. ASSUME NEW c \in Consumers PROVE c \in Threads /\ c \notin Producers
    BY ThreadsAssumption DEF Threads
  <1>5. ASSUME UNCHANGED <<tasks, front, rear>> PROVE Contents' = Contents
    BY <1>5 DEF Contents, Count
  <1>6. ASSUME NEW p \in Producers, NEW t \in Tasks, CallPush(p, t)
        PROVE  Fifo!CallPush(p, t)
    BY <1>1, <1>3, <1>4, <1>5, <1>6 DEF CallPush, Fifo!CallPush
  <1>7. ASSUME NEW p \in Producers, Push(p)
        PROVE  Fifo!Enqueue(p) \/ Fifo!Drop(p) \/ UNCHANGED Fifo!vars
    <2> USE <1>1, <1>3, <1>4, NoneAssumption
    <2>1. CASE LockPush(p)
      BY <1>5, <2>1 DEF LockPush, Fifo!vars
    <2>2. CASE CheckFull(p) /\ Full
      <3>1. Len(Contents) = Size - 1
        BY <1>2, <2>2, FullEmpty, ContentsSeq
      <3>2. task[p] # None
        BY <2>2 DEF CheckFull, Carried
      <3> QED BY <1>5, <2>2, <3>1, <3>2 DEF CheckFull, Fifo!Drop, Fifo!Capacity
    <2>3. CASE CheckFull(p) /\ ~Full
      BY <1>5, <2>3 DEF CheckFull, Fifo!vars
    <2>4. CASE Store(p)
      <3>1. Contents' = Contents
        BY <1>2, <2>4, StoreFree DEF Store
      <3> QED BY <2>4, <3>1 DEF Store, Fifo!vars
    <2>5. CASE AdvanceRear(p)
      <3>1. ~Full /\ tasks[rear] = task[p] /\ task[p] \in Tasks
        BY <2>5 DEF AdvanceRear, IInv, CheckStillTrue, Carried
      <3>2. Contents' = Append(Contents, task[p])
        BY <1>2, <2>5, <3>1, AppendRear DEF AdvanceRear
      <3>3. Len(Contents) < Size - 1
        BY <1>2, <3>1, FullEmpty, ContentsSeq, CountCases, SizeAssumption DEF TypeOK
      <3> QED BY <2>5, <3>1, <3>2, <3>3 DEF AdvanceRear, Fifo!Enqueue, Fifo!Capacity
    <2>6. CASE Signal(p)
      BY <1>5, <2>6 DEF Signal, Fifo!vars
    <2>7. CASE UnlockPush(p)
      BY <1>5, <2>7 DEF UnlockPush, Fifo!vars
    <2> QED BY <1>7, <2>1, <2>2, <2>3, <2>4, <2>5, <2>6, <2>7 DEF Push
  <1>8. ASSUME NEW c \in Consumers, Pop(c)
        PROVE  Fifo!Dequeue(c) \/ Fifo!Finish(c) \/ UNCHANGED Fifo!vars
    <2> USE <1>1, <1>3, <1>4, NoneAssumption
    <2>1. CASE LockPop(c) \/ Wait(c) \/ Relock(c) \/ LeaveLoop(c)
      BY <1>5, <2>1 DEF LockPop, Wait, Relock, LeaveLoop, Fifo!vars
    <2>2. CASE Load(c)
      BY <1>5, <2>2 DEF Load, Fifo!vars
    <2>3. CASE AdvanceFront(c)
      <3>1. front # rear /\ task[c] = tasks[front]
        BY <2>3 DEF AdvanceFront, IInv, CheckStillTrue, Carried
      <3>2. Contents # <<>> /\ Head(Contents) = task[c] /\ Contents' = Tail(Contents)
        BY <1>2, <2>3, <3>1, TailFront DEF AdvanceFront
      <3> QED BY <2>3, <3>2 DEF AdvanceFront, Fifo!Dequeue
    <2>4. CASE UnlockPop(c)
      BY <1>5, <2>4 DEF UnlockPop, Fifo!vars
    <2>5. CASE Work(c)
      BY <1>5, <2>5 DEF Work, Carried, Fifo!Finish
    <2> QED BY <1>8, <2>1, <2>2, <2>3, <2>4, <2>5 DEF Pop
  <1>9. ASSUME NEW c \in Consumers, SpuriousWakeup(c) PROVE UNCHANGED Fifo!vars
    BY <1>5, <1>9 DEF SpuriousWakeup, Fifo!vars
  <1>10. CASE UNCHANGED vars
    BY <1>5, <1>10 DEF vars, Fifo!vars
  <1> QED BY <1>6, <1>7, <1>8, <1>9, <1>10 DEF Next, Fifo!Next

(* task_queue.c implements a bounded FIFO that drops what does not fit.    *)
THEOREM Refinement == Spec => ImplementsFifo
  <1>1. Spec => []Carried
    BY Invariance, CarriedInit, CarriedStep, PTL DEF Spec
  <1> QED BY <1>1, Invariance, FifoInit, FifoStep, PTL DEF Spec, ImplementsFifo, Fifo!Spec
-----------------------------------------------------------------------------
(***************************************************************************)
(* The second part is about 1.1v.                                          *)
(*                                                                         *)
(* RemoveOnlyEnded.  Basic says of descriptors, sockets, addresses and     *)
(* events what holds whatever happens: one descriptor per connection, one  *)
(* event per descriptor in a batch, memory left for malloc.  Removal adds  *)
(* what holds while at most two clients are gone (Few).  EventsSound: an   *)
(* event that is still to be handled is about the client whose number it   *)
(* carries.  FreedOnce: as long as the server has closed one client only,  *)
(* one node at most was freed, and the node that removeClient has found is *)
(* the one of its event, even if it was freed and allocated again; so the  *)
(* second client to go is closed by its own number, and there is no third. *)
(*                                                                         *)
(* ToldInSync.  While nobody leaves, nothing is removed (Calm) and the     *)
(* list only grows at its head (List).  Current then follows a color from  *)
(* the hash map (InMap) to a task (InTasks), the walk (InWalk) and the     *)
(* clients it has reached (InTold): each holds what the canvas shows when  *)
(* nothing newer is in the ones before it.                                 *)
(*                                                                         *)
(* ListTypeOK.  Types follows colors from what clients send (DrawnColors)  *)
(* through the same places, and the sizes of the queues.                   *)
(***************************************************************************)
LEMMA Minimum ==
  ASSUME NEW S \in SUBSET Nat, S # {}
  PROVE  \E i \in S : \A j \in S : i <= j
<1>1. PICK i \in S : \A j \in S : <<j, i>> \notin OpToRel(<, Nat)
  BY WFMin, NatLessThanWellFounded
<1>2. \A j \in S : ~(j < i)
  BY <1>1 DEF OpToRel
<1>3. \A j \in S : i <= j
  BY <1>2
<1> QED BY <1>3

(* Picked: what it returns are the elements at the places asked for, in    *)
(* their order.                                                            *)
LEMMA Induction ==
  ASSUME NEW S, 0 \in S, \A n \in Nat : n \in S => n + 1 \in S
  PROVE  Nat \subseteq S
<1> SUFFICES ASSUME Nat \ S # {} PROVE FALSE
  OBVIOUS
<1>1. PICK m \in Nat \ S : \A x \in Nat \ S : m <= x
  <2>1. Nat \ S \in SUBSET Nat
    OBVIOUS
  <2> QED BY <2>1, Minimum
<1>2. m # 0 /\ m - 1 \in Nat /\ m - 1 \in S
  BY <1>1
<1> QED BY <1>1, <1>2

(* f is the function that Picked defines, up to N. *)
Picks(s, P, f, N) ==
  f = [n \in 0 .. N |-> IF n = 0 THEN <<>>
                        ELSE IF n \in P THEN Append(f[n - 1], s[n]) ELSE f[n - 1]]

LEMMA PicksExists ==
  ASSUME NEW s, NEW P, NEW N \in Nat
  PROVE  \E f : Picks(s, P, f, N)
<1> DEFINE S == {m \in Nat : \E f : Picks(s, P, f, m)}
<1>1. 0 \in S
  <2> DEFINE f == [n \in 0 .. 0 |-> <<>>]
  <2>1. Picks(s, P, f, 0)
    BY DEF Picks
  <2> QED BY <2>1
<1>2. ASSUME NEW m \in Nat, m \in S PROVE m + 1 \in S
  <2>1. PICK f : Picks(s, P, f, m)
    BY <1>2
  <2> DEFINE g == [n \in 0 .. m + 1 |-> IF n <= m THEN f[n]
                      ELSE IF m + 1 \in P THEN Append(f[m], s[m + 1]) ELSE f[m]]
  <2>2. \A n \in 0 .. m : g[n] = f[n]
    OBVIOUS
  <2>3. ASSUME NEW n \in 0 .. m + 1
        PROVE  g[n] = IF n = 0 THEN <<>>
                      ELSE IF n \in P THEN Append(g[n - 1], s[n]) ELSE g[n - 1]
    <3>1. \A i \in 0 .. m : f[i] = IF i = 0 THEN <<>>
                        ELSE IF i \in P THEN Append(f[i - 1], s[i]) ELSE f[i - 1]
      BY <2>1 DEF Picks
    <3>2. CASE n = m + 1
      <4>1. n # 0 /\ n - 1 = m /\ g[m] = f[m]
        BY <3>2, <2>2
      <4> QED BY <4>1, <3>2
    <3>3. CASE n # m + 1
      <4>1. n \in 0 .. m /\ g[n] = f[n]
        BY <3>3, <2>2
      <4>2. n # 0 => n - 1 \in 0 .. m /\ g[n - 1] = f[n - 1]
        BY <4>1, <2>2
      <4> HIDE DEF g
      <4> QED BY <3>1, <4>1, <4>2
    <3> QED BY <3>2, <3>3
  <2>4. Picks(s, P, g, m + 1)
    <3>1. g = [n \in 0 .. m + 1 |-> g[n]]
      OBVIOUS
    <3> HIDE DEF g
    <3> QED BY <2>3, <3>1 DEF Picks
  <2> HIDE DEF g
  <2> QED BY <2>4
<1> QED BY <1>1, <1>2, Induction

(* t holds the elements of s at the places Q, in their order: e[j] is the  *)
(* place the j-th of them had.                                             *)
Embeds(t, s, Q, e) ==
  /\ e \in [1 .. Len(t) -> Q]
  /\ \A j \in 1 .. Len(t) : t[j] = s[e[j]]
  /\ \A j, k \in 1 .. Len(t) : j < k => e[j] < e[k]
  /\ \A i \in Q : \E j \in 1 .. Len(t) : e[j] = i

EmbedsFirst(t, S, s, P, n) == t \in Seq(S) /\ \E e : Embeds(t, s, P \cap (1 .. n), e)

LEMMA PickedElements ==
  ASSUME NEW S, NEW s \in Seq(S), NEW P \in SUBSET DOMAIN s
  PROVE  Picked(s, P) \in Seq(S) /\ \E e : Embeds(Picked(s, P), s, P, e)
<1>1. Len(s) \in Nat /\ DOMAIN s = 1 .. Len(s) /\ \A i \in 1 .. Len(s) : s[i] \in S
  BY LenProperties, ElementOfSeq
<1> DEFINE first[n \in 0 .. Len(s)] ==
        IF n = 0 THEN <<>>
        ELSE IF n \in P THEN Append(first[n - 1], s[n]) ELSE first[n - 1]
<1>2. Picked(s, P) = first[Len(s)]
  BY DEF Picked
<1>3. Picks(s, P, first, Len(s))
  <2>1. \E f : Picks(s, P, f, Len(s))
    BY <1>1, PicksExists
  <2>2. \E f : f = [n \in 0 .. Len(s) |-> IF n = 0 THEN <<>>
                        ELSE IF n \in P THEN Append(f[n - 1], s[n]) ELSE f[n - 1]]
    BY <2>1 DEF Picks
  <2> QED BY <2>2 DEF Picks
<1> HIDE DEF first
<1>4. \A n \in 0 .. Len(s) : first[n] = IF n = 0 THEN <<>>
                        ELSE IF n \in P THEN Append(first[n - 1], s[n]) ELSE first[n - 1]
  BY <1>3 DEF Picks
<1> DEFINE G == {n \in Nat : n <= Len(s) => EmbedsFirst(first[n], S, s, P, n)}
<1>5. 0 \in G
  <2>1. first[0] = <<>>
    BY <1>1, <1>4
  <2> DEFINE e == [j \in 1 .. 0 |-> 0]
  <2>2. <<>> \in Seq(S) /\ Len(<<>>) = 0
    BY EmptySeq
  <2>3. e \in [1 .. 0 -> P \cap (1 .. 0)]
    OBVIOUS
  <2> HIDE DEF e
  <2>4. Embeds(<<>>, s, P \cap (1 .. 0), e)
    BY <2>2, <2>3 DEF Embeds
  <2>5. EmbedsFirst(first[0], S, s, P, 0)
    BY <2>1, <2>2, <2>4 DEF EmbedsFirst
  <2> QED BY <2>5
<1>6. ASSUME NEW n \in Nat, n \in G PROVE n + 1 \in G
  <2> SUFFICES ASSUME n + 1 <= Len(s)
               PROVE  EmbedsFirst(first[n + 1], S, s, P, n + 1)
    OBVIOUS
  <2> DEFINE t == first[n]
  <2>0. EmbedsFirst(t, S, s, P, n)
    BY <1>1, <1>6
  <2>1. t \in Seq(S) /\ \E e : Embeds(t, s, P \cap (1 .. n), e)
    BY <2>0 DEF EmbedsFirst
  <2>2. PICK e : Embeds(t, s, P \cap (1 .. n), e)
    BY <2>1
  <2>3. first[n + 1] = IF n + 1 \in P THEN Append(t, s[n + 1]) ELSE t
    <3>1. n + 1 \in 0 .. Len(s) /\ n + 1 # 0 /\ (n + 1) - 1 = n
      BY <1>1
    <3> QED BY <1>4, <3>1
  <2> HIDE DEF t
  <2>4. Len(t) \in Nat
    BY <2>1, LenProperties
  <2>5. CASE n + 1 \notin P
    <3>1. P \cap (1 .. n + 1) = P \cap (1 .. n)
      BY <2>5
    <3> QED BY <2>1, <2>2, <2>3, <2>5, <3>1 DEF EmbedsFirst
  <2>6. CASE n + 1 \in P
    <3> DEFINE u == Append(t, s[n + 1])
               d == [j \in 1 .. Len(t) + 1 |-> IF j = Len(t) + 1 THEN n + 1 ELSE e[j]]
    <3>1. /\ u \in Seq(S)
          /\ Len(u) = Len(t) + 1
          /\ \A j \in 1 .. Len(t) : u[j] = t[j]
          /\ u[Len(t) + 1] = s[n + 1]
      <4>1. s[n + 1] \in S
        BY <1>1
      <4> QED BY <2>1, <4>1, AppendProperties
    <3>2. d[Len(t) + 1] = n + 1 /\ \A j \in 1 .. Len(t) : d[j] = e[j]
      BY <2>4
    <3>3. \A j \in 1 .. Len(t) : e[j] \in P /\ e[j] \in 1 .. n
      BY <2>2 DEF Embeds
    <3>4. d \in [1 .. Len(t) + 1 -> P \cap (1 .. n + 1)]
      BY <2>4, <2>6, <3>3
    <3> HIDE DEF u, d
    <3>5. \A j \in 1 .. Len(u) : u[j] = s[d[j]]
      BY <2>2, <2>4, <3>1, <3>2 DEF Embeds
    <3>6. ASSUME NEW j \in 1 .. Len(u), NEW k \in 1 .. Len(u), j < k PROVE d[j] < d[k]
      <4>1. j \in 1 .. Len(t) /\ d[j] = e[j] /\ e[j] \in 1 .. n
        BY <2>4, <3>1, <3>2, <3>3, <3>6
      <4>2. CASE k = Len(t) + 1
        BY <3>2, <4>1, <4>2
      <4>3. CASE k # Len(t) + 1
        <5>1. k \in 1 .. Len(t)
          BY <2>4, <3>1, <4>3
        <5> QED BY <2>2, <3>2, <3>6, <4>1, <5>1 DEF Embeds
      <4> QED BY <4>2, <4>3
    <3>7. ASSUME NEW i \in P \cap (1 .. n + 1) PROVE \E j \in 1 .. Len(u) : d[j] = i
      <4>1. CASE i = n + 1
        BY <2>4, <3>1, <3>2, <4>1
      <4>2. CASE i # n + 1
        <5>1. i \in P \cap (1 .. n)
          BY <4>2
        <5>2. PICK j \in 1 .. Len(t) : e[j] = i
          BY <2>2, <5>1 DEF Embeds
        <5>3. j \in 1 .. Len(u) /\ d[j] = i
          BY <2>4, <3>1, <3>2, <5>2
        <5> QED BY <5>3
      <4> QED BY <4>1, <4>2
    <3>8. Embeds(u, s, P \cap (1 .. n + 1), d)
      BY <3>1, <3>4, <3>5, <3>6, <3>7 DEF Embeds
    <3>9. EmbedsFirst(u, S, s, P, n + 1)
      BY <3>1, <3>8 DEF EmbedsFirst
    <3> QED BY <2>3, <2>6, <3>9 DEF u
  <2> QED BY <2>5, <2>6
<1>7. Len(s) \in G
  <2> HIDE DEF G
  <2> QED BY <1>1, <1>5, <1>6, Induction
<1>8. EmbedsFirst(first[Len(s)], S, s, P, Len(s))
  BY <1>1, <1>7
<1>9. P \cap (1 .. Len(s)) = P
  BY <1>1
<1> QED BY <1>2, <1>8, <1>9 DEF EmbedsFirst

LEMMA PickedOnce ==
  ASSUME NEW S, NEW s \in Seq(S), NEW P \in SUBSET DOMAIN s,
         \A j, k \in 1 .. Len(s) : s[j] = s[k] => j = k
  PROVE  LET t == Picked(s, P) IN
         /\ t \in Seq(S)
         /\ \A j, k \in 1 .. Len(t) : t[j] = t[k] => j = k
         /\ \A j \in 1 .. Len(t) : \E i \in P : i \in 1 .. Len(s) /\ t[j] = s[i]
<1> DEFINE t == Picked(s, P)
<1>1. Len(s) \in Nat /\ DOMAIN s = 1 .. Len(s)
  BY LenProperties
<1>2. t \in Seq(S) /\ \E e : Embeds(t, s, P, e)
  BY PickedElements
<1>3. PICK e : Embeds(t, s, P, e)
  BY <1>2
<1> HIDE DEF t
<1>4. Len(t) \in Nat
  BY <1>2, LenProperties
<1>5. \A j \in 1 .. Len(t) : e[j] \in P /\ e[j] \in 1 .. Len(s) /\ t[j] = s[e[j]]
  BY <1>1, <1>3 DEF Embeds
<1>6. ASSUME NEW j \in 1 .. Len(t), NEW k \in 1 .. Len(t), t[j] = t[k] PROVE j = k
  <2>1. e[j] = e[k]
    BY <1>5, <1>6
  <2>2. ~(j < k) /\ ~(k < j)
    BY <1>3, <1>5, <2>1 DEF Embeds
  <2> QED BY <1>4, <2>2
<1> QED BY <1>2, <1>5, <1>6 DEF t

-----------------------------------------------------------------------------
(***************************************************************************)
(* Descriptors, sockets and the ready list.                                *)
(***************************************************************************)
Once(s) == \A i, j \in 1 .. Len(s) : s[i] = s[j] => i = j

Shapes == /\ DOMAIN loop = {"pc", "batch", "prev", "current"}
          /\ DOMAIN mgr = {"pc", "fd", "at", "msg"}
          /\ DOMAIN wire = Conns

Sockets == /\ fds \in [Fds -> Conns \cup {Closed}]
           /\ peer \in [Conns -> {"new", "up", "fin", "rst", "finrst"}]
           /\ \A f, g \in Fds : fds[f] = fds[g] /\ fds[f] \in Conns => f = g
           /\ \A f \in Fds : fds[f] \in Conns => peer[fds[f]] # "new"
           /\ watched \subseteq Conns /\ \A c \in watched : Registered(c)

(* Connections that wait to be accepted.                                   *)
Waits(c) == \E i \in 1 .. Len(backlog) : backlog[i] = c
Backlog == /\ backlog \in Seq(Conns) /\ Once(backlog)
           /\ \A c \in Conns : Waits(c) => peer[c] # "new" /\ ~Registered(c)

ReadyOnce == ready \in Seq(Conns \cup {Listener}) /\ Once(ready)

(* The connection that is being accepted.                                  *)
Accepting == /\ mgr.pc \in {"register", "insert"} => mgr.fd \in Fds
             /\ mgr.pc = "register" => fds[mgr.fd] \notin watched

NetInv == Shapes /\ Sockets /\ Backlog /\ ReadyOnce /\ Accepting

LEMMA Names == Closed \notin Conns /\ Fds \subseteq Nat /\ 0 \notin Fds /\ Null \notin Nodes
BY SocketsAssumption, SharedListAssumption

LEMMA LowestIn == ASSUME Available # {} PROVE Lowest \in Fds /\ fds[Lowest] = Closed
<1>1. Available \in SUBSET Nat
  BY Names DEF Available
<1>2. \E f \in Available : \A g \in Available : f <= g
  BY <1>1, Minimum
<1>3. Lowest \in Available
  BY <1>2 DEF Lowest
<1> QED BY <1>3 DEF Available

LEMMA OnceAppend ==
  ASSUME NEW S, NEW s \in Seq(S), NEW x \in S, Once(s), \A i \in 1 .. Len(s) : s[i] # x
  PROVE  Append(s, x) \in Seq(S) /\ Once(Append(s, x))
<1>1. /\ Append(s, x) \in Seq(S) /\ Len(Append(s, x)) = Len(s) + 1 /\ Len(s) \in Nat
      /\ \A i \in 1 .. Len(s) : Append(s, x)[i] = s[i]
  BY AppendProperties
<1>2. Append(s, x)[Len(s) + 1] = x
  BY AppendProperties
<1>3. \A i \in 1 .. Len(s) + 1 : i \in 1 .. Len(s) \/ i = Len(s) + 1
  BY <1>1
<1> QED BY <1>1, <1>2, <1>3 DEF Once

LEMMA OnceTail ==
  ASSUME NEW S, NEW s \in Seq(S), s # <<>>, Once(s)
  PROVE  /\ Tail(s) \in Seq(S) /\ Once(Tail(s)) /\ Head(s) = s[1] /\ s[1] \in S
         /\ Len(s) \in Nat /\ Len(s) >= 1 /\ Len(Tail(s)) = Len(s) - 1
         /\ \A i \in 1 .. Len(s) - 1 : Tail(s)[i] = s[i + 1] /\ i + 1 \in 1 .. Len(s)
         /\ \A i \in 1 .. Len(s) - 1 : s[i + 1] # s[1]
<1>1. /\ Tail(s) \in Seq(S) /\ Head(s) = s[1] /\ s[1] \in S
      /\ Len(s) \in Nat /\ Len(s) >= 1 /\ Len(Tail(s)) = Len(s) - 1
      /\ \A i \in 1 .. Len(s) - 1 : Tail(s)[i] = s[i + 1]
  OBVIOUS
<1>2. \A i \in 1 .. Len(s) - 1 : i + 1 \in 1 .. Len(s) /\ 1 \in 1 .. Len(s) /\ i + 1 # 1
  BY <1>1
<1>3. \A i, j \in 1 .. Len(s) - 1 : s[i + 1] = s[j + 1] => i = j
  BY <1>1, <1>2 DEF Once
<1> QED BY <1>1, <1>2, <1>3 DEF Once

LEMMA NotifiedOnce ==
  ASSUME ReadyOnce, NEW x \in Conns \cup {Listener}, ready' = ready \/ ready' = Notified(x)
  PROVE  ReadyOnce'
<1>1. CASE ready' = ready
  BY <1>1 DEF ReadyOnce, Once
<1>2. CASE ready' = Append(ready, x) /\ ~Contains(ready, x)
  BY <1>2, OnceAppend DEF ReadyOnce, Contains
<1> QED BY <1>1, <1>2 DEF Notified

LEMMA CloseOnce ==
  ASSUME ReadyOnce, NEW f, CloseFd(f)
  PROVE  ReadyOnce'
<1> DEFINE S == Conns \cup {Listener}
           P == {k \in DOMAIN ready : ready[k] # fds[f]}
<1>1. CASE fds[f] \in Conns
  <2>1. ready' = Picked(ready, P)
    BY <1>1 DEF CloseFd, Without
  <2>2. P \in SUBSET DOMAIN ready
    OBVIOUS
  <2> HIDE DEF P
  <2>3. ready' \in Seq(S) /\ Once(ready')
    BY <2>1, <2>2, PickedOnce DEF ReadyOnce, Once
  <2> QED BY <2>3 DEF ReadyOnce
<1>2. CASE fds[f] \notin Conns
  BY <1>2 DEF CloseFd, ReadyOnce, Once
<1> QED BY <1>1, <1>2

(* Steps that touch neither descriptors nor sockets.                       *)
QuietNet == /\ UNCHANGED <<peer, backlog, fds, ready, watched>> /\ DOMAIN wire' = DOMAIN wire
            /\ DOMAIN loop' = DOMAIN loop /\ DOMAIN mgr' = DOMAIN mgr
            /\ mgr'.pc \in {"register", "insert"} => mgr' = mgr

LEMMA QuietKept == ASSUME NetInv, QuietNet PROVE NetInv'
<1>1. \A c : Registered(c)' <=> Registered(c)
  BY DEF QuietNet, Registered
<1>2. \A c : Waits(c)' <=> Waits(c)
  BY DEF QuietNet, Waits
<1>3. Shapes' /\ Sockets' /\ ReadyOnce' /\ Accepting'
  BY <1>1 DEF NetInv, QuietNet, Shapes, Sockets, ReadyOnce, Once, Accepting
<1>4. Backlog'
  BY <1>1, <1>2 DEF NetInv, QuietNet, Backlog, Once
<1> QED BY <1>3, <1>4 DEF NetInv

LEMMA LoopQuiet ==
  ASSUME NetInv, AcceptEvent \/ RecvEvent \/ EndEvent \/ Search \/ Unlink \/ FreeNode
  PROVE  QuietNet
<1>1. CASE AcceptEvent \/ RecvEvent \/ EndEvent
  BY <1>1 DEF AcceptEvent, RecvEvent, EndEvent, NextEvent, Done, sockVars, QuietNet
<1>2. CASE Search \/ Unlink \/ FreeNode
  BY <1>2 DEF Search, Unlink, FreeNode, sockVars, QuietNet
<1> QED BY <1>1, <1>2

LEMMA ManagerQuiet ==
  ASSUME NetInv, TakeNewClient \/ Insert \/ Publish \/ TakeBroadcast \/ Walk \/ WalkEnds
  PROVE  QuietNet
<1> USE DEF NetInv, Shapes, QuietNet, sockVars
<1>1. CASE TakeNewClient \/ Publish \/ TakeBroadcast \/ WalkEnds
  BY <1>1 DEF TakeNewClient, Publish, TakeBroadcast, WalkEnds
<1>2. CASE Insert
  BY <1>2 DEF Insert
<1>3. CASE Walk
  BY <1>3 DEF Walk, Send
<1> QED BY <1>1, <1>2, <1>3

(* A descriptor is closed, whichever.                                      *)
LEMMA ClosedKept ==
  ASSUME NetInv, NEW f, CloseFd(f), UNCHANGED <<peer, backlog, wire>>, watched' = watched \ {fds[f]},
         DOMAIN loop' = DOMAIN loop, DOMAIN mgr' = DOMAIN mgr,
         mgr'.pc \in {"register", "insert"} => mgr' = mgr
  PROVE  NetInv'
<1>1. fds' \in [Fds -> Conns \cup {Closed}] /\ \A g \in Fds : fds'[g] = IF g = f THEN Closed ELSE fds[g]
  BY DEF NetInv, Sockets, CloseFd
<1>2. \A c \in Conns : Registered(c)' => Registered(c)
  BY <1>1, Names DEF Registered
<1>3. ASSUME NEW c \in watched' PROVE Registered(c)'
  <2>1. PICK g \in Fds : fds[g] = c
    BY <1>3 DEF NetInv, Sockets, Registered
  <2>2. g # f
    BY <1>3, <2>1
  <2> QED BY <1>1, <2>1, <2>2 DEF Registered
<1>4. Sockets'
  BY <1>1, <1>3, Names DEF NetInv, Sockets
<1>5. \A c : Waits(c)' <=> Waits(c)
  BY DEF Waits
<1>6. Backlog'
  BY <1>2, <1>5 DEF NetInv, Backlog, Once
<1>7. Accepting'
  <2>1. ASSUME mgr'.pc = "register" PROVE fds'[mgr'.fd] \notin watched'
    <3>1. mgr' = mgr /\ mgr.fd \in Fds /\ fds[mgr.fd] \notin watched
      BY <2>1 DEF NetInv, Accepting
    <3> QED BY <1>1, <3>1, Names DEF NetInv, Sockets
  <2> QED BY <2>1 DEF NetInv, Accepting
<1>8. Shapes' /\ ReadyOnce'
  BY CloseOnce DEF NetInv, Shapes
<1> QED BY <1>4, <1>6, <1>7, <1>8 DEF NetInv

LEMMA AcceptKept == ASSUME NetInv, Accept PROVE NetInv'
<1>1. CASE mgr' = [mgr EXCEPT !.pc = "pop"] /\ UNCHANGED <<backlog, fds, wire>>
  BY <1>1, QuietKept DEF Accept, QuietNet, NetInv, Shapes
<1>2. CASE /\ backlog # <<>> /\ Available # {}
           /\ backlog' = Tail(backlog)
           /\ fds' = [fds EXCEPT ![Lowest] = Head(backlog)]
           /\ wire' = [wire EXCEPT ![Head(backlog)] = "open"]
           /\ mgr' = [mgr EXCEPT !.pc = "register", !.fd = Lowest]
  <2> PICK f : f = Lowest
    OBVIOUS
  <2> PICK c : c = Head(backlog)
    OBVIOUS
  <2>0. UNCHANGED <<peer, ready, watched, loop>>
    BY DEF Accept
  <2>1. f \in Fds /\ fds[f] = Closed
    BY <1>2, LowestIn
  <2>2. /\ c \in Conns /\ Waits(c) /\ backlog' \in Seq(Conns) /\ Once(backlog')
        /\ \A x : Waits(x)' => Waits(x) /\ x # c
    <3>1. /\ Tail(backlog) \in Seq(Conns) /\ Once(Tail(backlog)) /\ Head(backlog) = backlog[1] /\ backlog[1] \in Conns
          /\ Len(backlog) \in Nat /\ Len(backlog) >= 1 /\ Len(Tail(backlog)) = Len(backlog) - 1
          /\ \A i \in 1 .. Len(backlog) - 1 : Tail(backlog)[i] = backlog[i + 1] /\ i + 1 \in 1 .. Len(backlog)
          /\ \A i \in 1 .. Len(backlog) - 1 : backlog[i + 1] # backlog[1]
      BY <1>2, OnceTail DEF NetInv, Backlog
    <3>2. backlog' = Tail(backlog)
      BY <1>2
    <3> QED BY <3>1, <3>2 DEF Waits, Once
  <2>3. fds' \in [Fds -> Conns \cup {Closed}] /\ \A g \in Fds : fds'[g] = IF g = f THEN c ELSE fds[g]
    BY <1>2, <2>1, <2>2 DEF NetInv, Sockets
  <2>4. ~Registered(c) /\ peer[c] # "new"
    BY <2>2 DEF NetInv, Backlog
  <2>5. \A x \in Conns : Registered(x)' <=> Registered(x) \/ x = c
    BY <2>1, <2>3, Names DEF Registered
  <2>6. Sockets'
    <3>1. \A g, h \in Fds : fds'[g] = fds'[h] /\ fds'[g] \in Conns => g = h
      BY <2>3, <2>4 DEF NetInv, Sockets, Registered
    <3>2. \A g \in Fds : fds'[g] \in Conns => peer'[fds'[g]] # "new"
      BY <2>0, <2>3, <2>4 DEF NetInv, Sockets
    <3> QED BY <2>0, <2>3, <2>5, <3>1, <3>2 DEF NetInv, Sockets
  <2>7. Backlog'
    BY <2>0, <2>2, <2>5 DEF NetInv, Backlog
  <2>8. Accepting' /\ Shapes'
    <3>1. mgr'.fd = f /\ mgr'.pc = "register" /\ DOMAIN mgr' = DOMAIN mgr
      BY <1>2 DEF NetInv, Shapes
    <3>2. c \notin watched'
      BY <2>0, <2>4 DEF NetInv, Sockets
    <3> QED BY <1>2, <2>0, <2>1, <2>2, <2>3, <3>1, <3>2 DEF NetInv, Accepting, Shapes
  <2>9. ReadyOnce'
    BY <2>0 DEF NetInv, ReadyOnce, Once
  <2> QED BY <2>6, <2>7, <2>8, <2>9 DEF NetInv
<1> QED BY <1>1, <1>2 DEF Accept

LEMMA RegisterKept == ASSUME NetInv, Register PROVE NetInv'
<1>0. mgr.fd \in Fds /\ fds[mgr.fd] \notin watched /\ mgr.pc = "register"
  BY DEF NetInv, Accepting, Register
<1>1. CASE /\ fds[mgr.fd] \notin Conns \/ CtlFails
           /\ CloseFd(mgr.fd)
           /\ mgr' = [mgr EXCEPT !.pc = "pop", !.fd = 0]
           /\ UNCHANGED watched
  <2>1. UNCHANGED <<peer, backlog, wire, loop>> /\ watched' = watched \ {fds[mgr.fd]}
    BY <1>0, <1>1 DEF Register
  <2>2. DOMAIN mgr' = DOMAIN mgr /\ mgr'.pc = "pop"
    BY <1>1 DEF NetInv, Shapes
  <2> QED BY <1>0, <1>1, <2>1, <2>2, ClosedKept
<1>2. CASE /\ fds[mgr.fd] \in Conns
           /\ watched' = watched \cup {fds[mgr.fd]}
           /\ ready' = IF CanRead(fds[mgr.fd]) THEN Notified(fds[mgr.fd]) ELSE ready
           /\ mgr' = [mgr EXCEPT !.pc = "insert"]
           /\ UNCHANGED fds
  <2>1. UNCHANGED <<peer, backlog, wire, loop>>
    BY DEF Register
  <2>2. mgr'.pc = "insert" /\ mgr'.fd = mgr.fd /\ DOMAIN mgr' = DOMAIN mgr
    BY <1>2 DEF NetInv, Shapes
  <2>3. ReadyOnce'
    BY <1>2, NotifiedOnce DEF NetInv
  <2>4. \A c : Registered(c)' <=> Registered(c)
    BY <1>2 DEF Registered
  <2>5. \A c : Waits(c)' <=> Waits(c)
    BY <2>1 DEF Waits
  <2>6. Sockets' /\ Accepting' /\ Shapes'
    BY <1>0, <1>2, <2>1, <2>2, <2>4 DEF NetInv, Sockets, Accepting, Shapes, Registered
  <2>7. Backlog'
    BY <2>1, <2>4, <2>5 DEF NetInv, Backlog, Once
  <2> QED BY <2>3, <2>6, <2>7 DEF NetInv
<1> QED BY <1>1, <1>2 DEF Register

LEMMA ClientsNetKept == ASSUME NetInv, Clients PROVE NetInv'
<1> PICK c \in Conns : Client(c)
  BY DEF Clients
<1>1. UNCHANGED <<fds, watched, loop, mgr, wire>>
  BY DEF Clients, Client, Connect, ClientSend, ClientLeave, Ended
<1>2. ReadyOnce'
  BY NotifiedOnce DEF NetInv, Client, Connect, ClientSend, ClientLeave, Ended, NotifiedOf
<1>3. /\ peer' \in [Conns -> {"new", "up", "fin", "rst", "finrst"}]
      /\ \A x \in Conns : peer[x] # "new" => peer'[x] # "new"
  BY DEF NetInv, Sockets, Client, Connect, ClientSend, ClientLeave, Ended
<1>4. \A x : Registered(x)' <=> Registered(x)
  BY <1>1 DEF Registered
<1>5. Sockets' /\ Accepting' /\ Shapes'
  BY <1>1, <1>3, <1>4 DEF NetInv, Sockets, Accepting, Shapes
<1>6. CASE Connect(c)
  <2>1. backlog' = Append(backlog, c) /\ peer' = [peer EXCEPT ![c] = "up"] /\ peer[c] = "new"
    BY <1>6 DEF Connect
  <2>2. ~Waits(c) /\ ~Registered(c)
    BY <2>1 DEF NetInv, Backlog, Sockets, Registered
  <2>3. backlog' \in Seq(Conns) /\ Once(backlog')
    BY <2>1, <2>2, OnceAppend DEF NetInv, Backlog, Waits
  <2>4. \A x : Waits(x)' => Waits(x) \/ x = c
    <3>1. /\ Len(backlog') = Len(backlog) + 1 /\ Len(backlog) \in Nat /\ backlog'[Len(backlog) + 1] = c
          /\ \A i \in 1 .. Len(backlog) : backlog'[i] = backlog[i]
      BY <2>1, AppendProperties DEF NetInv, Backlog
    <3>2. \A i \in 1 .. Len(backlog) + 1 : i \in 1 .. Len(backlog) \/ i = Len(backlog) + 1
      BY <3>1
    <3> QED BY <3>1, <3>2 DEF Waits
  <2>5. peer'[c] = "up"
    BY <2>1 DEF NetInv, Sockets
  <2>6. Backlog'
    BY <1>3, <1>4, <2>2, <2>3, <2>4, <2>5 DEF NetInv, Backlog
  <2> QED BY <1>2, <1>5, <2>6 DEF NetInv
<1>7. CASE UNCHANGED backlog
  <2>1. \A x : Waits(x)' <=> Waits(x)
    BY <1>7 DEF Waits
  <2>2. Backlog'
    BY <1>3, <1>4, <1>7, <2>1 DEF NetInv, Backlog, Once
  <2> QED BY <1>2, <1>5, <2>2 DEF NetInv
<1> QED BY <1>6, <1>7 DEF Client, ClientSend, ClientLeave, Ended

LEMMA NetKept == ASSUME NetInv, [ListNext]_listServerVars PROVE NetInv'
<1>1. CASE AcceptEvent \/ RecvEvent \/ EndEvent \/ Search \/ Unlink \/ FreeNode
  BY <1>1, LoopQuiet, QuietKept
<1>2. CASE TakeNewClient \/ Insert \/ Publish \/ TakeBroadcast \/ Walk \/ WalkEnds
  BY <1>2, ManagerQuiet, QuietKept
<1>3. CASE CanvasTask \/ Clock \/ UNCHANGED listServerVars
  BY <1>3, QuietKept DEF CanvasTask, Clock, listServerVars, sockVars, QuietNet
<1>4. CASE EpollWait
  <2>1. UNCHANGED <<peer, backlog, fds, wire, watched, mgr>> /\ ready' = <<>> /\ DOMAIN loop' = DOMAIN loop
    BY <1>4 DEF EpollWait
  <2>2. ReadyOnce'
    BY <2>1 DEF ReadyOnce, Once
  <2>3. \A c : (Registered(c)' <=> Registered(c)) /\ (Waits(c)' <=> Waits(c))
    BY <2>1 DEF Registered, Waits
  <2> QED BY <2>1, <2>2, <2>3 DEF NetInv, Shapes, Sockets, Backlog, Accepting, Once
<1>5. CASE CloseClient
  BY <1>5, ClosedKept DEF CloseClient
<1>6. CASE EpollDel
  <2>1. UNCHANGED <<peer, backlog, fds, wire, ready, mgr>> /\ watched' \subseteq watched /\ DOMAIN loop' = DOMAIN loop
    BY <1>6 DEF EpollDel, sockVars, NextEvent, Done
  <2>2. \A c : (Registered(c)' <=> Registered(c)) /\ (Waits(c)' <=> Waits(c))
    BY <2>1 DEF Registered, Waits
  <2> QED BY <2>1, <2>2 DEF NetInv, Shapes, Sockets, Backlog, Accepting, ReadyOnce, Once
<1>7. CASE Accept \/ Register \/ Clients
  BY <1>7, AcceptKept, RegisterKept, ClientsNetKept
<1> QED BY <1>1, <1>2, <1>3, <1>4, <1>5, <1>6, <1>7 DEF ListNext, EventLoop, Manager

-----------------------------------------------------------------------------
(***************************************************************************)
(* Addresses: what the threads point to are nodes, and malloc does not     *)
(* run out of them, as every node was allocated for a connection of its    *)
(* own.                                                                    *)
(***************************************************************************)
Accepted == {c \in Conns : peer[c] # "new" /\ ~Waits(c)}
Claimed == IF mgr.pc \in {"register", "insert"} THEN 1 ELSE 0
Enough == Cardinality(used) + Claimed <= Cardinality(Accepted)

Addresses == /\ used \subseteq Nodes /\ head \in Nodes \cup {Null}
             /\ node \in [Nodes -> [fd : Fds \cup {0}, next : Nodes \cup {Null}]]
             /\ loop.prev \in Nodes \cup {Null} /\ loop.current \in Nodes \cup {Null}
             /\ mgr.at \in Nodes \cup {Null}
             /\ mgr.pc = "publish" => mgr.at \in Nodes
             /\ loop.pc \in {"unlink", "close", "free"} => loop.current \in Nodes

Memory == Addresses /\ Enough

(* Connections are accepted for good.                                      *)
LEMMA AcceptedGrows ==
  ASSUME NetInv, [ListNext]_listServerVars
  PROVE  Accepted \subseteq Accepted'
<1>0. ASSUME UNCHANGED <<peer, backlog>> PROVE Accepted' = Accepted
  BY <1>0 DEF Accepted, Waits
<1>1. CASE AcceptEvent \/ RecvEvent \/ EndEvent \/ Search \/ Unlink \/ FreeNode
  BY <1>0, <1>1, LoopQuiet DEF QuietNet
<1>2. CASE TakeNewClient \/ Insert \/ Publish \/ TakeBroadcast \/ Walk \/ WalkEnds
  BY <1>0, <1>2, ManagerQuiet DEF QuietNet
<1>3. CASE EpollWait \/ CloseClient \/ EpollDel \/ Register \/ CanvasTask \/ Clock \/ UNCHANGED listServerVars
  BY <1>0, <1>3 DEF EpollWait, CloseClient, EpollDel, Register, CanvasTask, Clock, listServerVars, sockVars
<1>4. CASE Accept
  <2>1. peer' = peer /\ (backlog' = backlog \/ (backlog # <<>> /\ backlog' = Tail(backlog)))
    BY <1>4 DEF Accept
  <2>2. backlog # <<>> => \A i \in 1 .. Len(Tail(backlog)) : \E j \in 1 .. Len(backlog) : Tail(backlog)[i] = backlog[j]
    BY OnceTail DEF NetInv, Backlog
  <2>3. \A c : Waits(c)' => Waits(c)
    BY <2>1, <2>2 DEF Waits
  <2> QED BY <2>1, <2>3 DEF Accepted
<1>5. CASE Clients
  <2>1. PICK c \in Conns : Client(c)
    BY <1>5 DEF Clients
  <2>2. \A x \in Conns : peer[x] # "new" => peer'[x] # "new"
    BY <2>1 DEF NetInv, Sockets, Client, Connect, ClientSend, ClientLeave, Ended
  <2>3. CASE Connect(c)
    <3>1. backlog' = Append(backlog, c) /\ peer[c] = "new"
      BY <2>3 DEF Connect
    <3>2. /\ Len(backlog') = Len(backlog) + 1 /\ Len(backlog) \in Nat /\ backlog'[Len(backlog) + 1] = c
          /\ \A i \in 1 .. Len(backlog) : backlog'[i] = backlog[i]
      BY <3>1, AppendProperties DEF NetInv, Backlog
    <3>3. \A i \in 1 .. Len(backlog) + 1 : i \in 1 .. Len(backlog) \/ i = Len(backlog) + 1
      BY <3>2
    <3>4. \A x : Waits(x)' => Waits(x) \/ x = c
      BY <3>2, <3>3 DEF Waits
    <3> QED BY <2>2, <3>1, <3>4 DEF Accepted
  <2>4. CASE UNCHANGED backlog
    BY <2>2, <2>4 DEF Accepted, Waits
  <2> QED BY <2>1, <2>3, <2>4 DEF Client, ClientSend, ClientLeave, Ended
<1> QED BY <1>1, <1>2, <1>3, <1>4, <1>5 DEF ListNext, EventLoop, Manager

LEMMA FiniteSizes ==
  ASSUME Addresses
  PROVE  /\ IsFiniteSet(used) /\ Cardinality(used) \in Nat /\ Cardinality(used) <= Cardinality(Nodes)
         /\ used # Nodes => Cardinality(used) < Cardinality(Nodes)
         /\ used = Nodes => Cardinality(used) = Cardinality(Nodes)
         /\ IsFiniteSet(Accepted) /\ Cardinality(Accepted) \in Nat /\ Cardinality(Accepted) <= Cardinality(Conns)
         /\ Cardinality(Conns) <= Cardinality(Nodes) /\ Cardinality(Nodes) \in Nat /\ Cardinality(Conns) \in Nat
<1>1. IsFiniteSet(Nodes) /\ IsFiniteSet(Conns) /\ used \subseteq Nodes /\ Accepted \subseteq Conns
  BY SharedListAssumption DEF Addresses, Accepted
<1>2. IsFiniteSet(used) /\ Cardinality(used) <= Cardinality(Nodes)
  BY <1>1, FS_Subset
<1>3. IsFiniteSet(Accepted) /\ Cardinality(Accepted) <= Cardinality(Conns)
  BY <1>1, FS_Subset
<1>4. used # Nodes => Cardinality(used) # Cardinality(Nodes)
  BY <1>1, FS_Subset
<1>5. Cardinality(Nodes) \in Nat /\ Cardinality(Conns) \in Nat /\ Cardinality(used) \in Nat /\ Cardinality(Accepted) \in Nat
  BY <1>1, <1>2, <1>3, FS_CardinalityType
<1>6. Cardinality(Conns) <= Cardinality(Nodes)
  BY <1>5, SharedListAssumption
<1> QED BY <1>2, <1>3, <1>4, <1>5, <1>6

(* Where a node is inserted there is one that is free.                     *)
LEMMA MallocGives == ASSUME Memory, Insert, NEW n \in Malloc PROVE n \in Nodes \ used
<1>1. Claimed = 1
  BY DEF Claimed, Insert
<1>2. used # Nodes
  BY <1>1, FiniteSizes DEF Memory, Enough
<1>3. \E m : m \in Nodes \ used
  BY <1>2 DEF Memory, Addresses
<1>4. (CHOOSE m \in Nodes \ used : TRUE) \in Nodes \ used
  BY <1>3
<1> QED BY <1>4 DEF Malloc, Freed

LEMMA EnoughStep ==
  ASSUME Memory, Addresses', Accepted \subseteq Accepted', used' \subseteq used, Claimed' <= Claimed
  PROVE  Enough'
<1>1. Cardinality(used') <= Cardinality(used) /\ Cardinality(used') \in Nat
  BY FiniteSizes, FS_Subset, FS_CardinalityType DEF Memory
<1>2. IsFiniteSet(Accepted')
  <2>1. Accepted' \subseteq Conns
    BY DEF Accepted
  <2> QED BY <2>1, SharedListAssumption, FS_Subset
<1>3. Cardinality(Accepted) <= Cardinality(Accepted') /\ Cardinality(Accepted') \in Nat
  BY <1>2, FS_Subset, FS_CardinalityType
<1>4. Claimed \in Nat /\ Claimed' \in Nat
  BY DEF Claimed
<1> QED BY <1>1, <1>3, <1>4, FiniteSizes DEF Memory, Enough

LEMMA AddressesKept ==
  ASSUME NetInv, Memory, [ListNext]_listServerVars
  PROVE  Addresses'
<1> USE DEF Memory, Addresses, NetInv, Shapes, listVars
<1>1. CASE EpollWait \/ AcceptEvent \/ RecvEvent \/ EpollDel
  BY <1>1 DEF EpollWait, AcceptEvent, RecvEvent, EpollDel, NextEvent, Done
<1>2. CASE EndEvent \/ Search
  BY <1>2 DEF EndEvent, Search, Found
<1>3. CASE Unlink
  <2>1. loop.current \in Nodes /\ node[loop.current].next \in Nodes \cup {Null}
    BY <1>3 DEF Unlink
  <2>2. CASE loop.prev = Null
    BY <1>3, <2>1, <2>2 DEF Unlink
  <2>3. CASE loop.prev # Null
    BY <1>3, <2>1, <2>3 DEF Unlink
  <2> QED BY <2>2, <2>3
<1>4. CASE CloseClient \/ FreeNode
  BY <1>4 DEF CloseClient, FreeNode
<1>5. CASE TakeNewClient \/ Accept \/ Register
  BY <1>5 DEF TakeNewClient, Accept, Register
<1>6. CASE Insert
  <2>1. PICK n \in Malloc : /\ used' = used \cup {n}
                            /\ node' = [node EXCEPT ![n] = [fd |-> mgr.fd, next |-> head]]
                            /\ mgr' = [mgr EXCEPT !.pc = "publish", !.at = n]
    BY <1>6 DEF Insert
  <2>2. n \in Nodes
    BY <1>6, MallocGives
  <2>3. mgr.fd \in Fds
    BY <1>6 DEF Insert, Accepting
  <2> QED BY <1>6, <2>1, <2>2, <2>3 DEF Insert
<1>7. CASE Publish \/ TakeBroadcast \/ WalkEnds
  BY <1>7 DEF Publish, TakeBroadcast, WalkEnds
<1>8. CASE Walk
  BY <1>8 DEF Walk, Send
<1>9. CASE CanvasTask \/ Clock \/ Clients \/ UNCHANGED listServerVars
  BY <1>9 DEF CanvasTask, Clock, Clients, listServerVars
<1> QED BY <1>1, <1>2, <1>3, <1>4, <1>5, <1>6, <1>7, <1>8, <1>9 DEF ListNext, EventLoop, Manager

LEMMA EnoughKept ==
  ASSUME NetInv, Memory, [ListNext]_listServerVars
  PROVE  Enough'
<1>1. Accepted \subseteq Accepted' /\ Addresses'
  BY AcceptedGrows, AddressesKept
<1>2. IsFiniteSet(Accepted') /\ Cardinality(Accepted') \in Nat
  <2>1. Accepted' \subseteq Conns
    BY DEF Accepted
  <2> QED BY <2>1, SharedListAssumption, FS_Subset, FS_CardinalityType
<1>3. Cardinality(used) \in Nat /\ Cardinality(Accepted) \in Nat /\ IsFiniteSet(used) /\ IsFiniteSet(Accepted)
  BY FiniteSizes DEF Memory
<1>4. CASE Accept
  <2>1. CASE mgr' = [mgr EXCEPT !.pc = "pop"]
    <3>1. used' = used /\ Claimed' <= Claimed
      BY <1>4, <2>1 DEF Accept, listVars, Claimed, NetInv, Shapes
    <3> QED BY <1>1, <3>1, EnoughStep
  <2>2. CASE backlog # <<>> /\ backlog' = Tail(backlog) /\ mgr' = [mgr EXCEPT !.pc = "register", !.fd = Lowest]
    <3>1. used' = used /\ Claimed = 0 /\ Claimed' = 1 /\ peer' = peer
      BY <1>4, <2>2 DEF Accept, listVars, Claimed, NetInv, Shapes
    <3> PICK c : c = backlog[1]
      OBVIOUS
    <3>2. /\ Len(backlog) >= 1 /\ Len(backlog') = Len(backlog) - 1 /\ c \in Conns /\ Len(backlog) \in Nat
          /\ \A i \in 1 .. Len(backlog) - 1 : backlog'[i] = backlog[i + 1] /\ backlog[i + 1] # c
      BY <2>2, OnceTail DEF NetInv, Backlog
    <3>3. Waits(c) /\ ~Waits(c)' /\ peer[c] # "new"
      BY <3>2 DEF Waits, NetInv, Backlog
    <3>4. c \in Accepted' /\ c \notin Accepted
      BY <3>1, <3>2, <3>3 DEF Accepted
    <3>5. Cardinality(Accepted \cup {c}) = Cardinality(Accepted) + 1 /\ Accepted \cup {c} \subseteq Accepted'
      BY <1>1, <1>3, <3>4, FS_AddElement
    <3>6. Cardinality(Accepted \cup {c}) <= Cardinality(Accepted')
      BY <1>2, <3>5, FS_Subset
    <3> QED BY <1>2, <1>3, <3>1, <3>5, <3>6 DEF Memory, Enough
  <2> QED BY <1>4, <2>1, <2>2 DEF Accept
<1>5. CASE Insert
  <2>1. PICK n \in Malloc : used' = used \cup {n} /\ mgr' = [mgr EXCEPT !.pc = "publish", !.at = n]
    BY <1>5 DEF Insert
  <2>2. n \notin used
    BY <1>5, MallocGives
  <2>3. Cardinality(used') = Cardinality(used) + 1
    BY <1>3, <2>1, <2>2, FS_AddElement
  <2>4. Claimed = 1 /\ Claimed' = 0
    BY <1>5, <2>1 DEF Insert, Claimed, NetInv, Shapes
  <2>5. Cardinality(Accepted) <= Cardinality(Accepted')
    BY <1>1, <1>2, FS_Subset
  <2> QED BY <1>2, <1>3, <2>3, <2>4, <2>5 DEF Memory, Enough
<1>6. CASE EventLoop
  <2>1. mgr' = mgr /\ used' \subseteq used
    BY <1>6 DEF EventLoop, EpollWait, AcceptEvent, RecvEvent, EndEvent, Search, Unlink, CloseClient,
       FreeNode, EpollDel, listVars
  <2>2. Claimed' <= Claimed
    BY <2>1 DEF Claimed
  <2> QED BY <1>1, <2>1, <2>2, EnoughStep
<1>7. CASE TakeNewClient \/ Register \/ Publish \/ TakeBroadcast \/ Walk \/ WalkEnds
  <2>1. used' = used
    BY <1>7 DEF TakeNewClient, Register, Publish, TakeBroadcast, Walk, WalkEnds, listVars
  <2>2. mgr'.pc \in {"register", "insert"} => mgr.pc \in {"register", "insert"}
    <3>1. CASE TakeNewClient \/ Publish \/ TakeBroadcast \/ WalkEnds
      BY <3>1 DEF TakeNewClient, Publish, TakeBroadcast, WalkEnds, NetInv, Shapes
    <3>2. CASE Register
      BY <3>2 DEF Register
    <3>3. CASE Walk
      BY <3>3 DEF Walk, Send, NetInv, Shapes
    <3> QED BY <1>7, <3>1, <3>2, <3>3
  <2>3. Claimed' <= Claimed
    BY <2>2 DEF Claimed
  <2> QED BY <1>1, <2>1, <2>3, EnoughStep
<1>8. CASE CanvasTask \/ Clock \/ Clients \/ UNCHANGED listServerVars
  <2>1. UNCHANGED <<used, mgr>>
    BY <1>8 DEF CanvasTask, Clock, Clients, listServerVars, listVars
  <2>2. Claimed' <= Claimed
    BY <2>1 DEF Claimed
  <2> QED BY <1>1, <2>1, <2>2, EnoughStep
<1> QED BY <1>4, <1>5, <1>6, <1>7, <1>8 DEF ListNext, Manager

LEMMA MemoryKept == ASSUME NetInv, Memory, [ListNext]_listServerVars PROVE Memory'
BY AddressesKept, EnoughKept DEF Memory

-----------------------------------------------------------------------------
(***************************************************************************)
(* The events epoll_wait returned: no two are of the same client.          *)
(***************************************************************************)
Events == [fd : Fds \cup {0}, in : BOOLEAN, hup : BOOLEAN]
EventFd(i) == loop.batch[i].fd

EventsOnce ==
  /\ loop.batch \in Seq(Events)
  /\ loop.pc # "wait" => loop.batch # <<>>
  /\ \A i, j \in 1 .. Len(loop.batch) : EventFd(i) = EventFd(j) /\ EventFd(i) # 0 => i = j
  /\ loop.pc \in {"search", "unlink", "close", "free", "del"} => fd # 0

(* What is registered with epoll, and has something to read or has ended.  *)
Sound(f) == fds[f] \in watched /\ CanRead(fds[f])

(* Events that are still to be handled are sound; the client that is being *)
(* removed is gone.                                                        *)
Handling == loop.pc \in {"event", "search", "unlink", "close"}
EventsSound ==
  /\ \A i \in 1 .. Len(loop.batch) : (i > 1 \/ Handling) /\ EventFd(i) # 0 => Sound(EventFd(i))
  /\ loop.pc \in {"search", "unlink", "close"} => fds[fd] \in Gone

LEMMA CurrentEvent ==
  ASSUME EventsOnce, loop.pc # "wait"
  PROVE  /\ Len(loop.batch) \in Nat /\ Len(loop.batch) >= 1 /\ fd = EventFd(1) /\ fd \in Fds \cup {0}
         /\ \A i \in 1 .. Len(loop.batch) : EventFd(i) \in Fds \cup {0} /\ (i > 1 /\ EventFd(i) # 0 => EventFd(i) # fd)
<1>1. loop.batch \in Seq(Events) /\ loop.batch # <<>>
  BY DEF EventsOnce
<1>2. Len(loop.batch) \in Nat /\ Len(loop.batch) >= 1 /\ Head(loop.batch) = loop.batch[1]
  BY <1>1
<1>3. \A i \in 1 .. Len(loop.batch) : loop.batch[i] \in Events
  BY <1>1, ElementOfSeq
<1>4. fd = EventFd(1)
  BY <1>2 DEF fd, EventFd
<1>5. \A i \in 1 .. Len(loop.batch) : EventFd(i) \in Fds \cup {0}
  BY <1>3 DEF Events, EventFd
<1> QED BY <1>2, <1>4, <1>5 DEF EventsOnce

LEMMA EventOf ==
  ASSUME NetInv, NEW s \in watched \cup {Listener}
  PROVE  /\ Event(s) \in Events
         /\ s = Listener => Event(s).fd = 0
         /\ s # Listener => Event(s).fd \in Fds /\ fds[Event(s).fd] = s
<1>1. CASE s = Listener
  BY <1>1 DEF Event, Events
<1>2. CASE s # Listener
  <2>1. \E f \in Fds : fds[f] = s
    BY <1>2 DEF NetInv, Sockets, Registered
  <2> DEFINE f == CHOOSE g \in Fds : fds[g] = s
  <2>2. f \in Fds /\ fds[f] = s
    BY <2>1
  <2>3. Event(s).fd = f
    BY <1>2 DEF Event
  <2>4. Event(s) = [fd |-> f, in |-> (s = Listener \/ CanRead(s)), hup |-> (s # Listener /\ Hup(s))]
    BY <1>2 DEF Event
  <2> HIDE DEF f
  <2>5. Event(s) \in Events
    BY <2>2, <2>4 DEF Events
  <2> QED BY <1>2, <2>2, <2>3, <2>5
<1> QED BY <1>1, <1>2

LEMMA WaitEvents ==
  ASSUME NetInv, EpollWait
  PROVE  EventsOnce' /\ EventsSound'
<1> DEFINE P == {k \in DOMAIN ready : Reportable(ready[k]) /\ ready[k] \in watched \cup {Listener}}
           S == Conns \cup {Listener}
<1>1. P \in SUBSET DOMAIN ready /\ Observed = Picked(ready, P)
  BY DEF Observed
<1>2. /\ Observed \in Seq(S)
      /\ Once(Observed)
      /\ \A j \in 1 .. Len(Observed) : \E i \in P : Observed[j] = ready[i]
  <2> HIDE DEF P
  <2> QED BY <1>1, PickedOnce DEF NetInv, ReadyOnce, Once
<1>3. \A j \in 1 .. Len(Observed) : Reportable(Observed[j]) /\ Observed[j] \in watched \cup {Listener}
  BY <1>2
<1> PICK seen : seen = Observed
  OBVIOUS
<1>4. Len(seen) \in Nat /\ DOMAIN seen = 1 .. Len(seen)
  BY <1>2, LenProperties
<1>5. \A j \in 1 .. Len(seen) : /\ Event(seen[j]) \in Events
                               /\ (seen[j] = Listener => Event(seen[j]).fd = 0)
                               /\ (seen[j] # Listener => Event(seen[j]).fd \in Fds /\ fds[Event(seen[j]).fd] = seen[j])
  BY <1>3, EventOf
<1>6. loop'.batch = [k \in 1 .. Len(seen) |-> Event(seen[k])]
  BY <1>4 DEF EpollWait, NetInv, Shapes
<1>7. loop'.batch \in Seq(Events) /\ Len(loop'.batch) = Len(seen)
  <2>1. loop'.batch \in [1 .. Len(seen) -> Events]
    BY <1>5, <1>6
  <2> QED BY <1>4, <2>1, SeqDef, LenProperties
<1>8. loop'.pc = IF seen = <<>> THEN "wait" ELSE "event"
  BY DEF EpollWait, NetInv, Shapes
<1>9. UNCHANGED <<fds, watched, peer, rx>>
  BY DEF EpollWait
<1>10. seen # <<>> => loop'.batch # <<>>
  BY <1>2, <1>4, <1>7
<1>11. \A j \in 1 .. Len(seen) : EventFd(j)' = Event(seen[j]).fd
  BY <1>6 DEF EventFd
<1>12. \A i, j \in 1 .. Len(seen) : EventFd(i)' = EventFd(j)' /\ EventFd(i)' # 0 => i = j
  BY <1>2, <1>5, <1>11 DEF Once
<1>13. EventsOnce'
  BY <1>7, <1>8, <1>10, <1>12 DEF EventsOnce
<1>14. ASSUME NEW j \in 1 .. Len(seen), EventFd(j)' # 0 PROVE Sound(EventFd(j))'
  <2> PICK f : f = EventFd(j)'
    OBVIOUS
  <2>1. seen[j] # Listener
    BY <1>5, <1>11, <1>14
  <2>2. fds[f] = seen[j] /\ fds[f] \in watched /\ CanRead(fds[f])
    BY <1>3, <1>5, <1>11, <2>1 DEF Reportable
  <2>3. Sound(f)'
    BY <1>9, <2>2 DEF Sound, CanRead
  <2> QED BY <2>3 DEF Sound, CanRead
<1> QED BY <1>7, <1>8, <1>13, <1>14 DEF EventsSound

(* The next event.                                                         *)
LEMMA NextEvents ==
  ASSUME NetInv, EventsOnce, loop.pc # "wait", loop' = NextEvent
  PROVE  /\ EventsOnce' /\ loop'.pc \in {"wait", "event"}
         /\ \A i \in 1 .. Len(loop.batch)' : /\ EventFd(i)' = EventFd(i + 1)
                                            /\ i + 1 \in 1 .. Len(loop.batch) /\ i + 1 > 1
<1> PICK b : b = loop.batch
  OBVIOUS
<1>1. b \in Seq(Events) /\ b # <<>>
  BY DEF EventsOnce
<1>2. /\ loop'.batch = Tail(b) /\ loop'.pc = IF Len(b) = 1 THEN "wait" ELSE "event"
  BY DEF NextEvent, Done, NetInv, Shapes
<1>3. /\ Tail(b) \in Seq(Events) /\ Len(b) \in Nat /\ Len(b) >= 1 /\ Len(Tail(b)) = Len(b) - 1
      /\ \A i \in 1 .. Len(b) - 1 : Tail(b)[i] = b[i + 1]
  BY <1>1
<1>4. \A i \in 1 .. Len(b) - 1 : EventFd(i)' = EventFd(i + 1) /\ i + 1 \in 1 .. Len(b) /\ i + 1 > 1
  BY <1>2, <1>3 DEF EventFd
<1>5. Len(loop'.batch) = Len(b) - 1 /\ (Len(b) # 1 => loop'.batch # <<>>)
  <2>1. Len(Tail(b)) # 0 => Tail(b) # <<>>
    BY <1>3, EmptySeq
  <2> QED BY <1>2, <1>3, <2>1
<1>6. \A i, j \in 1 .. Len(b) - 1 : EventFd(i)' = EventFd(j)' /\ EventFd(i)' # 0 => i = j
  <2> TAKE i, j \in 1 .. Len(b) - 1
  <2>1. EventFd(i)' = EventFd(j)' /\ EventFd(i)' # 0 => i + 1 = j + 1
    BY <1>4 DEF EventsOnce
  <2> QED BY <1>3, <2>1
<1> QED BY <1>2, <1>3, <1>4, <1>5, <1>6 DEF EventsOnce

LEMMA OnceKept == ASSUME NetInv, EventsOnce, [ListNext]_listServerVars PROVE EventsOnce'
<1>1. CASE EpollWait
  BY <1>1, WaitEvents
<1>2. CASE AcceptEvent \/ RecvEvent \/ EpollDel
  <2>1. loop' = NextEvent /\ loop.pc # "wait"
    BY <1>2 DEF AcceptEvent, RecvEvent, EpollDel
  <2> QED BY <2>1, NextEvents
<1>3. CASE EndEvent \/ Search \/ Unlink \/ CloseClient \/ FreeNode
  <2>1. loop'.batch = loop.batch /\ loop.pc # "wait" /\ fd # 0
    BY <1>3 DEF EndEvent, Search, Unlink, CloseClient, FreeNode, NetInv, Shapes, EventsOnce
  <2> QED BY <2>1 DEF EventsOnce, EventFd, fd
<1>4. CASE UNCHANGED loop
  BY <1>4 DEF EventsOnce, EventFd, fd
<1>5. CASE Manager \/ CanvasTask \/ Clock \/ Clients \/ UNCHANGED listServerVars
  BY <1>4, <1>5 DEF Manager, TakeNewClient, Accept, Register, Insert, Publish, TakeBroadcast, Walk,
     WalkEnds, CanvasTask, Clock, Clients, listServerVars
<1> QED BY <1>1, <1>2, <1>3, <1>5 DEF ListNext, EventLoop

-----------------------------------------------------------------------------
(***************************************************************************)
(* Clients that are gone: Few bounds their number, Away are those that the *)
(* server has closed.                                                      *)
(***************************************************************************)
Few == Cardinality(Gone) <= 2
Away == {c \in Gone \cap Accepted : ~Registered(c)}
TwoAway == \E c, x \in Away : c # x

LEMMA GoneGrows == ASSUME NetInv, [ListNext]_listServerVars PROVE Gone \subseteq Gone' /\ (Few' => Few)
<1>1. CASE UNCHANGED peer
  BY <1>1 DEF Gone, Few
<1>2. CASE Clients
  <2>1. PICK c \in Conns : Client(c)
    BY <1>2 DEF Clients
  <2>2. Gone \subseteq Gone'
    BY <2>1 DEF Gone, NetInv, Sockets, Client, Connect, ClientSend, ClientLeave, Ended
  <2>3. IsFiniteSet(Gone')
    <3>1. Gone' \subseteq Conns
      BY DEF Gone
    <3> QED BY <3>1, SharedListAssumption, FS_Subset
  <2>4. Cardinality(Gone) <= Cardinality(Gone') /\ Cardinality(Gone') \in Nat /\ Cardinality(Gone) \in Nat
    BY <2>2, <2>3, FS_Subset, FS_CardinalityType
  <2> QED BY <2>2, <2>4 DEF Few
<1>3. CASE EventLoop \/ CanvasTask \/ Clock \/ UNCHANGED listServerVars
  BY <1>1, <1>3 DEF EventLoop, EpollWait, AcceptEvent, RecvEvent, EndEvent, Search, Unlink, CloseClient,
     FreeNode, EpollDel, CanvasTask, Clock, listServerVars, sockVars
<1>4. CASE Manager
  BY <1>1, <1>4 DEF Manager, TakeNewClient, Accept, Register, Insert, Publish, TakeBroadcast, Walk, WalkEnds, sockVars
<1> QED BY <1>2, <1>3, <1>4 DEF ListNext

(* A client that the server closed is not accepted again.                  *)
LEMMA AwayGrows ==
  ASSUME NetInv, [ListNext]_listServerVars
  PROVE  Away \subseteq Away' /\ (TwoAway => TwoAway')
<1>1. ASSUME NEW c \in Conns, Registered(c)', ~Registered(c) PROVE Waits(c)
  <2>1. CASE fds' = fds
    BY <1>1, <2>1 DEF Registered
  <2>2. CASE \E f : CloseFd(f)
    <3>1. PICK g \in Fds : fds'[g] = c
      BY <1>1 DEF Registered
    <3>2. fds[g] = c
      BY <2>2, <3>1, Names DEF CloseFd, NetInv, Sockets
    <3> QED BY <1>1, <3>2 DEF Registered
  <2>3. CASE Accept /\ ~(fds' = fds)
    <3>1. backlog # <<>> /\ fds' = [fds EXCEPT ![Lowest] = Head(backlog)]
      BY <2>3 DEF Accept
    <3>2. PICK g \in Fds : fds'[g] = c
      BY <1>1 DEF Registered
    <3>3. c = Head(backlog)
      BY <1>1, <3>1, <3>2 DEF NetInv, Sockets, Registered
    <3> QED BY <3>1, <3>3, OnceTail DEF NetInv, Backlog, Waits
  <2>4. CASE EventLoop \/ CanvasTask \/ Clock \/ Clients \/ UNCHANGED listServerVars
    BY <2>1, <2>2, <2>4 DEF EventLoop, EpollWait, AcceptEvent, RecvEvent, EndEvent, Search, Unlink, CloseClient,
       FreeNode, EpollDel, CanvasTask, Clock, Clients, Client, Connect, ClientSend, ClientLeave, Ended,
       listServerVars, sockVars
  <2>5. CASE Manager
    BY <2>1, <2>2, <2>3, <2>5 DEF Manager, TakeNewClient, Register, Insert, Publish, TakeBroadcast, Walk, Send, WalkEnds, sockVars
  <2> QED BY <2>4, <2>5 DEF ListNext
<1>2. Away \subseteq Away'
  BY <1>1, GoneGrows, AcceptedGrows DEF Away, Accepted
<1> QED BY <1>2 DEF TwoAway

(* Of three connections at most two are gone.                              *)
LEMMA FewGone ==
  ASSUME Few, NEW c \in Gone, NEW x \in Gone, NEW y \in Gone, c # x, c # y, x # y
  PROVE  FALSE
<1>1. IsFiniteSet(Gone)
  <2>1. Gone \subseteq Conns
    BY DEF Gone
  <2> QED BY <2>1, SharedListAssumption, FS_Subset
<1> DEFINE S == {c}
           T == {c, x}
           U == {c, x, y}
<1>2. IsFiniteSet(S) /\ Cardinality(S) = 1
  BY FS_Singleton
<1>3. IsFiniteSet(T) /\ Cardinality(T) = 2
  <2>1. T = S \cup {x} /\ x \notin S
    OBVIOUS
  <2> HIDE DEF S, T
  <2> QED BY <1>2, <2>1, FS_AddElement
<1>4. Cardinality(U) = 3
  <2>1. U = T \cup {y} /\ y \notin T
    OBVIOUS
  <2> HIDE DEF T, U
  <2> QED BY <1>3, <2>1, FS_AddElement
<1>5. U \subseteq Gone
  OBVIOUS
<1> HIDE DEF U
<1>6. Cardinality(U) <= Cardinality(Gone) /\ Cardinality(Gone) \in Nat
  BY <1>1, <1>5, FS_Subset, FS_CardinalityType
<1> QED BY <1>4, <1>6 DEF Few

LEMMA OneAway ==
  ASSUME Few, NEW c \in Gone, Registered(c)
  PROVE  ~TwoAway
<1> SUFFICES ASSUME TwoAway PROVE FALSE
  OBVIOUS
<1>1. PICK x \in Away, y \in Away : x # y
  BY DEF TwoAway
<1>2. x \in Gone /\ y \in Gone /\ x # c /\ y # c
  BY DEF Away
<1> QED BY <1>1, <1>2, FewGone

-----------------------------------------------------------------------------
(***************************************************************************)
(* What was freed.  As long as only one client was closed by the server,   *)
(* no more than one node was freed, and only while the manager inserts a   *)
(* client with the number that the freed node holds can a client with that *)
(* number be watched.                                                      *)
(***************************************************************************)
Reused == \A n \in Freed : fds[node[n].fd] \in watched =>
            \/ mgr.pc = "insert" /\ mgr.fd = node[n].fd
            \/ loop.pc = "del" /\ fd = node[n].fd

FoundNode == loop.pc \in {"unlink", "close"} =>
               /\ node[loop.current].fd = fd
               /\ \/ loop.current \in used
                  \/ mgr.pc = "insert" /\ mgr.fd = fd /\ Freed = {loop.current}

Freeing == loop.pc = "free" => /\ Away # {} /\ Freed = {}
                               /\ loop.current \in used /\ node[loop.current].fd = fd

FreedOnce == /\ Freed # {} => Away # {}
             /\ \A n, m \in Freed : n = m
             /\ Reused /\ FoundNode /\ Freeing

Unread == DOMAIN rx = Conns /\ \A c \in Conns : \E S : rx[c] \in Seq(S)

Basic == NetInv /\ Memory /\ EventsOnce /\ Unread
Removal == Few => EventsSound /\ (~TwoAway => FreedOnce)

LEMMA UnreadKept == ASSUME Unread, [ListNext]_listServerVars PROVE Unread'
<1>1. CASE UNCHANGED rx
  BY <1>1 DEF Unread
<1>2. CASE RecvEvent
  <2> PICK c : c = fds[fd]
    OBVIOUS
  <2> DEFINE n == IF Len(rx[c]) < RecvUnits THEN Len(rx[c]) ELSE RecvUnits
  <2>1. c \in Conns /\ rx' = [rx EXCEPT ![c] = SubSeq(rx[c], n + 1, Len(rx[c]))]
    BY <1>2 DEF RecvEvent, RecvResult
  <2>2. PICK S : rx[c] \in Seq(S)
    BY <2>1 DEF Unread
  <2>3. Len(rx[c]) \in Nat /\ n + 1 \in 1 .. Len(rx[c]) + 1 /\ Len(rx[c]) \in (n + 1) - 1 .. Len(rx[c])
    BY <2>2, SharedListAssumption
  <2> HIDE DEF n
  <2>4. SubSeq(rx[c], n + 1, Len(rx[c])) \in Seq(S)
    BY <2>2, <2>3, SubSeqProperties
  <2> QED BY <2>1, <2>4 DEF Unread
<1>3. CASE Clients
  <2> PICK c \in Conns : Client(c)
    BY <1>3 DEF Clients
  <2>1. CASE ClientSend(c)
    <3> PICK chunk : rx' = [rx EXCEPT ![c] = Append(rx[c], chunk)]
      BY <2>1 DEF ClientSend
    <3>1. PICK S : rx[c] \in Seq(S)
      BY DEF Unread
    <3>2. rx[c] \in Seq(S \cup {chunk})
      BY <3>1
    <3>3. Append(rx[c], chunk) \in Seq(S \cup {chunk})
      BY <3>2, AppendProperties
    <3> QED BY <3>3 DEF Unread
  <2> QED BY <1>1, <2>1 DEF Client, Connect, ClientLeave, Ended
<1>4. CASE EventLoop /\ ~RecvEvent
  BY <1>1, <1>4 DEF EventLoop, EpollWait, AcceptEvent, EndEvent, Search, Unlink, CloseClient,
     FreeNode, EpollDel, sockVars
<1>5. CASE Manager \/ CanvasTask \/ Clock \/ UNCHANGED listServerVars
  BY <1>1, <1>5 DEF Manager, TakeNewClient, Accept, Register, Insert, Publish, TakeBroadcast, Walk, WalkEnds,
     CanvasTask, Clock, listServerVars, sockVars
<1> QED BY <1>2, <1>3, <1>4, <1>5 DEF ListNext

LEMMA RemovedClient ==
  ASSUME Basic, Few, Removal, loop.pc \in {"search", "unlink", "close"}
  PROVE  /\ fd \in Fds /\ fds[fd] \in Gone /\ fds[fd] \in watched /\ Registered(fds[fd])
         /\ ~TwoAway /\ FreedOnce
<1>1. EventsSound /\ fd # 0
  BY DEF Removal, Basic, EventsOnce
<1>2. /\ Len(loop.batch) \in Nat /\ Len(loop.batch) >= 1 /\ fd = EventFd(1) /\ fd \in Fds \cup {0}
  BY CurrentEvent DEF Basic
<1>3. Sound(fd) /\ fds[fd] \in Gone
  BY <1>1, <1>2 DEF EventsSound, Handling
<1>4. Registered(fds[fd])
  BY <1>1, <1>2 DEF Registered
<1> QED BY <1>1, <1>2, <1>3, <1>4, OneAway DEF Sound, Removal

(* removeClient closes the descriptor that the event was about.            *)
LEMMA CloseIs ==
  ASSUME Basic, Few, Removal, CloseClient
  PROVE  /\ node[loop.current].fd = fd /\ CloseFd(fd) /\ watched' = watched \ {fds[fd]}
         /\ fd \in Fds /\ fds[fd] \in Gone /\ fds[fd] \in watched /\ ~TwoAway /\ FreedOnce
<1>1. loop.pc = "close"
  BY DEF CloseClient
<1>2. fd \in Fds /\ fds[fd] \in Gone /\ fds[fd] \in watched /\ ~TwoAway /\ FreedOnce
  BY <1>1, RemovedClient
<1>3. node[loop.current].fd = fd
  BY <1>1, <1>2 DEF FreedOnce, FoundNode
<1> QED BY <1>2, <1>3 DEF CloseClient

(* A step that is not about descriptor f leaves it sound.                  *)
LEMMA SoundStep ==
  ASSUME Basic, Few, Removal, [ListNext]_listServerVars, NEW f \in Fds, Sound(f),
         RecvEvent \/ CloseClient \/ EpollDel => f # fd
  PROVE  Sound(f)' /\ fds'[f] = fds[f]
<1> PICK c : c = fds[f]
  OBVIOUS
<1>0. c \in watched /\ c \in Conns /\ CanRead(c) /\ c # Closed
  BY Names DEF Sound, Basic, NetInv, Sockets
<1>1. CASE UNCHANGED <<fds, watched, rx, peer>>
  BY <1>1 DEF Sound, CanRead
<1>2. CASE RecvEvent
  <2>1. UNCHANGED <<fds, watched, peer>> /\ f # fd /\ loop.pc = "event" /\ fd # 0 /\ fds[fd] \in Conns
    BY <1>2 DEF RecvEvent, RecvResult
  <2>2. fd \in Fds
    BY <2>1, CurrentEvent DEF Basic
  <2>3. c # fds[fd]
    BY <1>0, <2>1, <2>2 DEF Basic, NetInv, Sockets
  <2>4. rx'[c] = rx[c]
    BY <1>0, <1>2, <2>3 DEF RecvEvent, Basic, Unread
  <2> QED BY <1>0, <2>1, <2>4 DEF Sound, CanRead
<1>3. CASE CloseClient
  <2>1. CloseFd(fd) /\ watched' = watched \ {fds[fd]} /\ fd \in Fds /\ f # fd /\ UNCHANGED <<peer, rx>>
    BY <1>3, CloseIs DEF CloseClient
  <2>2. fds'[f] = c /\ c # fds[fd]
    BY <1>0, <2>1 DEF CloseFd, Basic, NetInv, Sockets
  <2> QED BY <1>0, <2>1, <2>2 DEF Sound, CanRead
<1>4. CASE EpollDel
  <2>1. watched' = watched \ {fds[fd]} /\ f # fd /\ UNCHANGED <<peer, rx, fds>> /\ loop.pc = "del"
    BY <1>4 DEF EpollDel, sockVars
  <2>2. fd \in Fds
    BY <2>1, CurrentEvent DEF Basic, EventsOnce
  <2>3. c # fds[fd]
    BY <1>0, <2>1, <2>2 DEF Basic, NetInv, Sockets
  <2> QED BY <1>0, <2>1, <2>3 DEF Sound, CanRead
<1>5. CASE Accept
  <2>1. UNCHANGED <<peer, rx, watched>>
    BY <1>5 DEF Accept
  <2>2. fds'[f] = c
    <3>1. CASE Available # {} /\ fds' = [fds EXCEPT ![Lowest] = Head(backlog)]
      <4>1. f # Lowest
        BY <1>0, <3>1, LowestIn
      <4> QED BY <3>1, <4>1 DEF Basic, NetInv, Sockets
    <3> QED BY <1>5, <3>1 DEF Accept
  <2> QED BY <1>0, <2>1, <2>2 DEF Sound, CanRead
<1>6. CASE Register
  <2>1. UNCHANGED <<peer, rx>> /\ watched \subseteq watched' /\ mgr.pc = "register"
    BY <1>6 DEF Register
  <2>2. fds'[f] = c
    <3>1. CASE CloseFd(mgr.fd)
      <4>1. f # mgr.fd
        BY <1>0, <2>1 DEF Basic, NetInv, Accepting
      <4> QED BY <3>1, <4>1 DEF CloseFd, Basic, NetInv, Sockets
    <3> QED BY <1>6, <3>1 DEF Register
  <2> QED BY <1>0, <2>1, <2>2 DEF Sound, CanRead
<1>7. CASE Clients
  <2> PICK x \in Conns : Client(x)
    BY <1>7 DEF Clients
  <2>1. UNCHANGED <<fds, watched>>
    BY <1>7 DEF Clients, Client, Connect, ClientSend, ClientLeave, Ended
  <2>2. peer[c] \in {"fin", "rst", "finrst"} => peer'[c] \in {"fin", "rst", "finrst"}
    BY <1>0 DEF Client, Connect, ClientSend, ClientLeave, Ended, Basic, NetInv, Sockets
  <2>3. rx[c] # <<>> => rx'[c] # <<>>
    <3>1. CASE ClientSend(x) /\ x = c
      <4>1. PICK S : rx[c] \in Seq(S)
        BY <1>0 DEF Basic, Unread
      <4> PICK chunk : rx' = [rx EXCEPT ![c] = Append(rx[c], chunk)]
        BY <3>1 DEF ClientSend
      <4>2. rx[c] \in Seq(S \cup {chunk})
        BY <4>1
      <4>3. Append(rx[c], chunk) # <<>>
        BY <4>2
      <4> QED BY <1>0, <4>3 DEF Basic, Unread
    <3>2. CASE ClientSend(x) /\ x # c
      BY <1>0, <3>2 DEF ClientSend, Basic, Unread
    <3> QED BY <3>1, <3>2 DEF Client, Connect, ClientLeave, Ended
  <2> QED BY <1>0, <2>1, <2>2, <2>3 DEF Sound, CanRead
<1>8. CASE EpollWait \/ AcceptEvent \/ EndEvent \/ Search \/ Unlink \/ FreeNode
  BY <1>1, <1>8 DEF EpollWait, AcceptEvent, EndEvent, Search, Unlink, FreeNode, sockVars
<1>9. CASE TakeNewClient \/ Insert \/ Publish \/ TakeBroadcast \/ Walk \/ WalkEnds
  BY <1>1, <1>9 DEF TakeNewClient, Insert, Publish, TakeBroadcast, Walk, Send, WalkEnds, sockVars
<1>10. CASE CanvasTask \/ Clock \/ UNCHANGED listServerVars
  BY <1>1, <1>10 DEF CanvasTask, Clock, listServerVars, sockVars
<1> QED BY <1>2, <1>3, <1>4, <1>5, <1>6, <1>7, <1>8, <1>9, <1>10 DEF ListNext, EventLoop, Manager

LEMMA SoundKept ==
  ASSUME Basic, Few, Removal, [ListNext]_listServerVars
  PROVE  EventsSound'
<1>1. CASE EpollWait
  BY <1>1, WaitEvents DEF Basic
<1>2. CASE AcceptEvent \/ RecvEvent \/ EpollDel
  <2>1. loop' = NextEvent /\ loop.pc # "wait"
    BY <1>2 DEF AcceptEvent, RecvEvent, EpollDel
  <2>2. loop'.pc \in {"wait", "event"}
    BY <2>1, NextEvents DEF Basic
  <2>3. ASSUME NEW i \in 1 .. Len(loop.batch)', EventFd(i)' # 0 PROVE Sound(EventFd(i))'
    <3> PICK f : f = EventFd(i + 1)
      OBVIOUS
    <3>1. EventFd(i)' = f /\ i + 1 \in 1 .. Len(loop.batch) /\ i + 1 > 1
      BY <2>1, NextEvents DEF Basic
    <3>2. f \in Fds /\ f # fd
      BY <2>1, <2>3, <3>1, CurrentEvent DEF Basic
    <3>3. Sound(f)
      BY <2>3, <3>1 DEF Removal, EventsSound
    <3>4. Sound(f)'
      BY <3>2, <3>3, SoundStep
    <3> QED BY <3>1, <3>4 DEF Sound, CanRead
  <2> QED BY <2>2, <2>3 DEF EventsSound
<1>3. ASSUME loop'.batch = loop.batch, loop.pc # "wait",
             Handling' => Handling /\ ~(CloseClient \/ RecvEvent \/ EpollDel),
             loop'.pc \in {"search", "unlink", "close"} => fds[fd] \in Gone /\ loop.pc # "wait"
      PROVE  EventsSound'
  <2>1. \A i : EventFd(i)' = EventFd(i)
    BY <1>3 DEF EventFd
  <2>2. /\ Len(loop.batch) \in Nat /\ Len(loop.batch) >= 1 /\ fd = EventFd(1)
        /\ \A i \in 1 .. Len(loop.batch) : EventFd(i) \in Fds \cup {0} /\ (i > 1 /\ EventFd(i) # 0 => EventFd(i) # fd)
    BY <1>3, CurrentEvent DEF Basic
  <2>3. ASSUME NEW i \in 1 .. Len(loop.batch), i > 1 \/ Handling', EventFd(i) # 0 PROVE Sound(EventFd(i))'
    <3> PICK f : f = EventFd(i)
      OBVIOUS
    <3>1. f \in Fds /\ Sound(f)
      BY <1>3, <2>2, <2>3 DEF Removal, EventsSound
    <3>2. RecvEvent \/ CloseClient \/ EpollDel => f # fd
      BY <1>3, <2>2, <2>3
    <3>3. Sound(f)'
      BY <3>1, <3>2, SoundStep
    <3> QED BY <2>1, <3>3 DEF Sound, CanRead
  <2>4. ASSUME loop'.pc \in {"search", "unlink", "close"} PROVE fds'[fd'] \in Gone'
    <3> PICK f : f = fd
      OBVIOUS
    <3>1. Handling' /\ fd' = f
      BY <1>3, <2>4 DEF Handling, fd
    <3>2. f # 0
      <4>1. loop'.pc \in {"search", "unlink", "close", "free", "del"} /\ EventsOnce'
        BY <2>4, OnceKept DEF Basic
      <4> QED BY <3>1, <4>1 DEF EventsOnce
    <3>3. f \in Fds /\ Sound(f)
      BY <1>3, <2>2, <3>1, <3>2 DEF Removal, EventsSound
    <3>4. fds'[f] = fds[f]
      BY <1>3, <3>1, <3>3, SoundStep
    <3>5. Gone \subseteq Gone'
      BY GoneGrows DEF Basic
    <3> QED BY <1>3, <2>4, <3>1, <3>4, <3>5
  <2> QED BY <1>3, <2>1, <2>3, <2>4 DEF EventsSound
<1>4. CASE EndEvent
  <2>1. loop.pc = "event" /\ fd # 0 /\ RecvResult(fd) # "data" /\ loop' = [loop EXCEPT !.pc = "search", !.current = head]
    BY <1>4 DEF EndEvent
  <2>2. fd \in Fds /\ Len(loop.batch) \in Nat /\ Len(loop.batch) >= 1 /\ fd = EventFd(1)
    BY <2>1, CurrentEvent DEF Basic
  <2>3. Sound(fd)
    BY <2>1, <2>2 DEF Removal, EventsSound, Handling
  <2>4. fds[fd] \in Gone
    <3>1. fds[fd] \in Conns /\ CanRead(fds[fd])
      BY <2>3 DEF Sound, Basic, NetInv, Sockets
    <3>2. rx[fds[fd]] = <<>>
      <4>1. peer[fds[fd]] # "new"
        BY <2>2, <3>1 DEF Basic, NetInv, Sockets
      <4> QED BY <2>1, <3>1, <4>1 DEF RecvResult
    <3> QED BY <3>1, <3>2 DEF CanRead, Gone
  <2>5. ~(CloseClient \/ RecvEvent \/ EpollDel) /\ loop'.batch = loop.batch /\ Handling
    BY <2>1 DEF CloseClient, RecvEvent, EpollDel, Handling, Basic, NetInv, Shapes
  <2> QED BY <1>3, <2>1, <2>4, <2>5
<1>5. CASE Search \/ Unlink
  <2>1. loop'.batch = loop.batch /\ loop.pc \in {"search", "unlink"} /\ Handling
    BY <1>5 DEF Search, Unlink, Handling, Basic, NetInv, Shapes
  <2>2. ~(CloseClient \/ RecvEvent \/ EpollDel) /\ fds[fd] \in Gone
    BY <2>1, RemovedClient DEF CloseClient, RecvEvent, EpollDel
  <2> QED BY <1>3, <2>1, <2>2
<1>6. CASE CloseClient \/ FreeNode
  <2>1. loop'.batch = loop.batch /\ loop.pc # "wait" /\ loop'.pc \in {"free", "del"}
    BY <1>6 DEF CloseClient, FreeNode, Basic, NetInv, Shapes
  <2> QED BY <1>3, <2>1 DEF Handling
<1>7. ASSUME UNCHANGED loop, ~(CloseClient \/ RecvEvent \/ EpollDel) PROVE EventsSound'
  <2>1. CASE loop.pc # "wait"
    <3>1. loop'.pc \in {"search", "unlink", "close"} => fds[fd] \in Gone
      BY <1>7, RemovedClient
    <3> QED BY <1>3, <1>7, <2>1, <3>1 DEF Handling
  <2>2. CASE loop.pc = "wait"
    <3>1. ASSUME NEW i \in 1 .. Len(loop.batch), i > 1, EventFd(i) # 0 PROVE Sound(EventFd(i))'
      <4> PICK f : f = EventFd(i)
        OBVIOUS
      <4>1. loop.batch[i] \in Events
        BY ElementOfSeq DEF Basic, EventsOnce
      <4>2. f \in Fds /\ Sound(f)
        BY <3>1, <4>1 DEF Events, EventFd, Removal, EventsSound
      <4>3. Sound(f)'
        BY <1>7, <4>2, SoundStep
      <4>4. EventFd(i)' = f
        BY <1>7 DEF EventFd
      <4> QED BY <4>3, <4>4 DEF Sound, CanRead
    <3> QED BY <1>7, <2>2, <3>1 DEF EventsSound, Handling, EventFd
  <2> QED BY <2>1, <2>2
<1>8. CASE Manager \/ CanvasTask \/ Clock \/ Clients \/ UNCHANGED listServerVars
  <2>1. UNCHANGED loop
    BY <1>8 DEF Manager, TakeNewClient, Accept, Register, Insert, Publish, TakeBroadcast, Walk,
       WalkEnds, CanvasTask, Clock, Clients, listServerVars
  <2>2. ~(RecvEvent \/ EpollDel)
    <3> SUFFICES ASSUME loop' = NextEvent, loop.pc # "wait" PROVE FALSE
      BY DEF RecvEvent, EpollDel
    <3>1. Len(loop.batch) \in Nat /\ Len(loop.batch) >= 1
      BY CurrentEvent DEF Basic
    <3>2. \A i \in 1 .. Len(loop.batch) : i + 1 \in 1 .. Len(loop.batch)
      BY <2>1, NextEvents DEF Basic
    <3> QED BY <3>1, <3>2
  <2>3. ~CloseClient
    BY <2>1 DEF CloseClient, Basic, NetInv, Shapes
  <2> QED BY <1>7, <2>1, <2>2, <2>3
<1> QED BY <1>1, <1>2, <1>4, <1>5, <1>6, <1>8 DEF ListNext, EventLoop

LEMMA SameFreed ==
  ASSUME UNCHANGED used, \A n \in Nodes : node'[n].fd = node[n].fd
  PROVE  Freed' = Freed
BY DEF Freed

LEMMA FoundIsUsed ==
  ASSUME Basic, Few, Removal, Search, loop.current # Null, Found
  PROVE  /\ node[loop.current].fd = fd
         /\ \/ loop.current \in used
            \/ mgr.pc = "insert" /\ mgr.fd = fd /\ Freed = {loop.current}
<1>1. loop.pc = "search"
  BY DEF Search
<1>2. fd \in Fds /\ fds[fd] \in watched /\ FreedOnce
  BY <1>1, RemovedClient
<1>3. node[loop.current].fd = fd /\ loop.current \in Nodes /\ fd # 0
  BY <1>2, Names DEF Found, Basic, Memory, Addresses
<1>4. CASE loop.current \notin used
  <2>1. loop.current \in Freed
    BY <1>3, <1>4 DEF Freed
  <2>2. Freed = {loop.current}
    BY <1>2, <2>1 DEF FreedOnce
  <2> QED BY <1>1, <1>2, <1>3, <2>1, <2>2 DEF FreedOnce, Reused
<1> QED BY <1>3, <1>4

LEMMA FreedKept ==
  ASSUME Basic, Few, Removal, [ListNext]_listServerVars, ~TwoAway'
  PROVE  FreedOnce'
<1>1. ~TwoAway /\ FreedOnce /\ Away \subseteq Away'
  BY AwayGrows DEF Basic, Removal
<1>2. /\ Freed # {} => Away # {}
      /\ \A n, m \in Freed : n = m
      /\ Reused /\ FoundNode /\ Freeing
  BY <1>1 DEF FreedOnce
<1>3. loop'.batch = loop.batch => fd' = fd
  BY DEF fd
<1>4. DOMAIN loop = {"pc", "batch", "prev", "current"} /\ DOMAIN mgr = {"pc", "fd", "at", "msg"}
  BY DEF Basic, NetInv, Shapes
<1>5. node \in [Nodes -> [fd : Fds \cup {0}, next : Nodes \cup {Null}]] /\ used \subseteq Nodes
  BY DEF Basic, Memory, Addresses
<1>6. CASE EpollWait \/ AcceptEvent \/ RecvEvent \/ EndEvent
  <2>1. UNCHANGED <<fds, used, node, mgr, watched>> /\ loop.pc \in {"wait", "event"}
    BY <1>6 DEF EpollWait, AcceptEvent, RecvEvent, EndEvent, sockVars, listVars
  <2>2. loop'.pc \in {"wait", "event", "search"}
    <3>1. CASE loop' = NextEvent /\ loop.pc # "wait"
      BY <3>1, NextEvents DEF Basic
    <3> QED BY <1>4, <1>6, <3>1 DEF EpollWait, AcceptEvent, RecvEvent, EndEvent
  <2>3. Freed' = Freed
    BY <2>1, SameFreed
  <2> QED BY <1>1, <1>2, <2>1, <2>2, <2>3 DEF FreedOnce, Reused, FoundNode, Freeing
<1>7. CASE EpollDel
  <2>1. UNCHANGED <<fds, used, node, mgr>> /\ loop.pc = "del" /\ watched' = watched \ {fds[fd]}
    BY <1>7 DEF EpollDel, sockVars, listVars
  <2>2. loop'.pc \in {"wait", "event"}
    BY <1>7, NextEvents DEF EpollDel, Basic
  <2>3. Freed' = Freed
    BY <2>1, SameFreed
  <2>4. Reused'
    BY <1>2, <2>1, <2>3 DEF Reused
  <2> QED BY <1>1, <1>2, <2>2, <2>3, <2>4 DEF FreedOnce, FoundNode, Freeing
<1>8. CASE Search
  <2>1. UNCHANGED <<fds, used, node, mgr, watched>> /\ loop.pc = "search" /\ loop'.batch = loop.batch
    BY <1>4, <1>8 DEF Search, sockVars, listVars
  <2>2. Freed' = Freed /\ fd' = fd
    BY <1>3, <2>1, SameFreed
  <2>3. Reused'
    BY <1>2, <2>1, <2>2 DEF Reused
  <2>4. /\ loop'.pc \in {"del", "unlink", "search"}
        /\ loop'.pc = "unlink" => loop.current # Null /\ Found /\ loop'.current = loop.current
    BY <1>4, <1>8 DEF Search
  <2>5. FoundNode'
    BY <1>8, <2>1, <2>2, <2>4, FoundIsUsed DEF FoundNode
  <2> QED BY <1>1, <1>2, <2>2, <2>3, <2>4, <2>5 DEF FreedOnce, Freeing
<1>9. CASE Unlink
  <2>1. UNCHANGED <<fds, used, mgr, watched>> /\ loop.pc = "unlink" /\ loop' = [loop EXCEPT !.pc = "close"]
    BY <1>9 DEF Unlink, sockVars
  <2>2. \A n \in Nodes : node'[n].fd = node[n].fd
    BY <1>5, <1>9 DEF Unlink
  <2>3. Freed' = Freed /\ fd' = fd /\ loop'.pc = "close" /\ loop'.current = loop.current /\ loop.current \in Nodes
    BY <1>3, <1>4, <2>1, <2>2, SameFreed DEF Basic, Memory, Addresses
  <2>4. Freed \subseteq Nodes
    BY DEF Freed
  <2>5. Reused'
    BY <1>2, <2>1, <2>2, <2>3, <2>4 DEF Reused
  <2>6. FoundNode'
    BY <1>2, <2>1, <2>2, <2>3 DEF FoundNode
  <2> QED BY <1>1, <1>2, <2>3, <2>5, <2>6 DEF FreedOnce, Freeing
<1>10. CASE CloseClient
  <2> PICK c : c = fds[fd]
    OBVIOUS
  <2>1. node[loop.current].fd = fd /\ CloseFd(fd) /\ fd \in Fds /\ c \in Gone
    BY <1>10, CloseIs
  <2>2. UNCHANGED <<used, node, peer, backlog>> /\ loop.pc = "close" /\ loop' = [loop EXCEPT !.pc = "free"]
    BY <1>10 DEF CloseClient, listVars
  <2>3. Freed' = Freed /\ fd' = fd /\ loop'.pc = "free" /\ loop'.current = loop.current
    BY <1>3, <1>4, <2>2, SameFreed
  <2>4. c \in Away' /\ c \notin Away
    <3>1. Registered(c) /\ c \in Conns
      BY <2>1 DEF Registered, Gone
    <3>2. ~Registered(c)'
      BY <2>1, <3>1, Names DEF Registered, CloseFd, Basic, NetInv, Sockets
    <3>3. c \in Accepted' /\ c \in Gone'
      BY <2>1, <2>2, <3>1 DEF Accepted, Gone, Waits, Basic, NetInv, Backlog
    <3> QED BY <3>1, <3>2, <3>3 DEF Away
  <2>5. Freed = {}
    BY <1>1, <1>2, <2>4 DEF TwoAway
  <2>6. loop.current \in used
    BY <1>2, <2>2, <2>5 DEF FoundNode
  <2> QED BY <2>1, <2>2, <2>3, <2>4, <2>5, <2>6 DEF FreedOnce, Reused, FoundNode, Freeing
<1>11. CASE FreeNode
  <2>1. UNCHANGED <<fds, watched, node, mgr>> /\ loop.pc = "free" /\ used' = used \ {loop.current}
    BY <1>11 DEF FreeNode, sockVars
  <2>2. Away # {} /\ Freed = {} /\ loop.current \in used /\ node[loop.current].fd = fd
    BY <1>2, <2>1 DEF Freeing
  <2>3. Freed' \subseteq {loop.current}
    BY <2>1, <2>2 DEF Freed
  <2>4. fd' = fd /\ loop'.pc = "del"
    BY <1>3, <1>4, <1>11 DEF FreeNode
  <2> QED BY <1>1, <2>1, <2>2, <2>3, <2>4 DEF FreedOnce, Reused, FoundNode, Freeing
<1>12. ASSUME UNCHANGED <<used, node, loop>> PROVE Freed' = Freed /\ fd' = fd /\ Freeing'
  <2>1. Freed' = Freed /\ fd' = fd
    BY <1>3, <1>12, SameFreed
  <2> QED BY <1>1, <1>2, <1>12, <2>1 DEF Freeing
<1>13. ASSUME UNCHANGED <<used, node, loop>>, mgr.pc = "insert" => mgr' = mgr, Reused' PROVE FreedOnce'
  <2>1. Freed' = Freed /\ fd' = fd /\ Freeing'
    BY <1>12, <1>13
  <2> QED BY <1>1, <1>2, <1>13, <2>1 DEF FreedOnce, FoundNode
<1>14. CASE Accept
  <2>1. UNCHANGED <<used, node, loop, watched>> /\ mgr.pc = "accept"
    BY <1>14 DEF Accept, listVars
  <2>2. \A f \in Fds \cup {0} : fds'[f] \in watched => fds[f] \in watched
    <3>1. CASE backlog # <<>> /\ Available # {} /\ fds' = [fds EXCEPT ![Lowest] = Head(backlog)]
      <4>1. Head(backlog) \in Conns /\ Waits(Head(backlog))
        BY <3>1, OnceTail DEF Basic, NetInv, Backlog, Waits
      <4>2. Head(backlog) \notin watched
        BY <4>1 DEF Basic, NetInv, Backlog, Sockets
      <4> QED BY <3>1, <4>2, LowestIn DEF Basic, NetInv, Sockets
    <3> QED BY <1>14, <3>1 DEF Accept
  <2>3. Reused'
    <3>1. \A n \in Freed : node[n].fd \in Fds \cup {0}
      BY <1>5 DEF Freed
    <3> QED BY <1>2, <1>12, <2>1, <2>2, <3>1 DEF Reused
  <2> QED BY <1>13, <2>1, <2>3
<1>15. CASE Register
  <2>1. UNCHANGED <<used, node, loop>> /\ mgr.pc = "register" /\ mgr.fd \in Fds
    BY <1>15 DEF Register, listVars, Basic, NetInv, Accepting
  <2>2. ASSUME NEW n \in Freed, fds'[node[n].fd] \in watched'
        PROVE  \/ mgr'.pc = "insert" /\ mgr'.fd = node[n].fd
               \/ loop.pc = "del" /\ fd = node[n].fd
    <3>1. fds[node[n].fd] \in watched => loop.pc = "del" /\ fd = node[n].fd
      BY <1>2, <2>1 DEF Reused
    <3> DEFINE f == node[n].fd
    <3>2. f \in Fds
      BY <1>5 DEF Freed
    <3> HIDE DEF f
    <3>3. CASE watched' = watched /\ CloseFd(mgr.fd)
      <4>1. fds[f] \in watched
        BY <2>2, <3>2, <3>3, Names DEF f, CloseFd, Basic, NetInv, Sockets
      <4> QED BY <3>1, <4>1 DEF f
    <3>4. CASE fds' = fds /\ watched' = watched \cup {fds[mgr.fd]} /\ fds[mgr.fd] \in Conns /\ mgr' = [mgr EXCEPT !.pc = "insert"]
      <4>1. CASE fds[f] \in watched
        BY <3>1, <4>1 DEF f
      <4>2. CASE fds[f] = fds[mgr.fd]
        <5>1. f = mgr.fd
          BY <2>1, <3>2, <3>4, <4>2 DEF Basic, NetInv, Sockets
        <5>2. mgr'.pc = "insert" /\ mgr'.fd = mgr.fd
          BY <1>4, <3>4
        <5> QED BY <5>1, <5>2 DEF f
      <4> QED BY <2>2, <3>4, <4>1, <4>2 DEF f
    <3> QED BY <1>15, <3>3, <3>4 DEF Register
  <2>3. Reused'
    BY <1>12, <2>1, <2>2 DEF Reused
  <2> QED BY <1>13, <2>1, <2>3
<1>16. CASE Insert
  <2>1. PICK n \in Malloc : /\ used' = used \cup {n}
                            /\ node' = [node EXCEPT ![n] = [fd |-> mgr.fd, next |-> head]]
    BY <1>16 DEF Insert
  <2>2. UNCHANGED loop /\ fd' = fd
    BY <1>3, <1>16 DEF Insert
  <2>3. n \in Nodes /\ n \notin used
    BY <1>16, MallocGives DEF Basic
  <2>4. Freed' = {}
    <3>1. \A m \in Nodes : m # n => node'[m] = node[m]
      BY <1>5, <2>1
    <3>2. Freed' \subseteq Freed \ {n}
      BY <2>1, <3>1 DEF Freed
    <3>3. Freed # {} => n \in Freed
      BY <2>1 DEF Malloc
    <3> QED BY <1>2, <3>2, <3>3
  <2>5. FoundNode'
    <3>1. CASE loop.current = n /\ loop.pc \in {"unlink", "close"}
      <4>1. mgr.fd = fd
        BY <1>2, <2>3, <3>1 DEF FoundNode
      <4>2. node'[loop.current].fd = fd /\ loop.current \in used'
        BY <1>5, <2>1, <2>3, <3>1, <4>1
      <4> QED BY <2>2, <4>2 DEF FoundNode
    <3>2. CASE loop.current # n /\ loop.pc \in {"unlink", "close"}
      <4>1. loop.current \in used /\ node[loop.current].fd = fd
        <5>1. Freed # {} => n \in Freed
          BY <2>1 DEF Malloc
        <5> QED BY <1>2, <3>2, <5>1 DEF FoundNode
      <4>2. node'[loop.current].fd = fd /\ loop.current \in used'
        BY <1>5, <2>1, <3>2, <4>1
      <4> QED BY <2>2, <4>2 DEF FoundNode
    <3>3. CASE loop.pc \notin {"unlink", "close"}
      BY <2>2, <3>3 DEF FoundNode
    <3> QED BY <3>1, <3>2, <3>3
  <2>6. Freeing'
    BY <1>1, <1>2, <1>5, <2>1, <2>2, <2>3, <2>4 DEF Freeing
  <2> QED BY <2>4, <2>5, <2>6 DEF FreedOnce, Reused
<1>17. CASE TakeNewClient \/ Publish \/ TakeBroadcast \/ Walk \/ WalkEnds
  <2>1. UNCHANGED <<used, node, loop, fds, watched>> /\ mgr.pc # "insert"
    BY <1>17 DEF TakeNewClient, Publish, TakeBroadcast, Walk, Send, WalkEnds, listVars, sockVars
  <2>2. Reused'
    BY <1>2, <1>12, <2>1 DEF Reused
  <2> QED BY <1>13, <2>1, <2>2
<1>18. CASE CanvasTask \/ Clock \/ Clients \/ UNCHANGED listServerVars
  <2>1. UNCHANGED <<used, node, loop, fds, watched, mgr>>
    BY <1>18 DEF CanvasTask, Clock, Clients, Client, Connect, ClientSend, ClientLeave, Ended, listVars, sockVars,
       listServerVars
  <2>2. Reused'
    BY <1>2, <1>12, <2>1 DEF Reused
  <2> QED BY <1>13, <2>1, <2>2
<1> QED BY <1>6, <1>7, <1>8, <1>9, <1>10, <1>11, <1>14, <1>15, <1>16, <1>17, <1>18 DEF ListNext, EventLoop, Manager

-----------------------------------------------------------------------------
LEMMA InitBasic == ListInit => Basic /\ Removal
<1> SUFFICES ASSUME ListInit PROVE Basic /\ Removal
  OBVIOUS
<1> USE DEF ListInit, initClientManager, init_canvas, NetInit
<1>1. /\ Len(<<>>) = 0 /\ <<>> \in Seq(Conns) /\ <<>> \in Seq(Conns \cup {Listener}) /\ <<>> \in Seq(Events)
      /\ \A c \in Conns : <<>> \in Seq({c})
  OBVIOUS
<1>2. NetInv
  BY <1>1, Names DEF NetInv, Shapes, Sockets, Backlog, Waits, ReadyOnce, Once, Accepting
<1>3. Addresses /\ Claimed = 0 /\ used = {}
  BY DEF Addresses, Claimed
<1>4. Enough
  <2>1. Cardinality(used) = 0
    BY <1>3, FS_EmptySet
  <2> QED BY <1>3, <2>1, FiniteSizes DEF Enough
<1>5. EventsOnce /\ EventsSound
  BY <1>1 DEF EventsOnce, EventsSound, Handling
<1>6. Unread
  BY <1>1 DEF Unread
<1>7. Freed = {}
  BY DEF Freed
<1>8. FreedOnce
  BY <1>7 DEF FreedOnce, Reused, FoundNode, Freeing
<1> QED BY <1>2, <1>3, <1>4, <1>5, <1>6, <1>8 DEF Basic, Memory, Removal

LEMMA RemovalStep == Basic /\ Removal /\ [ListNext]_listServerVars => Basic' /\ Removal'
<1> SUFFICES ASSUME Basic, Removal, [ListNext]_listServerVars PROVE Basic' /\ Removal'
  OBVIOUS
<1>1. Basic'
  BY NetKept, MemoryKept, OnceKept, UnreadKept DEF Basic
<1>2. Few' => Few
  BY GoneGrows DEF Basic
<1>3. Removal'
  BY <1>2, SoundKept, FreedKept DEF Removal
<1> QED BY <1>1, <1>3

(* A descriptor is closed by removeClient, or because epoll_ctl refused it. *)
LEMMA WhoCloses ==
  ASSUME Basic, [ListNext]_listServerVars, NEW c \in Conns, Closes(c), ~Refuses(c)
  PROVE  CloseClient
<1>1. CASE fds' = fds
  BY <1>1 DEF Closes, Registered
<1>2. CASE Accept
  <2>1. PICK f \in Fds : fds[f] = c
    BY DEF Closes, Registered
  <2>2. CASE Available # {} /\ fds' = [fds EXCEPT ![Lowest] = Head(backlog)]
    <3>1. f # Lowest
      BY <2>1, <2>2, LowestIn, Names
    <3>2. fds'[f] = c
      BY <2>1, <2>2, <3>1 DEF Basic, NetInv, Sockets
    <3> QED BY <3>2 DEF Closes, Registered
  <2> QED BY <1>1, <1>2, <2>2 DEF Accept
<1>3. CASE Register
  <2>1. PICK f \in Fds : fds[f] = c
    BY DEF Closes, Registered
  <2>2. CASE CloseFd(mgr.fd)
    <3>1. f # mgr.fd
      BY <1>3, <2>1 DEF Register, Refuses
    <3>2. fds'[f] = c
      BY <2>1, <2>2, <3>1 DEF CloseFd, Basic, NetInv, Sockets
    <3> QED BY <3>2 DEF Closes, Registered
  <2> QED BY <1>1, <1>3, <2>2 DEF Register
<1>4. CASE EventLoop /\ ~CloseClient
  BY <1>1, <1>4 DEF EventLoop, EpollWait, AcceptEvent, RecvEvent, EndEvent, Search, Unlink, FreeNode, EpollDel, sockVars
<1>5. CASE Manager /\ ~Accept /\ ~Register
  BY <1>1, <1>5 DEF Manager, TakeNewClient, Insert, Publish, TakeBroadcast, Walk, Send, WalkEnds, sockVars
<1>6. CASE CanvasTask \/ Clock \/ Clients \/ UNCHANGED listServerVars
  BY <1>1, <1>6 DEF CanvasTask, Clock, Clients, Client, Connect, ClientSend, ClientLeave, Ended, sockVars, listServerVars
<1> QED BY <1>2, <1>3, <1>4, <1>5, <1>6 DEF ListNext

LEMMA EndedStep ==
  Basic /\ Removal /\ [ListNext]_listServerVars =>
    [Few => \A c \in Conns : Closes(c) /\ ~Refuses(c) => peer[c] # "up"]_listServerVars
<1> SUFFICES ASSUME Basic, Removal, [ListNext]_listServerVars, Few, NEW c \in Conns, Closes(c), ~Refuses(c)
             PROVE  peer[c] # "up"
  OBVIOUS
<1>1. CloseClient
  BY WhoCloses
<1>2. CloseFd(fd) /\ fd \in Fds /\ fds[fd] \in Gone
  BY <1>1, CloseIs
<1>3. PICK f \in Fds : fds[f] = c
  BY DEF Closes, Registered
<1>4. f = fd
  <2>1. f # fd => fds'[f] = c
    BY <1>2, <1>3 DEF CloseFd, Basic, NetInv, Sockets
  <2> QED BY <1>3, <2>1 DEF Closes, Registered
<1> QED BY <1>2, <1>3, <1>4 DEF Gone

LEMMA RemovalInvariance == ListSpec => [](Basic /\ Removal)
BY InitBasic, RemovalStep, PTL DEF ListSpec

(* removeClient of 1.1v (client_manager.c:211), which walks a list that    *)
(* another thread changes and reads nodes that may be freed, closes only   *)
(* clients that went away, until a third client goes.                      *)
THEOREM OnlyEndedRemoved == ListSpec => RemoveOnlyEnded
<1>1. [ListNext]_listServerVars /\ Basic /\ Removal =>
        [Cardinality(Gone) <= 2 => \A c \in Conns : Closes(c) /\ ~Refuses(c) => peer[c] # "up"]_listServerVars
  BY EndedStep DEF Few
<1> QED BY <1>1, RemovalInvariance, PTL DEF ListSpec, RemoveOnlyEnded

-----------------------------------------------------------------------------
(***************************************************************************)
(* While nobody leaves nothing is removed, and the list only grows.        *)
(***************************************************************************)
Stays == Leaving \cup Aborting = {}
Calm == Gone = {} /\ loop.pc \in {"wait", "event"}

LEMMA StaysAlways == ASSUME UNCHANGED world PROVE Stays' <=> Stays
BY DEF Stays, Leaving, Aborting

LEMMA WorldKept == ASSUME [ListNext]_listServerVars PROVE UNCHANGED world
<1>1. CASE EventLoop \/ Manager
  BY <1>1 DEF EventLoop, Manager
<1>2. CASE CanvasTask \/ Clock \/ Clients \/ UNCHANGED listServerVars
  BY <1>2 DEF CanvasTask, Clock, Clients, listServerVars, sockVars
<1> QED BY <1>1, <1>2 DEF ListNext

LEMMA CalmFew == ASSUME Calm PROVE Few
BY FS_EmptySet DEF Calm, Few

(* What can happen then.                                                   *)
CalmLoop == EpollWait \/ AcceptEvent \/ RecvEvent
LEMMA CalmStep ==
  ASSUME Basic, Removal, Stays, Calm, [ListNext]_listServerVars
  PROVE  /\ Calm'
         /\ CalmLoop \/ Manager \/ CanvasTask \/ Clock \/ UNCHANGED listServerVars
            \/ (Clients /\ \E c \in Conns : Connect(c) \/ ClientSend(c))
<1>1. ~(Search \/ Unlink \/ CloseClient \/ FreeNode \/ EpollDel)
  BY DEF Calm, Search, Unlink, CloseClient, FreeNode, EpollDel
<1>2. ~EndEvent
  <2> SUFFICES ASSUME EndEvent PROVE FALSE
    OBVIOUS
  <2>1. EventsSound'
    BY CalmFew, SoundKept
  <2>2. loop'.pc = "search" /\ fds' = fds /\ loop'.batch = loop.batch /\ peer' = peer
    BY DEF EndEvent, sockVars, Basic, NetInv, Shapes
  <2>3. fds[fd] \in Gone
    BY <2>1, <2>2 DEF EventsSound, Gone, fd
  <2> QED BY <2>3 DEF Calm
<1>3. CASE Clients
  <2> PICK c \in Conns : Client(c)
    BY <1>3 DEF Clients
  <2>1. ~ClientLeave(c)
    <3>1. c \notin Leaving /\ c \notin Aborting
      BY DEF Stays
    <3> QED BY <3>1 DEF ClientLeave
  <2>2. Connect(c) \/ ClientSend(c)
    BY <2>1 DEF Client
  <2>3. loop' = loop /\ \A x \in Conns : peer'[x] \in {"new", "up"} \/ peer'[x] = peer[x]
    BY <1>3, <2>2 DEF Clients, Connect, ClientSend, Basic, NetInv, Sockets
  <2>4. Calm'
    BY <2>3 DEF Calm, Gone
  <2> QED BY <1>3, <2>2, <2>4
<1>4. CASE CalmLoop
  <2>1. peer' = peer
    BY <1>4 DEF CalmLoop, EpollWait, AcceptEvent, RecvEvent, sockVars
  <2>2. loop'.pc \in {"wait", "event"}
    <3>1. CASE loop' = NextEvent /\ loop.pc # "wait"
      BY <3>1, NextEvents DEF Basic
    <3>2. CASE EpollWait
      BY <3>2 DEF EpollWait, Basic, NetInv, Shapes
    <3> QED BY <1>4, <3>1, <3>2 DEF CalmLoop, AcceptEvent, RecvEvent
  <2> QED BY <1>4, <2>1, <2>2 DEF Calm, Gone
<1>5. CASE Manager \/ CanvasTask \/ Clock \/ UNCHANGED listServerVars
  <2>1. UNCHANGED <<peer, loop>>
    BY <1>5 DEF Manager, TakeNewClient, Accept, Register, Insert, Publish, TakeBroadcast, Walk,
       WalkEnds, CanvasTask, Clock, listServerVars, sockVars
  <2> QED BY <1>5, <2>1 DEF Calm, Gone
<1> QED BY <1>1, <1>2, <1>3, <1>4, <1>5 DEF ListNext, EventLoop, CalmLoop

-----------------------------------------------------------------------------
(***************************************************************************)
(* Behind: the nodes reached from one.                                     *)
(***************************************************************************)
LEMMA BehindNull == Behind(Null) = {}
<1>1. Chain({})
  BY DEF Chain
<1> QED BY <1>1 DEF Behind

LEMMA BehindNext ==
  ASSUME NEW n \in Nodes
  PROVE  Behind(n) = {n} \cup Behind(node[n].next)
<1>0. n # Null
  BY Names
<1>1. ASSUME NEW m \in Behind(n), m # n PROVE m \in Behind(node[n].next)
  <2> SUFFICES ASSUME NEW S \in SUBSET Nodes, node[n].next \in S \cup {Null}, Chain(S) PROVE m \in S
    BY DEF Behind
  <2>1. Chain(S \cup {n})
    BY DEF Chain
  <2>2. m \in S \cup {n}
    BY <2>1 DEF Behind
  <2> QED BY <1>1, <2>2
<1>2. ASSUME NEW m \in Behind(node[n].next) PROVE m \in Behind(n)
  <2> SUFFICES ASSUME NEW S \in SUBSET Nodes, n \in S, Chain(S) PROVE m \in S
    BY <1>0 DEF Behind
  <2>1. node[n].next \in S \cup {Null}
    BY DEF Chain
  <2> QED BY <1>2, <2>1 DEF Behind
<1>3. n \in Behind(n)
  BY <1>0 DEF Behind
<1> QED BY <1>1, <1>2, <1>3

LEMMA BehindIn ==
  ASSUME NEW S \in SUBSET Nodes, NEW n \in S \cup {Null}, Chain(S)
  PROVE  Behind(n) \subseteq S
BY DEF Behind

(* What is behind a node depends on no memory but that of a chain it is in. *)
LEMMA BehindFrame ==
  ASSUME NEW U \in SUBSET Nodes, NEW n \in U \cup {Null}, Chain(U),
         \A m \in U : node'[m].next = node[m].next
  PROVE  Behind(n)' = Behind(n)
<1>1. ASSUME NEW m \in Behind(n)' PROVE m \in Behind(n)
  <2> SUFFICES ASSUME NEW S \in SUBSET Nodes, n \in S \cup {Null}, Chain(S) PROVE m \in S
    BY <1>1 DEF Behind
  <2>1. Chain(S \cap U)' /\ n \in (S \cap U) \cup {Null} /\ S \cap U \in SUBSET Nodes
    BY DEF Chain
  <2> QED BY <1>1, <2>1 DEF Behind
<1>2. ASSUME NEW m \in Behind(n) PROVE m \in Behind(n)'
  <2> SUFFICES ASSUME NEW S \in SUBSET Nodes, n \in S \cup {Null}, Chain(S)' PROVE m \in S
    BY <1>2 DEF Behind
  <2>1. Chain(S \cap U) /\ n \in (S \cap U) \cup {Null} /\ S \cap U \in SUBSET Nodes
    BY DEF Chain
  <2> QED BY <1>2, <2>1 DEF Behind
<1> QED BY <1>1, <1>2

-----------------------------------------------------------------------------
(***************************************************************************)
(* The list while nobody leaves: every node is one of a connected client.  *)
(***************************************************************************)
OwnNodes == /\ \A n \in used : /\ node[n].fd \in Fds /\ fds[node[n].fd] \in Conns
                               /\ node[n].next \in used \cup {Null}
            /\ head \in used \cup {Null}

NewNode == /\ mgr.pc \in {"register", "insert"} =>
                fds[mgr.fd] \in Conns /\ \A n \in used : node[n].fd # mgr.fd
           /\ mgr.pc = "publish" => /\ mgr.at \in used /\ node[mgr.at].next = head
                                    /\ \A n \in Listed : node[n].fd # node[mgr.at].fd

Walking == mgr.pc = "walk" => mgr.at \in Listed \cup {Null}

(* Only clients in the list were told anything.                            *)
ToldListed == /\ DOMAIN told = Conns
              /\ \A c \in Conns : \A k \in 1 .. Cells : told[c][k] # Null => \E n \in Listed : ConnOf(n) = c

List == OwnNodes /\ NewNode /\ Walking /\ ToldListed

LEMMA ListedUsed ==
  ASSUME Basic, OwnNodes
  PROVE  /\ used \in SUBSET Nodes /\ Chain(used) /\ Listed \subseteq used /\ Chain(Listed)
         /\ head \in Listed \cup {Null}
<1>1. used \in SUBSET Nodes /\ Chain(used)
  BY DEF Basic, Memory, Addresses, OwnNodes, Chain
<1>2. Listed \subseteq used
  BY <1>1, BehindIn DEF Listed, OwnNodes
<1>3. head \in Listed \cup {Null}
  BY <1>1, BehindNext DEF Listed, OwnNodes
<1>4. ASSUME NEW m \in Listed, node[m].next # Null PROVE node[m].next \in Listed
  <2>1. node[m].next \in Nodes
    BY <1>1, <1>2, <1>4 DEF OwnNodes
  <2>2. ASSUME NEW S \in SUBSET Nodes, head \in S \cup {Null}, Chain(S) PROVE node[m].next \in S
    <3>1. m \in S
      BY <2>2 DEF Listed, Behind
    <3> QED BY <1>4, <2>2, <3>1 DEF Chain
  <2> QED BY <2>1, <2>2 DEF Listed, Behind
<1> QED BY <1>1, <1>2, <1>3, <1>4 DEF Chain

(* Steps that leave the list as it is.                                     *)
SameList == /\ Listed' = Listed
            /\ \A n \in Listed : node'[n].fd = node[n].fd /\ ConnOf(n)' = ConnOf(n)
            /\ \A n \in used \cup {Null} : Behind(n)' = Behind(n)

LEMMA ListSame ==
  ASSUME Basic, OwnNodes, UNCHANGED head, used \subseteq used', \A n \in used : node'[n] = node[n],
         \A n \in used : fds'[node[n].fd] = fds[node[n].fd]
  PROVE  SameList
<1>1. used \in SUBSET Nodes /\ Chain(used) /\ Listed \subseteq used
  BY ListedUsed
<1>2. \A n \in used \cup {Null} : Behind(n)' = Behind(n)
  BY <1>1, BehindFrame
<1>3. PICK h : h = head
  OBVIOUS
<1>4. Behind(h)' = Behind(h) /\ Listed = Behind(h)
  BY <1>2, <1>3 DEF OwnNodes, Listed
<1>5. Listed' = Behind(h)'
  BY <1>3 DEF Listed
<1> QED BY <1>1, <1>2, <1>4, <1>5 DEF SameList, ConnOf

LEMMA ToldSame ==
  ASSUME ToldListed, SameList, UNCHANGED told
  PROVE  ToldListed'
BY DEF ToldListed, SameList

(* Steps that do not touch memory, the descriptors of clients in the list, *)
(* or what was told.                                                       *)
LEMMA ListAsBefore ==
  ASSUME Basic, List, UNCHANGED <<head, used, node, told>>,
         \A n \in used : fds'[node[n].fd] = fds[node[n].fd],
         NewNode', Walking'
  PROVE  List' /\ SameList
<1>1. SameList
  BY ListSame DEF List
<1>2. OwnNodes'
  BY DEF List, OwnNodes
<1> QED BY <1>1, <1>2, ToldSame DEF List

LEMMA ManagerList ==
  ASSUME Basic, List, Manager, ~Insert, ~Publish, ~Walk
  PROVE  List' /\ SameList
<1>1. DOMAIN mgr = {"pc", "fd", "at", "msg"}
  BY DEF Basic, NetInv, Shapes
<1>2. CASE TakeNewClient \/ WalkEnds
  <2>1. UNCHANGED <<head, used, node, told, fds>> /\ mgr'.pc \in {"accept", "pop"}
    BY <1>1, <1>2 DEF TakeNewClient, WalkEnds, listVars, sockVars
  <2> QED BY <2>1, ListAsBefore DEF NewNode, Walking
<1>3. CASE TakeBroadcast
  <2>1. UNCHANGED <<head, used, node, told, fds>> /\ mgr'.pc = "walk" /\ mgr'.at = head
    BY <1>1, <1>3 DEF TakeBroadcast, listVars, sockVars
  <2>2. SameList
    BY <2>1, ListSame DEF List
  <2>3. Walking'
    BY <2>1, <2>2, ListedUsed DEF Walking, SameList, List
  <2> QED BY <2>1, <2>3, ListAsBefore DEF NewNode
<1>4. CASE Accept
  <2>1. UNCHANGED <<head, used, node, told>>
    BY <1>4 DEF Accept, listVars
  <2>2. CASE mgr' = [mgr EXCEPT !.pc = "pop"] /\ UNCHANGED fds
    <3>1. mgr'.pc = "pop"
      BY <1>1, <2>2
    <3> QED BY <2>1, <2>2, <3>1, ListAsBefore DEF NewNode, Walking
  <2>3. CASE /\ backlog # <<>> /\ Available # {} /\ fds' = [fds EXCEPT ![Lowest] = Head(backlog)]
             /\ mgr' = [mgr EXCEPT !.pc = "register", !.fd = Lowest]
    <3> PICK f : f = Lowest
      OBVIOUS
    <3>1. f \in Fds /\ fds[f] = Closed
      BY <2>3, LowestIn
    <3>2. Head(backlog) \in Conns
      BY <2>3, OnceTail DEF Basic, NetInv, Backlog
    <3>3. \A n \in used : node[n].fd # f /\ fds'[node[n].fd] = fds[node[n].fd]
      BY <2>3, <3>1, Names DEF List, OwnNodes, Basic, NetInv, Sockets
    <3>4. fds'[f] \in Conns /\ mgr'.fd = f /\ mgr'.pc = "register"
      BY <1>1, <2>3, <3>1, <3>2 DEF Basic, NetInv, Sockets
    <3>5. NewNode' /\ Walking'
      BY <2>1, <3>3, <3>4 DEF NewNode, Walking
    <3> QED BY <2>1, <3>3, <3>5, ListAsBefore
  <2> QED BY <1>4, <2>2, <2>3 DEF Accept
<1>5. CASE Register
  <2>1. UNCHANGED <<head, used, node, told>> /\ mgr.pc = "register"
    BY <1>5 DEF Register, listVars
  <2>2. fds[mgr.fd] \in Conns /\ \A n \in used : node[n].fd # mgr.fd
    BY <2>1 DEF List, NewNode
  <2>3. CASE UNCHANGED fds /\ mgr' = [mgr EXCEPT !.pc = "insert"]
    <3>1. mgr'.fd = mgr.fd /\ mgr'.pc = "insert"
      BY <1>1, <2>3
    <3>2. NewNode' /\ Walking'
      BY <2>1, <2>2, <2>3, <3>1 DEF NewNode, Walking
    <3> QED BY <2>1, <2>3, <3>2, ListAsBefore
  <2>4. CASE CloseFd(mgr.fd) /\ mgr' = [mgr EXCEPT !.pc = "pop", !.fd = 0]
    <3>1. \A n \in used : fds'[node[n].fd] = fds[node[n].fd]
      BY <2>2, <2>4 DEF CloseFd, List, OwnNodes, Basic, NetInv, Sockets
    <3>2. mgr'.pc = "pop"
      BY <1>1, <2>4
    <3> QED BY <2>1, <3>1, <3>2, ListAsBefore DEF NewNode, Walking
  <2> QED BY <1>5, <2>3, <2>4 DEF Register
<1> QED BY <1>2, <1>3, <1>4, <1>5 DEF Manager

LEMMA InsertList == ASSUME Basic, List, Insert PROVE List' /\ SameList
<1>1. DOMAIN mgr = {"pc", "fd", "at", "msg"} /\ mgr.pc = "insert" /\ mgr.fd \in Fds /\ fds[mgr.fd] \in Conns
  BY DEF Basic, NetInv, Shapes, Insert, Accepting, List, NewNode
<1>2. PICK n \in Malloc : /\ used' = used \cup {n}
                          /\ node' = [node EXCEPT ![n] = [fd |-> mgr.fd, next |-> head]]
                          /\ mgr' = [mgr EXCEPT !.pc = "publish", !.at = n]
  BY DEF Insert
<1>3. n \in Nodes /\ n \notin used
  BY MallocGives DEF Basic
<1>4. UNCHANGED <<fds, head, told>>
  BY DEF Insert, sockVars
<1>5. \A m \in used : node'[m] = node[m]
  BY <1>2, <1>3 DEF Basic, Memory, Addresses
<1>6. node'[n].fd = mgr.fd /\ node'[n].next = head
  BY <1>2, <1>3 DEF Basic, Memory, Addresses
<1>7. SameList
  BY <1>2, <1>4, <1>5, ListSame DEF List
<1>8. OwnNodes'
  BY <1>1, <1>2, <1>4, <1>5, <1>6 DEF List, OwnNodes
<1>9. NewNode' /\ Walking'
  <2>1. mgr'.pc = "publish" /\ mgr'.at = n
    BY <1>1, <1>2
  <2>2. \A m \in Listed' : node'[m].fd # node'[n].fd
    BY <1>1, <1>6, <1>7, ListedUsed DEF SameList, List, NewNode
  <2> QED BY <1>2, <1>4, <1>6, <2>1, <2>2 DEF NewNode, Walking
<1>10. ToldListed'
  BY <1>4, <1>7, ToldSame DEF List
<1> QED BY <1>7, <1>8, <1>9, <1>10 DEF List

(* manager->head = new_client.                                             *)
LEMMA PublishList ==
  ASSUME Basic, List, Publish
  PROVE  /\ List' /\ UNCHANGED <<node, fds>>
         /\ Listed' = Listed \cup {mgr.at}
         /\ \A k \in 1 .. Cells : told[ConnOf(mgr.at)][k] = Null
<1> PICK n : n = mgr.at
  OBVIOUS
<1>1. UNCHANGED <<fds, node, used, told>> /\ head' = n /\ mgr.pc = "publish"
  BY DEF Publish, sockVars
<1>2. n \in used /\ node[n].next = head /\ \A m \in Listed : node[m].fd # node[n].fd
  BY <1>1 DEF List, NewNode
<1>3. used \in SUBSET Nodes /\ Chain(used) /\ Listed \subseteq used
  BY ListedUsed DEF List
<1>4. Behind(n)' = Behind(n)
  BY <1>1, <1>2, <1>3, BehindFrame
<1>5. Behind(n) = {n} \cup Listed
  <2>1. Behind(n) = {n} \cup Behind(node[n].next)
    BY <1>2, <1>3, BehindNext
  <2> QED BY <1>2, <2>1 DEF Listed
<1>6. Listed' = Listed \cup {n}
  BY <1>1, <1>4, <1>5 DEF Listed
<1>7. \A m \in Listed : ConnOf(m) # ConnOf(n)
  BY <1>2, <1>3 DEF ConnOf, List, OwnNodes, Basic, NetInv, Sockets
<1>8. ConnOf(n) \in Conns
  BY <1>2 DEF ConnOf, List, OwnNodes
<1>9. \A k \in 1 .. Cells : told[ConnOf(n)][k] = Null
  BY <1>7, <1>8 DEF List, ToldListed
<1>10. mgr'.pc = "pop"
  BY DEF Publish, Basic, NetInv, Shapes
<1>11. List'
  <2>1. OwnNodes'
    BY <1>1, <1>2 DEF List, OwnNodes
  <2>2. NewNode' /\ Walking'
    BY <1>10 DEF NewNode, Walking
  <2>3. ToldListed'
    BY <1>1, <1>6 DEF List, ToldListed, ConnOf
  <2> QED BY <2>1, <2>2, <2>3 DEF List
<1> QED BY <1>1, <1>6, <1>9, <1>11

LEMMA WalkList == ASSUME Basic, List, Walk PROVE List' /\ SameList
<1> PICK n : n = mgr.at
  OBVIOUS
<1>1. /\ UNCHANGED <<fds, node, used, head>> /\ mgr.pc = "walk" /\ n # Null
      /\ mgr' = [mgr EXCEPT !.at = node[n].next]
      /\ told' = told \/ told' = [told EXCEPT ![ConnOf(n)] = Overlaid(told[ConnOf(n)], mgr.msg)]
  BY DEF Walk, Send, listVars, ConnOf
<1>2. n \in Listed /\ Chain(Listed) /\ Listed \subseteq used
  BY <1>1, ListedUsed DEF List, Walking
<1>3. SameList
  BY <1>1, ListSame DEF List
<1>4. mgr'.pc = "walk" /\ mgr'.at = node[n].next
  BY <1>1 DEF Basic, NetInv, Shapes
<1>5. OwnNodes' /\ NewNode'
  BY <1>1, <1>4 DEF List, OwnNodes, NewNode
<1>6. Walking'
  BY <1>2, <1>3, <1>4 DEF Walking, Chain, SameList
<1>7. ToldListed'
  <2>1. ASSUME NEW c \in Conns, c # ConnOf(n) PROVE told'[c] = told[c]
    BY <1>1, <2>1 DEF List, ToldListed
  <2>2. DOMAIN told' = DOMAIN told
    BY <1>1
  <2> QED BY <1>2, <1>3, <2>1, <2>2 DEF List, ToldListed, SameList
<1> QED BY <1>3, <1>5, <1>6, <1>7 DEF List

(* The threads other than the client manager.                              *)
LEMMA OthersList ==
  ASSUME Basic, List, CalmLoop \/ CanvasTask \/ Clock \/ Clients \/ UNCHANGED listServerVars
  PROVE  List' /\ SameList
<1>1. UNCHANGED <<head, used, node, told, fds, mgr>>
  BY DEF CalmLoop, EpollWait, AcceptEvent, RecvEvent, CanvasTask, Clock, Clients, Client, Connect, ClientSend,
     ClientLeave, Ended, listVars, sockVars, listServerVars
<1>2. SameList
  BY <1>1, ListSame DEF List
<1>3. Listed' = Listed /\ Listed \subseteq used
  BY <1>2, ListedUsed DEF SameList, List
<1>4. NewNode' /\ Walking'
  BY <1>1, <1>3 DEF List, NewNode, Walking
<1> QED BY <1>1, <1>4, ListAsBefore

-----------------------------------------------------------------------------
(***************************************************************************)
(* The tasks that carry colors.                                            *)
(***************************************************************************)
TaskSeq == \E S : cm_queue \in Seq(S)

(* The last task queued with pixel k gives it the color v.                 *)
Latest(k, v) == \E i \in Queued(k) : /\ \A j \in Queued(k) : j <= i
                                     /\ cm_queue[i].data[k] = v

SameTasks == \A k : /\ Queued(k)' = {} <=> Queued(k) = {}
                    /\ \A v : Latest(k, v) => Latest(k, v)'

LEMMA TasksKept ==
  ASSUME TaskSeq, \/ UNCHANGED cm_queue
                  \/ \E entry : cm_queue' = Pushed(cm_queue, entry)
                  \/ cm_queue # <<>> /\ cm_queue' = Tail(cm_queue)
  PROVE  TaskSeq'
<1> PICK S : cm_queue \in Seq(S)
  BY DEF TaskSeq
<1>1. ASSUME NEW entry, cm_queue' = Pushed(cm_queue, entry) PROVE TaskSeq'
  <2>1. cm_queue \in Seq(S \cup {entry})
    OBVIOUS
  <2>2. cm_queue' \in Seq(S \cup {entry})
    BY <1>1, <2>1, AppendProperties DEF Pushed
  <2> QED BY <2>2 DEF TaskSeq
<1>2. ASSUME cm_queue # <<>>, cm_queue' = Tail(cm_queue) PROVE TaskSeq'
  BY <1>2, HeadTailProperties DEF TaskSeq
<1> QED BY <1>1, <1>2 DEF TaskSeq

LEMMA TaskPushed ==
  ASSUME TaskSeq, NEW entry, HasRoom(cm_queue), cm_queue' = Pushed(cm_queue, entry)
  PROVE  /\ Len(cm_queue) \in Nat /\ DOMAIN cm_queue = 1 .. Len(cm_queue)
         /\ DOMAIN cm_queue' = 1 .. Len(cm_queue) + 1
         /\ \A i \in 1 .. Len(cm_queue) : cm_queue'[i] = cm_queue[i]
         /\ cm_queue'[Len(cm_queue) + 1] = entry
<1> PICK S : cm_queue \in Seq(S)
  BY DEF TaskSeq
<1>1. cm_queue \in Seq(S \cup {entry}) /\ cm_queue' = Append(cm_queue, entry)
  BY DEF Pushed
<1>2. /\ Len(cm_queue') = Len(cm_queue) + 1 /\ cm_queue' \in Seq(S \cup {entry})
      /\ \A i \in 1 .. Len(cm_queue) : cm_queue'[i] = cm_queue[i]
      /\ cm_queue'[Len(cm_queue) + 1] = entry
  BY <1>1, AppendProperties
<1> QED BY <1>1, <1>2, LenProperties

(* A task without pixel k at the end of the queue.                         *)
LEMMA PushedWithout ==
  ASSUME TaskSeq, NEW entry, NEW k, cm_queue' = Pushed(cm_queue, entry),
         entry.type = "TASK_BROADCAST" => k \notin DOMAIN entry.data
  PROVE  /\ Queued(k)' = Queued(k)
         /\ \A v : Latest(k, v) => Latest(k, v)'
<1>1. CASE ~HasRoom(cm_queue)
  BY <1>1 DEF Pushed, Queued, Latest
<1>2. CASE HasRoom(cm_queue)
  <2>1. /\ Len(cm_queue) \in Nat /\ DOMAIN cm_queue = 1 .. Len(cm_queue)
        /\ DOMAIN cm_queue' = 1 .. Len(cm_queue) + 1
        /\ \A i \in 1 .. Len(cm_queue) : cm_queue'[i] = cm_queue[i]
        /\ cm_queue'[Len(cm_queue) + 1] = entry
    BY <1>2, TaskPushed
  <2>2. Queued(k)' = Queued(k)
    BY <2>1 DEF Queued
  <2>3. \A i \in Queued(k) : cm_queue'[i] = cm_queue[i]
    BY <2>1 DEF Queued
  <2> QED BY <2>2, <2>3 DEF Latest
<1> QED BY <1>1, <1>2

(* A task with pixel k there.                                              *)
LEMMA PushedWith ==
  ASSUME TaskSeq, NEW entry, NEW k, cm_queue' = Pushed(cm_queue, entry), HasRoom(cm_queue),
         entry.type = "TASK_BROADCAST", k \in DOMAIN entry.data
  PROVE  Queued(k)' # {} /\ Latest(k, entry.data[k])'
<1>1. /\ Len(cm_queue) \in Nat /\ DOMAIN cm_queue' = 1 .. Len(cm_queue) + 1
      /\ cm_queue'[Len(cm_queue) + 1] = entry
  BY TaskPushed
<1>2. Len(cm_queue) + 1 \in Queued(k)' /\ \A j \in Queued(k)' : j <= Len(cm_queue) + 1
  BY <1>1 DEF Queued
<1> QED BY <1>1, <1>2 DEF Latest

(* The oldest task is taken.                                               *)
LEMMA TaskTaken ==
  ASSUME TaskSeq, cm_queue # <<>>, cm_queue' = Tail(cm_queue), NEW k
  PROVE  /\ 1 \in Queued(k) <=> /\ Head(cm_queue).type = "TASK_BROADCAST"
                                /\ k \in DOMAIN Head(cm_queue).data
         /\ Queued(k)' = {} <=> Queued(k) \subseteq {1}
         /\ Queued(k)' # {} => \A v : Latest(k, v) => Latest(k, v)'
         /\ Queued(k)' = {} => \A v : Latest(k, v) => 1 \in Queued(k) /\ Head(cm_queue).data[k] = v
<1> PICK S : cm_queue \in Seq(S)
  BY DEF TaskSeq
<1> DEFINE N == Len(cm_queue)
<1>1. /\ N \in Nat \ {0} /\ DOMAIN cm_queue = 1 .. N /\ DOMAIN cm_queue' = 1 .. N - 1
      /\ \A i \in 1 .. N - 1 : cm_queue'[i] = cm_queue[i + 1]
      /\ Head(cm_queue) = cm_queue[1]
  <2>1. cm_queue' \in Seq(S) /\ Len(cm_queue') = N - 1 /\ \A i \in 1 .. N - 1 : cm_queue'[i] = cm_queue[i + 1]
    BY HeadTailProperties
  <2>2. N \in Nat /\ N # 0 /\ Head(cm_queue) = cm_queue[1]
    BY EmptySeq
  <2> QED BY <2>1, <2>2, LenProperties
<1> HIDE DEF N
<1>2. 1 \in Queued(k) <=> Head(cm_queue).type = "TASK_BROADCAST" /\ k \in DOMAIN Head(cm_queue).data
  BY <1>1 DEF Queued
<1>3. Queued(k) \subseteq 1 .. N /\ Queued(k)' \subseteq 1 .. N - 1
  BY <1>1 DEF Queued
<1>4. \A i \in 1 .. N - 1 : i \in Queued(k)' <=> i + 1 \in Queued(k)
  BY <1>1 DEF Queued
<1>5. \A i \in Queued(k) : i # 1 => i - 1 \in Queued(k)'
  <2> TAKE i \in Queued(k)
  <2> HAVE i # 1
  <2>1. i - 1 \in 1 .. N - 1 /\ (i - 1) + 1 = i
    BY <1>1, <1>3
  <2> QED BY <1>4, <2>1
<1>6. Queued(k)' = {} <=> Queued(k) \subseteq {1}
  <2>1. ASSUME NEW i \in Queued(k)' PROVE ~(Queued(k) \subseteq {1})
    <3>1. i \in 1 .. N - 1 /\ i + 1 # 1 /\ i + 1 \in Queued(k)
      BY <1>1, <1>3, <1>4
    <3> QED BY <3>1
  <2> QED BY <1>5, <2>1
<1>7. ASSUME NEW v, Latest(k, v), Queued(k)' # {} PROVE Latest(k, v)'
  <2>1. PICK i \in Queued(k) : (\A j \in Queued(k) : j <= i) /\ cm_queue[i].data[k] = v
    BY <1>7 DEF Latest
  <2>2. i # 1
    <3>1. PICK j \in Queued(k) : j # 1
      BY <1>6, <1>7
    <3>2. j \in 1 .. N /\ j <= i /\ i \in 1 .. N
      BY <1>3, <2>1
    <3> QED BY <1>1, <3>1, <3>2
  <2>3. i - 1 \in Queued(k)' /\ i - 1 \in 1 .. N - 1 /\ (i - 1) + 1 = i
    BY <1>1, <1>3, <1>5, <2>2
  <2>4. cm_queue'[i - 1] = cm_queue[i]
    BY <1>1, <2>3
  <2>5. \A j \in Queued(k)' : j <= i - 1
    <3> TAKE j \in Queued(k)'
    <3>1. j \in 1 .. N - 1 /\ j + 1 \in Queued(k)
      BY <1>3, <1>4
    <3>2. j + 1 <= i /\ i \in 1 .. N
      BY <1>3, <2>1, <3>1
    <3> QED BY <1>1, <3>1, <3>2
  <2> QED BY <2>1, <2>3, <2>4, <2>5 DEF Latest
<1>8. ASSUME NEW v, Latest(k, v), Queued(k)' = {} PROVE 1 \in Queued(k) /\ Head(cm_queue).data[k] = v
  <2>1. PICK i \in Queued(k) : cm_queue[i].data[k] = v
    BY <1>8 DEF Latest
  <2>2. i = 1
    BY <1>6, <1>8
  <2> QED BY <1>1, <2>1, <2>2
<1> QED BY <1>2, <1>6, <1>7, <1>8

-----------------------------------------------------------------------------
(***************************************************************************)
(* What clients are told.                                                  *)
(***************************************************************************)
Settled(k) == k \in (1 .. Cells) \ lost /\ k \notin DOMAIN modified
Unsent(k) == Settled(k) /\ Queued(k) = {}
Comes(n, k) == mgr.pc = "walk" /\ n \in Behind(mgr.at) /\ k \in DOMAIN mgr.msg

InMap == \A k \in DOMAIN modified \cap (1 .. Cells) : modified[k] = pixels[k]
InTasks == \A k : Settled(k) /\ Queued(k) # {} => Latest(k, pixels[k])
InWalk == \A k : Unsent(k) /\ mgr.pc = "walk" /\ k \in DOMAIN mgr.msg => mgr.msg[k] = pixels[k]
InTold == \A n \in Listed : \A k :
            Unsent(k) /\ ~Comes(n, k) /\ wire[ConnOf(n)] = "open" /\ told[ConnOf(n)][k] # Null
              => told[ConnOf(n)][k] = pixels[k]

Current == TaskSeq /\ InMap /\ InTasks /\ InWalk /\ InTold

LEMMA CurrentTold == ASSUME Current PROVE ToldInSync
<1> SUFFICES ASSUME NEW n \in Listed, NEW k \in (1 .. Cells) \ lost,
                    wire[ConnOf(n)] = "open", told[ConnOf(n)][k] # Null
             PROVE  Newest(n, k) = pixels[k]
  BY DEF ToldInSync
<1>1. CASE k \in DOMAIN modified
  BY <1>1 DEF Newest, Current, InMap
<1>2. CASE k \notin DOMAIN modified /\ Queued(k) # {}
  <2>1. Latest(k, pixels[k])
    BY <1>2 DEF Current, InTasks, Settled
  <2>2. PICK S : cm_queue \in Seq(S)
    BY DEF Current, TaskSeq
  <2>3. PICK i \in Queued(k) : (\A j \in Queued(k) : j <= i) /\ cm_queue[i].data[k] = pixels[k]
    BY <2>1 DEF Latest
  <2>4. Queued(k) \subseteq 1 .. Len(cm_queue) /\ Len(cm_queue) \in Nat
    BY <2>2, LenProperties DEF Queued
  <2>5. \A x \in Queued(k) : (\A j \in Queued(k) : j <= x) => x = i
    BY <2>3, <2>4
  <2>6. (CHOOSE x \in Queued(k) : \A j \in Queued(k) : j <= x) = i
    BY <2>3, <2>5
  <2> QED BY <1>2, <2>3, <2>6 DEF Newest
<1>3. CASE k \notin DOMAIN modified /\ Queued(k) = {}
  <2>1. CASE mgr.pc = "walk" /\ n \in Behind(mgr.at) /\ k \in DOMAIN mgr.msg
    BY <1>3, <2>1 DEF Newest, Current, InWalk, Unsent, Settled
  <2>2. CASE ~(mgr.pc = "walk" /\ n \in Behind(mgr.at) /\ k \in DOMAIN mgr.msg)
    BY <1>3, <2>2 DEF Newest, Current, InTold, Unsent, Settled, Comes
  <2> QED BY <2>1, <2>2
<1> QED BY <1>1, <1>2, <1>3

(* Steps that change neither colors nor the list, and tell nobody anything. *)
SameWire == \A n \in Listed : wire'[ConnOf(n)] = "open" => wire[ConnOf(n)] = "open"
SameWalk == \/ UNCHANGED <<mgr.pc, mgr.at, mgr.msg>>
            \/ mgr.pc # "walk" /\ mgr'.pc # "walk"
            \/ mgr.pc = "walk" /\ mgr.at = Null /\ mgr'.pc # "walk"

LEMMA CurrentSame ==
  ASSUME Basic, List, Current, SameList, UNCHANGED <<pixels, modified, lost, told>>, SameTasks, SameWire,
         SameWalk, TaskSeq'
  PROVE  Current'
<1>1. \A k : (Settled(k)' <=> Settled(k)) /\ (Unsent(k)' <=> Unsent(k))
  BY DEF Settled, Unsent, SameTasks
<1>2. InMap'
  BY DEF Current, InMap
<1>3. InTasks'
  <2> SUFFICES ASSUME NEW k, Settled(k)', Queued(k)' # {} PROVE Latest(k, pixels[k])'
    BY DEF InTasks
  <2>1. Latest(k, pixels[k])
    BY <1>1 DEF Current, InTasks, SameTasks
  <2> PICK v : v = pixels[k]
    OBVIOUS
  <2>2. Latest(k, v)'
    BY <2>1 DEF SameTasks
  <2> QED BY <2>2 DEF Latest
<1>4. InWalk'
  BY <1>1 DEF Current, InWalk, SameWalk
<1>5. ASSUME NEW n \in Listed, NEW k PROVE Comes(n, k) => Comes(n, k)'
  <2>1. CASE mgr.pc = "walk" /\ mgr.at = Null
    BY <2>1, BehindNull DEF Comes
  <2>2. CASE UNCHANGED <<mgr.pc, mgr.at, mgr.msg>> /\ mgr.pc = "walk"
    <3> PICK a : a = mgr.at
      OBVIOUS
    <3>1. a \in used \cup {Null}
      BY <2>2, ListedUsed DEF List, Walking
    <3>2. Behind(a)' = Behind(a)
      BY <3>1 DEF SameList
    <3>3. Behind(mgr.at)' = Behind(a)'
      BY <2>2 DEF Behind
    <3> QED BY <2>2, <3>2, <3>3 DEF Comes
  <2> QED BY <2>1, <2>2 DEF Comes, SameWalk
<1>6. InTold'
  BY <1>1, <1>5 DEF Current, InTold, SameList, SameWire
<1> QED BY <1>2, <1>3, <1>4, <1>6 DEF Current

LEMMA TasksSame == ASSUME UNCHANGED cm_queue PROVE SameTasks
BY DEF SameTasks, Queued, Latest

LEMMA CurrentOthers ==
  ASSUME Basic, List, Current, CalmLoop \/ Clock \/ UNCHANGED listServerVars
                               \/ (Clients /\ \E c \in Conns : Connect(c) \/ ClientSend(c))
  PROVE  Current'
<1>1. SameList
  BY OthersList
<1>2. UNCHANGED <<pixels, modified, lost, told, wire, mgr>>
  BY DEF CalmLoop, EpollWait, AcceptEvent, RecvEvent, Clock, Clients, Connect, ClientSend, canvasVars,
     sockVars, listServerVars
<1>3. CASE AcceptEvent
  <2>1. PICK entry : entry = [type |-> "TASK_NEW_CLIENT"]
    OBVIOUS
  <2>2. cm_queue' = Pushed(cm_queue, entry) /\ entry.type # "TASK_BROADCAST"
    BY <1>3, <2>1 DEF AcceptEvent
  <2>3. SameTasks /\ TaskSeq'
    BY <2>2, PushedWithout, TasksKept DEF Current, SameTasks
  <2> QED BY <1>1, <1>2, <2>3, CurrentSame DEF SameWire, SameWalk
<1>4. CASE UNCHANGED cm_queue
  BY <1>1, <1>2, <1>4, TasksSame, TasksKept, CurrentSame DEF SameWire, SameWalk, Current
<1> QED BY <1>3, <1>4 DEF CalmLoop, EpollWait, RecvEvent, Clock, Clients, Connect, ClientSend, listServerVars


LEMMA CurrentManager ==
  ASSUME Basic, List, Current, Manager, TakeNewClient \/ Accept \/ Register \/ Insert \/ WalkEnds
  PROVE  Current'
<1>1. SameList
  <2>1. Insert \/ (~Insert /\ ~Publish /\ ~Walk)
    BY DEF TakeNewClient, Accept, Register, WalkEnds, Insert, Publish, Walk, Send
  <2> QED BY <2>1, ManagerList, InsertList
<1>2. UNCHANGED <<pixels, modified, lost, told>>
  BY DEF TakeNewClient, Accept, Register, Insert, WalkEnds, canvasVars
<1>3. SameWalk
  BY DEF TakeNewClient, Accept, Register, Insert, WalkEnds, SameWalk, Basic, NetInv, Shapes
<1>4. SameWire
  <2>1. CASE Accept
    <3> SUFFICES ASSUME NEW n \in Listed, wire' = [wire EXCEPT ![Head(backlog)] = "open"], backlog # <<>>
                 PROVE  wire'[ConnOf(n)] = wire[ConnOf(n)]
      BY <2>1 DEF Accept, SameWire
    <3>1. n \in used /\ node[n].fd \in Fds /\ ConnOf(n) \in Conns
      BY ListedUsed DEF List, OwnNodes, ConnOf
    <3>2. Registered(ConnOf(n))
      BY <3>1 DEF Registered, ConnOf
    <3>3. Head(backlog) \in Conns /\ ~Registered(Head(backlog))
      <4>1. backlog \in Seq(Conns)
        BY DEF Basic, NetInv, Backlog
      <4>2. Head(backlog) = backlog[1] /\ 1 \in 1 .. Len(backlog)
        BY <4>1, EmptySeq
      <4>3. Head(backlog) \in Conns
        BY <4>1, <4>2
      <4> QED BY <4>2, <4>3 DEF Basic, NetInv, Backlog, Waits
    <3> QED BY <3>1, <3>2, <3>3
  <2>2. CASE UNCHANGED wire
    BY <2>2 DEF SameWire
  <2> QED BY <2>1, <2>2 DEF TakeNewClient, Register, Insert, WalkEnds, sockVars
<1>5. SameTasks /\ TaskSeq'
  <2>1. CASE TakeNewClient
    <3>1. cm_queue # <<>> /\ cm_queue' = Tail(cm_queue) /\ Head(cm_queue).type # "TASK_BROADCAST"
      BY <2>1 DEF TakeNewClient
    <3>2. ASSUME NEW k PROVE /\ Queued(k)' = {} <=> Queued(k) = {}
                             /\ \A v : Latest(k, v) => Latest(k, v)'
      <4>1. 1 \notin Queued(k) /\ (Queued(k)' = {} <=> Queued(k) \subseteq {1})
        BY <3>1, TaskTaken DEF Current
      <4>2. Queued(k)' = {} <=> Queued(k) = {}
        BY <4>1
      <4>3. ASSUME NEW v, Latest(k, v) PROVE Latest(k, v)'
        <5>1. Queued(k)' # {}
          BY <4>2, <4>3 DEF Latest
        <5> QED BY <3>1, <4>3, <5>1, TaskTaken DEF Current
      <4> QED BY <4>2, <4>3
    <3> QED BY <3>1, <3>2, TasksKept DEF SameTasks, Current
  <2>2. CASE UNCHANGED cm_queue
    BY <2>2, TasksSame, TasksKept DEF Current
  <2> QED BY <2>1, <2>2 DEF Accept, Register, Insert, WalkEnds
<1> QED BY <1>1, <1>2, <1>3, <1>4, <1>5, CurrentSame

(* The new client was told nothing yet.                                    *)
LEMMA CurrentPublish == ASSUME Basic, List, Current, Publish PROVE Current'
<1>1. /\ UNCHANGED <<pixels, modified, lost, told, wire, cm_queue, node, fds>>
      /\ mgr.pc = "publish" /\ mgr'.pc = "pop"
  BY DEF Publish, canvasVars, sockVars, Basic, NetInv, Shapes
<1>2. Listed' = Listed \cup {mgr.at} /\ \A k \in 1 .. Cells : told[ConnOf(mgr.at)][k] = Null
  BY PublishList
<1>3. \A k : /\ Queued(k)' = Queued(k) /\ (Settled(k)' <=> Settled(k)) /\ (Unsent(k)' <=> Unsent(k))
             /\ \A v : Latest(k, v)' <=> Latest(k, v)
  BY <1>1 DEF Queued, Settled, Unsent, Latest
<1>4. TaskSeq' /\ InMap' /\ InWalk'
  BY <1>1 DEF Current, TaskSeq, InMap, InWalk
<1>5. InTasks'
  BY <1>1, <1>3 DEF Current, InTasks, Settled, Latest, Queued
<1>6. InTold'
  <2> SUFFICES ASSUME NEW n \in Listed \cup {mgr.at}, NEW k, Unsent(k),
                      wire[ConnOf(n)] = "open", told[ConnOf(n)][k] # Null
               PROVE  told[ConnOf(n)][k] = pixels[k]
    BY <1>1, <1>2, <1>3 DEF InTold, ConnOf
  <2>1. n \in Listed
    BY <1>2 DEF Unsent, Settled
  <2> QED BY <1>1, <2>1 DEF Current, InTold, Comes
<1> QED BY <1>4, <1>5, <1>6 DEF Current

LEMMA CurrentTaken == ASSUME Basic, List, Current, Manager, TakeBroadcast PROVE Current'
<1>1. /\ UNCHANGED <<pixels, modified, lost, told, wire>> /\ mgr.pc = "pop"
      /\ cm_queue # <<>> /\ cm_queue' = Tail(cm_queue) /\ Head(cm_queue).type = "TASK_BROADCAST"
      /\ mgr'.pc = "walk" /\ mgr'.at = head /\ mgr'.msg = Head(cm_queue).data /\ head' = head
  BY DEF TakeBroadcast, canvasVars, sockVars, listVars, Basic, NetInv, Shapes
<1>2. SameList
  <2>1. ~Insert /\ ~Publish /\ ~Walk
    BY <1>1 DEF Insert, Publish, Walk, Send
  <2> QED BY <2>1, ManagerList
<1>3. \A k : Settled(k)' <=> Settled(k)
  BY <1>1 DEF Settled
<1> PICK first : first = Head(cm_queue)
  OBVIOUS
<1>4. ASSUME NEW k
      PROVE  /\ 1 \in Queued(k) <=> k \in DOMAIN first.data
             /\ Queued(k)' = {} <=> Queued(k) \subseteq {1}
             /\ Queued(k)' # {} => \A v : Latest(k, v) => Latest(k, v)'
             /\ Queued(k)' = {} => \A v : Latest(k, v) => 1 \in Queued(k) /\ first.data[k] = v
  BY <1>1, TaskTaken DEF Current
<1>5. TaskSeq' /\ InMap'
  BY <1>1, TasksKept DEF Current, InMap
<1>6. InTasks'
  <2> SUFFICES ASSUME NEW k, Settled(k)', Queued(k)' # {} PROVE Latest(k, pixels[k])'
    BY DEF InTasks
  <2> PICK v : v = pixels[k]
    OBVIOUS
  <2>1. Latest(k, v)
    BY <1>3, <1>4 DEF Current, InTasks
  <2>2. Latest(k, v)'
    BY <1>4, <2>1
  <2> QED BY <1>1, <2>2 DEF Latest
<1>7. InWalk'
  <2> SUFFICES ASSUME NEW k, Settled(k), Queued(k)' = {}, k \in DOMAIN first.data PROVE first.data[k] = pixels[k]
    BY <1>1, <1>3 DEF InWalk, Unsent
  <2>1. Latest(k, pixels[k])
    BY <1>4 DEF Current, InTasks
  <2> QED BY <1>4, <2>1
<1>8. InTold'
  <2> SUFFICES ASSUME NEW n \in Listed', NEW k, Settled(k), Queued(k)' = {}, ~Comes(n, k)',
                      wire[ConnOf(n)] = "open", told[ConnOf(n)][k] # Null
               PROVE  told[ConnOf(n)][k] = pixels[k]
    BY <1>1, <1>2, <1>3 DEF InTold, Unsent, SameList
  <2>1. n \in Behind(mgr.at)'
    BY <1>1 DEF Listed, Behind
  <2>2. k \notin DOMAIN first.data
    BY <1>1, <2>1 DEF Comes
  <2>3. Unsent(k)
    BY <1>4, <2>2 DEF Unsent
  <2>4. n \in Listed
    BY <1>2 DEF SameList
  <2> QED BY <1>1, <2>3, <2>4 DEF Current, InTold, Comes
<1> QED BY <1>5, <1>6, <1>7, <1>8 DEF Current


LEMMA CurrentWalk == ASSUME Basic, List, Current, Walk PROVE Current'
<1> PICK a : a = mgr.at
  OBVIOUS
<1> PICK next : next = node[a].next
  OBVIOUS
<1> PICK msg : msg = mgr.msg
  OBVIOUS
<1> PICK c : c = ConnOf(a)
  OBVIOUS
<1>1. /\ UNCHANGED <<pixels, modified, lost, cm_queue>> /\ mgr.pc = "walk" /\ a # Null
      /\ mgr'.pc = "walk" /\ mgr'.at = next /\ mgr'.msg = msg
  BY DEF Walk, Send, canvasVars, Basic, NetInv, Shapes
<1>2. \/ /\ told' = [told EXCEPT ![c] = Overlaid(told[c], msg)]
         /\ wire' = wire
      \/ /\ told' = told
         /\ wire' = IF c \in Conns THEN [wire EXCEPT ![c] = "broken"] ELSE wire
  BY DEF Walk, Send, ConnOf
<1>3. SameList
  BY WalkList
<1>4. a \in Listed /\ a \in used /\ a \in Nodes /\ next \in used \cup {Null} /\ c \in Conns
  BY <1>1, ListedUsed DEF List, Walking, OwnNodes, ConnOf, Basic, Memory, Addresses
<1>5. Behind(a) = {a} \cup Behind(next)
  BY <1>4, BehindNext
<1>6. Behind(mgr.at)' = Behind(next)
  <2>1. Behind(mgr.at)' = Behind(next)'
    BY <1>1 DEF Behind
  <2> QED BY <1>3, <1>4, <2>1 DEF SameList
<1>7. \A k : /\ Queued(k)' = Queued(k) /\ (Settled(k)' <=> Settled(k)) /\ (Unsent(k)' <=> Unsent(k))
             /\ \A v : Latest(k, v)' <=> Latest(k, v)
  BY <1>1 DEF Queued, Settled, Unsent, Latest
<1>8. TaskSeq' /\ InMap' /\ InWalk'
  BY <1>1, <1>7 DEF Current, TaskSeq, InMap, InWalk
<1>9. InTasks'
  BY <1>1, <1>7 DEF Current, InTasks, Settled, Latest, Queued
<1>10. InTold'
  <2> SUFFICES ASSUME NEW n \in Listed, NEW k, Unsent(k), ~Comes(n, k)',
                      wire'[ConnOf(n)] = "open", told'[ConnOf(n)][k] # Null
               PROVE  told'[ConnOf(n)][k] = pixels[k]
    BY <1>1, <1>3, <1>7 DEF InTold, SameList
  <2>1. ConnOf(n) \in Conns /\ k \in 1 .. Cells
    BY ListedUsed DEF List, OwnNodes, ConnOf, Unsent, Settled
  <2>2. wire[ConnOf(n)] = "open"
    BY <1>2, <2>1 DEF Basic, NetInv, Shapes
  <2>3. CASE ConnOf(n) = c /\ told' = [told EXCEPT ![c] = Overlaid(told[c], msg)] /\ k \in DOMAIN msg
    <3>1. told'[ConnOf(n)][k] = msg[k]
      BY <2>1, <2>3 DEF Overlaid, List, ToldListed
    <3> QED BY <1>1, <2>3, <3>1 DEF Current, InWalk
  <2>4. CASE k \notin DOMAIN msg
    <3>1. DOMAIN told = Conns /\ Overlaid(told[c], msg)[k] = told[c][k]
      BY <2>1, <2>4 DEF Overlaid, List, ToldListed
    <3>2. told'[ConnOf(n)][k] = told[ConnOf(n)][k]
      BY <1>2, <2>1, <3>1
    <3> QED BY <2>2, <2>4, <3>2 DEF Current, InTold, Comes
  <2>5. CASE /\ k \in DOMAIN msg
             /\ ~(ConnOf(n) = c /\ told' = [told EXCEPT ![c] = Overlaid(told[c], msg)])
    <3>1. told'[ConnOf(n)] = told[ConnOf(n)]
      BY <1>2, <2>1, <2>5 DEF List, ToldListed
    <3>2. n # a
      <4> SUFFICES ASSUME n = a PROVE FALSE
        OBVIOUS
      <4>1. wire' = [wire EXCEPT ![c] = "broken"] /\ ConnOf(n) = c
        BY <1>2, <1>4, <2>5
      <4> QED BY <2>1, <4>1 DEF Basic, NetInv, Shapes
    <3>3. n \notin Behind(next)
      BY <1>1, <1>6, <2>5 DEF Comes
    <3>4. ~Comes(n, k)
      BY <1>5, <3>2, <3>3 DEF Comes
    <3> QED BY <2>2, <3>1, <3>4 DEF Current, InTold
  <2> QED BY <2>3, <2>4, <2>5
<1> QED BY <1>8, <1>9, <1>10 DEF Current

(* The canvas: what is drawn is in the map, in a task, or lost.            *)
LEMMA CurrentDrawn == ASSUME Basic, List, Current, CanvasTask PROVE Current'
<1> PICK drawn : drawn = Drawn(Head(canvas_queue).data)
  OBVIOUS
<1> PICK map : map = Recolored(drawn)
  OBVIOUS
<1>1. UNCHANGED <<told, wire, mgr, head, node, fds, used>>
  BY DEF CanvasTask, sockVars, listVars
<1>2. pixels' = Overlaid(pixels, drawn)
  BY DEF CanvasTask
<1>3. SameList
  BY OthersList
<1>4. /\ DOMAIN map = DOMAIN modified \cup DOMAIN drawn
      /\ \A k \in DOMAIN map : map[k] = IF k \in DOMAIN drawn THEN drawn[k] ELSE modified[k]
  BY DEF Recolored
<1>5. \A k \in 1 .. Cells : /\ k \in DOMAIN map => map[k] = pixels'[k]
                            /\ k \notin DOMAIN map => pixels'[k] = pixels[k]
  BY <1>2, <1>4 DEF Overlaid, Current, InMap
<1>6. \/ modified' = map /\ UNCHANGED <<cm_queue, lost>>
      \/ /\ cm_queue' = Pushed(cm_queue, [type |-> "TASK_BROADCAST", data |-> map])
         /\ lost' = IF HasRoom(cm_queue) THEN lost \ DOMAIN map ELSE lost \cup DOMAIN map
         /\ modified' = <<>>
  BY DEF CanvasTask, BroadcastUpdates
<1> PICK entry : entry = [type |-> "TASK_BROADCAST", data |-> map]
  OBVIOUS
<1>7. DOMAIN << >> = {}
  OBVIOUS
<1>8. TaskSeq'
  BY <1>6, TasksKept DEF Current
<1>9. InMap'
  BY <1>5, <1>6, <1>7 DEF InMap
<1>10. ASSUME NEW k, Settled(k)'
       PROVE  /\ k \in 1 .. Cells
              /\ \/ Queued(k)' # {} /\ \E v : v = pixels'[k] /\ Latest(k, v)'
                 \/ /\ Settled(k) /\ pixels'[k] = pixels[k] /\ Queued(k)' = Queued(k)
                    /\ \A v : Latest(k, v) => Latest(k, v)'
  <2>1. k \in 1 .. Cells /\ k \notin lost' /\ k \notin DOMAIN modified'
    BY <1>10 DEF Settled
  <2>2. CASE modified' = map /\ UNCHANGED <<cm_queue, lost>>
    BY <1>4, <1>5, <2>1, <2>2 DEF Settled, Queued, Latest
  <2>3. CASE /\ cm_queue' = Pushed(cm_queue, entry) /\ k \notin DOMAIN map
             /\ lost' = IF HasRoom(cm_queue) THEN lost \ DOMAIN map ELSE lost \cup DOMAIN map
    <3>1. Settled(k) /\ pixels'[k] = pixels[k]
      BY <1>4, <1>5, <2>1, <2>3 DEF Settled
    <3>2. entry.type = "TASK_BROADCAST" => k \notin DOMAIN entry.data
      BY <2>3
    <3>3. Queued(k)' = Queued(k) /\ \A v : Latest(k, v) => Latest(k, v)'
      BY <2>3, <3>2, PushedWithout DEF Current
    <3> QED BY <2>1, <3>1, <3>3
  <2>4. CASE /\ cm_queue' = Pushed(cm_queue, entry) /\ k \in DOMAIN map
             /\ lost' = IF HasRoom(cm_queue) THEN lost \ DOMAIN map ELSE lost \cup DOMAIN map
    <3>1. HasRoom(cm_queue)
      BY <2>1, <2>4
    <3>2. entry.type = "TASK_BROADCAST" /\ k \in DOMAIN entry.data /\ entry.data[k] = pixels'[k]
      BY <1>5, <2>1, <2>4
    <3> PICK v : v = entry.data[k]
      OBVIOUS
    <3>3. Queued(k)' # {} /\ Latest(k, v)'
      BY <2>4, <3>1, <3>2, PushedWith DEF Current
    <3> QED BY <2>1, <3>2, <3>3
  <2> QED BY <1>6, <2>2, <2>3, <2>4
<1>11. InTasks'
  <2> SUFFICES ASSUME NEW k, Settled(k)', Queued(k)' # {} PROVE Latest(k, pixels[k])'
    BY DEF InTasks
  <2>1. ASSUME NEW v, v = pixels'[k], Latest(k, v)' PROVE Latest(k, pixels[k])'
    BY <2>1 DEF Latest
  <2>2. CASE /\ Settled(k) /\ pixels'[k] = pixels[k] /\ Queued(k)' = Queued(k)
             /\ \A v : Latest(k, v) => Latest(k, v)'
    <3> PICK v : v = pixels[k]
      OBVIOUS
    <3>1. Latest(k, v)
      BY <2>2 DEF Current, InTasks
    <3>2. Latest(k, v)'
      BY <2>2, <3>1
    <3> QED BY <2>2, <3>2 DEF Latest
  <2> QED BY <1>10, <2>1, <2>2
<1>12. ASSUME NEW k, Unsent(k)' PROVE Unsent(k) /\ pixels'[k] = pixels[k]
  BY <1>10, <1>12 DEF Unsent
<1>13. InWalk'
  BY <1>1, <1>12 DEF Current, InWalk
<1>14. InTold'
  <2> SUFFICES ASSUME NEW n \in Listed, NEW k, Unsent(k)', ~Comes(n, k)',
                      wire[ConnOf(n)] = "open", told[ConnOf(n)][k] # Null
               PROVE  told[ConnOf(n)][k] = pixels'[k]
    BY <1>1, <1>3 DEF InTold, SameList
  <2>1. ~Comes(n, k)
    BY <1>1 DEF Comes, Behind, Chain
  <2> QED BY <1>12, <2>1 DEF Current, InTold
<1> QED BY <1>8, <1>9, <1>11, <1>13, <1>14 DEF Current

Staying == Stays => Calm /\ List /\ Current

LEMMA InitStaying == ListInit => Staying
<1> SUFFICES ASSUME ListInit PROVE Calm /\ List /\ Current
  BY DEF Staying
<1> USE DEF ListInit, initClientManager, init_canvas, NetInit
<1>1. Calm
  BY DEF Calm, Gone
<1>2. head = Null /\ Listed = {}
  BY BehindNull DEF Listed
<1>3. List
  BY <1>2 DEF List, OwnNodes, NewNode, Walking, ToldListed
<1>4. TaskSeq /\ Len(cm_queue) = 0 /\ \A k : Queued(k) = {}
  BY DEF TaskSeq, Queued
<1>5. Current
  BY <1>2, <1>4 DEF Current, InMap, InTasks, InWalk, InTold
<1> QED BY <1>1, <1>3, <1>5

LEMMA StayingStep == Basic /\ Removal /\ Staying /\ [ListNext]_listServerVars => Staying'
<1> SUFFICES ASSUME Basic, Removal, Staying, [ListNext]_listServerVars, Stays PROVE Calm' /\ List' /\ Current'
  BY WorldKept, StaysAlways DEF Staying
<1>1. Calm /\ List /\ Current
  BY DEF Staying
<1>2. /\ Calm'
      /\ CalmLoop \/ Manager \/ CanvasTask \/ Clock \/ UNCHANGED listServerVars
         \/ (Clients /\ \E c \in Conns : Connect(c) \/ ClientSend(c))
  BY <1>1, CalmStep
<1>3. CASE Manager
  <2>1. List'
    BY <1>1, <1>3, ManagerList, InsertList, PublishList, WalkList
  <2>2. Current'
    BY <1>1, <1>3, CurrentManager, CurrentPublish, CurrentTaken, CurrentWalk DEF Manager
  <2> QED BY <1>2, <2>1, <2>2
<1>4. CASE \/ CalmLoop \/ CanvasTask \/ Clock \/ UNCHANGED listServerVars
           \/ (Clients /\ \E c \in Conns : Connect(c) \/ ClientSend(c))
  <2>1. List'
    BY <1>1, <1>4, OthersList
  <2>2. Current'
    BY <1>1, <1>4, CurrentOthers, CurrentDrawn
  <2> QED BY <1>2, <2>1, <2>2
<1> QED BY <1>2, <1>3, <1>4

LEMMA StayingTold == Staying => ToldInSync
<1>1. CASE Stays
  BY <1>1, CurrentTold DEF Staying
<1>2. CASE ~Stays
  BY <1>2 DEF Stays, ToldInSync
<1> QED BY <1>1, <1>2

(***************************************************************************)
(* ToldInSync, of the hash map, broadcast_updates, the task queue and the  *)
(* walk of broadcastClients (1.1v): while nobody leaves, what a listed     *)
(* client was told last of a pixel is what the canvas shows, or the color  *)
(* is on its way to it, unless the broadcast with it was dropped.          *)
(***************************************************************************)
THEOREM ClientsTold == ListSpec => []ToldInSync
<1>1. ListInit => Staying
  BY InitStaying
<1>2. Basic /\ Removal /\ Staying /\ [ListNext]_listServerVars => Staying'
  BY StayingStep
<1>3. Staying => ToldInSync
  BY StayingTold
<1> QED BY <1>1, <1>2, <1>3, RemovalInvariance, PTL DEF ListSpec


-----------------------------------------------------------------------------
(***************************************************************************)
(* Types.  Whatever clients send, only colors reach the canvas, the tasks  *)
(* and the clients: Drawn leaves out what is not one.                      *)
(***************************************************************************)
Places == /\ loop.pc \in {"wait", "event", "search", "unlink", "close", "free", "del"}
          /\ mgr.pc \in {"pop", "accept", "register", "insert", "publish", "walk"}

Streams == /\ world \in DOMAIN Worlds /\ DOMAIN sent = Conns
           /\ \A c \in Conns : sent[c] \in 0 .. Len(Script[c])
           /\ wire \in [Conns -> {"http", "open", "broken"}]

QueueBounds == /\ TaskSeq /\ \E S : canvas_queue \in Seq(S)
               /\ Len(cm_queue) < QueueSize /\ Len(canvas_queue) < QueueSize

TaskData == /\ \A i \in 1 .. Len(cm_queue) : cm_queue[i].type = "TASK_BROADCAST" => cm_queue[i].data \in Changes
            /\ \A i \in 1 .. Len(canvas_queue) : \E S : canvas_queue[i].data \in Seq(S)

ColorsKnown == /\ pixels \in [1 .. Cells -> Colors]
               /\ modified \in Changes /\ mgr.msg \in Changes
               /\ told \in [Conns -> [1 .. Cells -> Colors \cup {Null}]]

Types == Places /\ Streams /\ QueueBounds /\ TaskData /\ ColorsKnown

LEMMA ChangesAre ==
  ASSUME NEW f
  PROVE  f \in Changes <=> /\ f = [k \in DOMAIN f |-> f[k]] /\ DOMAIN f \subseteq 1 .. Cells
                           /\ \A k \in DOMAIN f : f[k] \in Colors
<1>1. ASSUME f \in Changes
      PROVE  f = [k \in DOMAIN f |-> f[k]] /\ DOMAIN f \subseteq 1 .. Cells /\ \A k \in DOMAIN f : f[k] \in Colors
  <2>1. PICK S \in SUBSET (1 .. Cells) : f \in [S -> Colors]
    BY <1>1 DEF Changes
  <2> QED BY <2>1
<1>2. ASSUME f = [k \in DOMAIN f |-> f[k]], DOMAIN f \subseteq 1 .. Cells, \A k \in DOMAIN f : f[k] \in Colors
      PROVE  f \in Changes
  <2>1. f \in [DOMAIN f -> Colors]
    BY <1>2
  <2>2. DOMAIN f \in SUBSET (1 .. Cells)
    BY <1>2
  <2> QED BY <2>1, <2>2 DEF Changes
<1> QED BY <1>1, <1>2

(* The objects of a segment, each with the color of the last one for its   *)
(* pixel.                                                                  *)
LEMMA DrawnColors ==
  ASSUME NEW S, NEW data \in Seq(S)
  PROVE  Drawn(data) \in Changes
<1> DEFINE Valid(object) == parse_pixel_json(object) /\ InRange(object) /\ is_valid_hex_color(object)
           objects == {k \in Objects(data) : Valid(data[k])}
           Final(at) == CHOOSE k \in objects : data[k].at = at /\ \A j \in objects : data[j].at = at => j <= k
           cells == {data[k].at : k \in objects}
<1>1. Drawn(data) = [at \in cells |-> data[Final(at)].color]
  BY DEF Drawn
<1>2. Len(data) \in Nat /\ objects \subseteq 1 .. Len(data)
  BY LenProperties DEF Objects
<1>3. \A k \in objects : data[k].at \in 1 .. Cells /\ data[k].color \in Colors
  BY DEF InRange, is_valid_hex_color
<1> HIDE DEF objects
<1>4. ASSUME NEW at \in cells PROVE Final(at) \in objects
  <2> DEFINE from == {Len(data) - k : k \in {j \in objects : data[j].at = at}}
  <2>1. from \in SUBSET Nat /\ from # {}
    BY <1>2, <1>4
  <2>2. PICK m \in from : \A j \in from : m <= j
    BY <2>1, Minimum
  <2>3. PICK k \in objects : data[k].at = at /\ m = Len(data) - k
    BY <2>2
  <2>4. \A j \in objects : data[j].at = at => j <= k
    <3> SUFFICES ASSUME NEW j \in objects, data[j].at = at PROVE j <= k
      OBVIOUS
    <3>1. m <= Len(data) - j
      BY <2>2
    <3> QED BY <1>2, <2>3, <3>1
  <2> HIDE DEF from
  <2> QED BY <2>3, <2>4
<1> HIDE DEF Final
<1>5. \A at \in cells : at \in 1 .. Cells /\ data[Final(at)].color \in Colors
  BY <1>3, <1>4
<1> HIDE DEF cells
<1> QED BY <1>1, <1>5, ChangesAre

LEMMA OverlaidColors ==
  ASSUME NEW T, NEW base \in [1 .. Cells -> T], NEW changes \in Changes
  PROVE  Overlaid(base, changes) \in [1 .. Cells -> T \cup Colors]
BY ChangesAre DEF Overlaid

LEMMA RecoloredColors ==
  ASSUME modified \in Changes, NEW changes \in Changes
  PROVE  Recolored(changes) \in Changes
<1>1. /\ DOMAIN Recolored(changes) = DOMAIN modified \cup DOMAIN changes
      /\ Recolored(changes) = [k \in DOMAIN Recolored(changes) |-> Recolored(changes)[k]]
      /\ \A k \in DOMAIN Recolored(changes) : Recolored(changes)[k] =
           IF k \in DOMAIN changes THEN changes[k] ELSE modified[k]
  BY DEF Recolored
<1>2. DOMAIN modified \subseteq 1 .. Cells /\ DOMAIN changes \subseteq 1 .. Cells
  BY ChangesAre
<1>3. /\ \A k \in DOMAIN modified : modified[k] \in Colors
      /\ \A k \in DOMAIN changes : changes[k] \in Colors
  BY ChangesAre
<1> QED BY <1>1, <1>2, <1>3, ChangesAre

(* A queue that grows at its end, or loses its head.                       *)
LEMMA QueuePushed ==
  ASSUME NEW S, NEW q \in Seq(S), Len(q) < QueueSize, NEW entry
  PROVE  LET p == Pushed(q, entry) IN
         /\ \E T : p \in Seq(T)
         /\ Len(p) < QueueSize
         /\ \A i \in 1 .. Len(p) : p[i] = entry \/ (i \in 1 .. Len(q) /\ p[i] = q[i])
<1> DEFINE T == S \cup {entry}
<1>1. q \in Seq(T) /\ Len(q) \in Nat /\ QueueSize \in Nat
  BY QueueSizeAssumption, LenProperties
<1>2. CASE HasRoom(q)
  <2>1. /\ Append(q, entry) \in Seq(T) /\ Len(Append(q, entry)) = Len(q) + 1
        /\ \A i \in 1 .. Len(q) : Append(q, entry)[i] = q[i]
        /\ Append(q, entry)[Len(q) + 1] = entry
    BY <1>1, AppendProperties
  <2>2. Pushed(q, entry) = Append(q, entry) /\ Len(q) + 1 < QueueSize
    BY <1>2 DEF Pushed, HasRoom
  <2> HIDE DEF T
  <2> QED BY <1>1, <2>1, <2>2
<1>3. CASE ~HasRoom(q)
  BY <1>1, <1>3 DEF Pushed
<1> QED BY <1>2, <1>3

LEMMA QueueTaken ==
  ASSUME NEW S, NEW q \in Seq(S), q # <<>>, Len(q) < QueueSize
  PROVE  /\ \E T : Tail(q) \in Seq(T)
         /\ Len(Tail(q)) < QueueSize
         /\ 1 \in 1 .. Len(q) /\ Head(q) = q[1]
         /\ \A i \in 1 .. Len(Tail(q)) : i + 1 \in 1 .. Len(q) /\ Tail(q)[i] = q[i + 1]
<1>1. Len(q) \in Nat \ {0} /\ QueueSize \in Nat /\ Head(q) = q[1]
  BY QueueSizeAssumption, EmptySeq
<1>2. Tail(q) \in Seq(S) /\ Len(Tail(q)) = Len(q) - 1 /\ \A i \in 1 .. Len(q) - 1 : Tail(q)[i] = q[i + 1]
  BY HeadTailProperties
<1> QED BY <1>1, <1>2


(* Steps that touch neither queues nor colors.                             *)
LEMMA QueuesSame ==
  ASSUME QueueBounds, TaskData, UNCHANGED <<cm_queue, canvas_queue>>
  PROVE  QueueBounds' /\ TaskData'
BY DEF QueueBounds, TaskSeq, TaskData

LEMMA ColorsSame ==
  ASSUME ColorsKnown, UNCHANGED <<pixels, modified, mgr.msg, told>>
  PROVE  ColorsKnown'
BY DEF ColorsKnown, Changes

LEMMA PlacesKept == ASSUME Basic, Places, [ListNext]_listServerVars PROVE Places'
<1> USE DEF Places
<1>1. DOMAIN loop = {"pc", "batch", "prev", "current"} /\ DOMAIN mgr = {"pc", "fd", "at", "msg"}
  BY DEF Basic, NetInv, Shapes
<1>2. CASE EpollWait \/ EndEvent \/ Search \/ Unlink \/ CloseClient \/ FreeNode
  <2>1. mgr' = mgr
    BY <1>2 DEF EpollWait, EndEvent, Search, Unlink, CloseClient, FreeNode
  <2>2. loop'.pc \in {"wait", "event", "search", "unlink", "close", "free", "del"}
    BY <1>1, <1>2 DEF EpollWait, EndEvent, Search, Unlink, CloseClient, FreeNode
  <2> QED BY <2>1, <2>2
<1>3. CASE AcceptEvent \/ RecvEvent \/ EpollDel
  BY <1>1, <1>3 DEF AcceptEvent, RecvEvent, EpollDel, NextEvent, Done
<1>4. CASE Manager
  <2>1. loop' = loop
    BY <1>4 DEF Manager, TakeNewClient, Accept, Register, Insert, Publish, TakeBroadcast, Walk, WalkEnds
  <2>2. mgr'.pc \in {"pop", "accept", "register", "insert", "publish", "walk"}
    BY <1>1, <1>4 DEF Manager, TakeNewClient, Accept, Register, Insert, Publish, TakeBroadcast, Walk, Send, WalkEnds
  <2> QED BY <2>1, <2>2
<1>5. CASE CanvasTask \/ Clock \/ Clients \/ UNCHANGED listServerVars
  BY <1>5 DEF CanvasTask, Clock, Clients, listServerVars
<1> QED BY <1>2, <1>3, <1>4, <1>5 DEF ListNext, EventLoop

LEMMA StreamsKept == ASSUME Basic, Streams, [ListNext]_listServerVars PROVE Streams'
<1>1. UNCHANGED world /\ Script' = Script
  BY WorldKept DEF Script
<1>2. CASE UNCHANGED <<sent, wire>>
  BY <1>1, <1>2 DEF Streams
<1>3. CASE Accept
  <2>1. UNCHANGED sent /\ (wire' = wire \/ (backlog # <<>> /\ wire' = [wire EXCEPT ![Head(backlog)] = "open"]))
    BY <1>3 DEF Accept
  <2> QED BY <1>1, <2>1 DEF Streams
<1>4. CASE Walk
  BY <1>1, <1>4 DEF Walk, Send, Streams
<1>5. CASE Clients
  <2> PICK c \in Conns : Client(c)
    BY <1>5 DEF Clients
  <2>1. CASE ClientSend(c)
    <3>1. Len(Script[c]) \in Nat
      BY SocketsAssumption, LenProperties DEF Streams, Script
    <3>2. sent' = [sent EXCEPT ![c] = sent[c] + 1] /\ sent[c] < Len(Script[c]) /\ UNCHANGED wire
      BY <2>1 DEF ClientSend
    <3>3. sent[c] + 1 \in 0 .. Len(Script[c])
      BY <3>1, <3>2 DEF Streams
    <3> QED BY <1>1, <3>2, <3>3 DEF Streams
  <2> QED BY <1>2, <2>1 DEF Client, Connect, ClientLeave, Ended
<1>6. CASE EventLoop \/ (Manager /\ ~Accept /\ ~Walk) \/ CanvasTask \/ Clock \/ UNCHANGED listServerVars
  BY <1>2, <1>6 DEF EventLoop, EpollWait, AcceptEvent, RecvEvent, EndEvent, Search, Unlink, CloseClient, FreeNode,
     EpollDel, Manager, TakeNewClient, Register, Insert, Publish, TakeBroadcast, WalkEnds, CanvasTask, Clock,
     sockVars, listServerVars
<1> QED BY <1>3, <1>4, <1>5, <1>6 DEF ListNext

(* What one recv brought is queued for the canvas.                         *)
LEMMA RecvTypes ==
  ASSUME Basic, Types, RecvEvent
  PROVE  QueueBounds' /\ TaskData'
<1> PICK c : c = fds[fd]
  OBVIOUS
<1> PICK n : n = IF Len(rx[c]) < RecvUnits THEN Len(rx[c]) ELSE RecvUnits
  OBVIOUS
<1> PICK entry : entry = [type |-> "TASK_PIXEL_UPDATE", data |-> SubSeq(rx[c], 1, n)]
  OBVIOUS
<1>1. c \in Conns /\ canvas_queue' = Pushed(canvas_queue, entry) /\ UNCHANGED cm_queue
  BY DEF RecvEvent, RecvResult
<1>2. \E S : entry.data \in Seq(S)
  <2>1. PICK S : rx[c] \in Seq(S)
    BY <1>1 DEF Basic, Unread
  <2>2. Len(rx[c]) \in Nat /\ n \in 1 - 1 .. Len(rx[c]) /\ 1 \in 1 .. Len(rx[c]) + 1
    BY <2>1, SharedListAssumption
  <2>3. SubSeq(rx[c], 1, n) \in Seq(S)
    BY <2>1, <2>2, SubSeqProperties
  <2> QED BY <2>3
<1>3. PICK S : canvas_queue \in Seq(S)
  BY DEF Types, QueueBounds
<1>4. /\ \E T : canvas_queue' \in Seq(T)
      /\ Len(canvas_queue') < QueueSize
      /\ \A i \in 1 .. Len(canvas_queue') :
           canvas_queue'[i] = entry \/ (i \in 1 .. Len(canvas_queue) /\ canvas_queue'[i] = canvas_queue[i])
  BY <1>1, <1>3, QueuePushed DEF Types, QueueBounds
<1> QED BY <1>1, <1>2, <1>4 DEF Types, QueueBounds, TaskData, TaskSeq

(* A task for the manager.                                                 *)
LEMMA PushTypes ==
  ASSUME QueueBounds, TaskData, NEW entry, cm_queue' = Pushed(cm_queue, entry), UNCHANGED canvas_queue,
         entry.type = "TASK_BROADCAST" => entry.data \in Changes
  PROVE  QueueBounds' /\ TaskData'
<1>1. PICK S : cm_queue \in Seq(S)
  BY DEF QueueBounds, TaskSeq
<1>2. /\ \E T : cm_queue' \in Seq(T)
      /\ Len(cm_queue') < QueueSize
      /\ \A i \in 1 .. Len(cm_queue') :
           cm_queue'[i] = entry \/ (i \in 1 .. Len(cm_queue) /\ cm_queue'[i] = cm_queue[i])
  BY <1>1, QueuePushed DEF QueueBounds
<1>3. \A f : f \in Changes' <=> f \in Changes
  BY DEF Changes
<1> QED BY <1>2, <1>3 DEF QueueBounds, TaskData, TaskSeq

LEMMA TakeTypes ==
  ASSUME QueueBounds, TaskData, cm_queue # <<>>, cm_queue' = Tail(cm_queue), UNCHANGED canvas_queue
  PROVE  /\ QueueBounds' /\ TaskData'
         /\ Head(cm_queue).type = "TASK_BROADCAST" => Head(cm_queue).data \in Changes
<1>1. PICK S : cm_queue \in Seq(S)
  BY DEF QueueBounds, TaskSeq
<1>2. /\ \E T : cm_queue' \in Seq(T)
      /\ Len(cm_queue') < QueueSize
      /\ 1 \in 1 .. Len(cm_queue) /\ Head(cm_queue) = cm_queue[1]
      /\ \A i \in 1 .. Len(cm_queue') : i + 1 \in 1 .. Len(cm_queue) /\ cm_queue'[i] = cm_queue[i + 1]
  BY <1>1, QueueTaken DEF QueueBounds
<1>3. \A f : f \in Changes' <=> f \in Changes
  BY DEF Changes
<1> QED BY <1>2, <1>3 DEF QueueBounds, TaskData, TaskSeq


LEMMA ManagerTypes ==
  ASSUME Basic, Types, Manager
  PROVE  QueueBounds' /\ TaskData' /\ ColorsKnown'
<1> USE DEF Types
<1>1. DOMAIN mgr = {"pc", "fd", "at", "msg"}
  BY DEF Basic, NetInv, Shapes
<1>2. CASE TakeNewClient \/ TakeBroadcast
  <2>1. cm_queue # <<>> /\ cm_queue' = Tail(cm_queue) /\ UNCHANGED <<canvas_queue, pixels, modified, told>>
    BY <1>2 DEF TakeNewClient, TakeBroadcast, canvasVars
  <2>2. mgr'.msg = mgr.msg \/ (mgr'.msg = Head(cm_queue).data /\ Head(cm_queue).type = "TASK_BROADCAST")
    BY <1>1, <1>2 DEF TakeNewClient, TakeBroadcast
  <2>3. /\ QueueBounds' /\ TaskData'
        /\ Head(cm_queue).type = "TASK_BROADCAST" => Head(cm_queue).data \in Changes
    BY <2>1, TakeTypes
  <2>4. mgr'.msg \in Changes
    BY <2>2, <2>3 DEF ColorsKnown
  <2>5. ColorsKnown'
    BY <2>1, <2>4 DEF ColorsKnown, Changes
  <2> QED BY <2>3, <2>5
<1>3. CASE Accept \/ Register \/ Insert \/ Publish
  <2>1. UNCHANGED <<cm_queue, canvas_queue, pixels, modified, told>>
    BY <1>3 DEF Accept, Register, Insert, Publish, canvasVars
  <2>2. mgr'.msg = mgr.msg
    BY <1>1, <1>3 DEF Accept, Register, Insert, Publish
  <2> QED BY <2>1, <2>2, QueuesSame, ColorsSame
<1>4. CASE WalkEnds
  <2>1. UNCHANGED <<cm_queue, canvas_queue, pixels, modified, told>> /\ mgr'.msg = <<>>
    BY <1>1, <1>4 DEF WalkEnds, canvasVars
  <2>2. << >> \in Changes
    <3>1. DOMAIN << >> = {} /\ << >> = [k \in {} |-> << >>[k]]
      OBVIOUS
    <3> QED BY <3>1, ChangesAre
  <2>3. ColorsKnown'
    BY <2>1, <2>2 DEF ColorsKnown, Changes
  <2> QED BY <2>1, <2>3, QueuesSame
<1>5. CASE Walk
  <2> PICK c : c = ConnOf(mgr.at)
    OBVIOUS
  <2>1. UNCHANGED <<cm_queue, canvas_queue, pixels, modified>> /\ mgr'.msg = mgr.msg
    BY <1>1, <1>5 DEF Walk, Send, canvasVars
  <2>2. told' = told \/ told' = [told EXCEPT ![c] = Overlaid(told[c], mgr.msg)]
    BY <1>5 DEF Walk, Send, ConnOf
  <2>3. ASSUME c \in Conns PROVE Overlaid(told[c], mgr.msg) \in [1 .. Cells -> Colors \cup {Null}]
    <3>1. told[c] \in [1 .. Cells -> Colors \cup {Null}]
      BY <2>3 DEF ColorsKnown
    <3>2. Overlaid(told[c], mgr.msg) \in [1 .. Cells -> (Colors \cup {Null}) \cup Colors]
      BY <3>1, OverlaidColors DEF ColorsKnown
    <3> QED BY <3>2
  <2>4. told' \in [Conns -> [1 .. Cells -> Colors \cup {Null}]]
    BY <2>2, <2>3 DEF ColorsKnown
  <2>5. ColorsKnown'
    BY <2>1, <2>4 DEF ColorsKnown, Changes
  <2> QED BY <2>1, <2>5, QueuesSame
<1> QED BY <1>2, <1>3, <1>4, <1>5 DEF Manager

LEMMA CanvasTypes ==
  ASSUME Types, CanvasTask
  PROVE  QueueBounds' /\ TaskData' /\ ColorsKnown'
<1> USE DEF Types
<1> PICK drawn : drawn = Drawn(Head(canvas_queue).data)
  OBVIOUS
<1> PICK map : map = Recolored(drawn)
  OBVIOUS
<1> PICK entry : entry = [type |-> "TASK_BROADCAST", data |-> map]
  OBVIOUS
<1>1. /\ canvas_queue # <<>> /\ canvas_queue' = Tail(canvas_queue) /\ UNCHANGED <<told, mgr>>
      /\ pixels' = Overlaid(pixels, drawn)
      /\ cm_queue' = cm_queue \/ cm_queue' = Pushed(cm_queue, entry)
      /\ modified' = map \/ modified' = <<>>
  BY DEF CanvasTask, BroadcastUpdates
<1>2. PICK S : canvas_queue \in Seq(S)
  BY DEF QueueBounds
<1>3. /\ \E T : canvas_queue' \in Seq(T)
      /\ Len(canvas_queue') < QueueSize
      /\ 1 \in 1 .. Len(canvas_queue) /\ Head(canvas_queue) = canvas_queue[1]
      /\ \A i \in 1 .. Len(canvas_queue') :
           i + 1 \in 1 .. Len(canvas_queue) /\ canvas_queue'[i] = canvas_queue[i + 1]
  BY <1>1, <1>2, QueueTaken DEF QueueBounds
<1>4. drawn \in Changes
  <2>1. PICK T : Head(canvas_queue).data \in Seq(T)
    BY <1>3 DEF TaskData
  <2> QED BY <2>1, DrawnColors
<1>5. map \in Changes /\ entry.data \in Changes
  BY <1>4, RecoloredColors DEF ColorsKnown
<1>6. << >> \in Changes
  <2>1. DOMAIN << >> = {} /\ << >> = [k \in {} |-> << >>[k]]
    OBVIOUS
  <2> QED BY <2>1, ChangesAre
<1>7. pixels' \in [1 .. Cells -> Colors]
  <2>1. Overlaid(pixels, drawn) \in [1 .. Cells -> Colors \cup Colors]
    BY <1>4, OverlaidColors DEF ColorsKnown
  <2> QED BY <1>1, <2>1
<1>8. ColorsKnown'
  BY <1>1, <1>5, <1>6, <1>7 DEF ColorsKnown, Changes
<1>9. PICK R : cm_queue \in Seq(R)
  BY DEF QueueBounds, TaskSeq
<1>10. /\ \E T : cm_queue' \in Seq(T)
       /\ Len(cm_queue') < QueueSize
       /\ \A i \in 1 .. Len(cm_queue') :
            cm_queue'[i] = entry \/ (i \in 1 .. Len(cm_queue) /\ cm_queue'[i] = cm_queue[i])
  BY <1>1, <1>9, QueuePushed DEF QueueBounds
<1>11. \A f : f \in Changes' <=> f \in Changes
  BY DEF Changes
<1>12. QueueBounds'
  BY <1>3, <1>10 DEF QueueBounds, TaskSeq
<1>13. TaskData'
  BY <1>3, <1>5, <1>10, <1>11 DEF TaskData
<1> QED BY <1>8, <1>12, <1>13

LEMMA InitTypes == ListInit => Types
<1> SUFFICES ASSUME ListInit PROVE Types
  OBVIOUS
<1> USE DEF ListInit, initClientManager, init_canvas, NetInit
<1>1. << >> \in Changes
  <2>1. DOMAIN << >> = {} /\ << >> = [k \in {} |-> << >>[k]]
    OBVIOUS
  <2> QED BY <2>1, ChangesAre
<1>2. Places
  BY DEF Places
<1>3. Streams
  <2>1. ASSUME NEW c \in Conns PROVE Len(Script[c]) \in Nat
    BY SocketsAssumption, LenProperties DEF Script
  <2> QED BY <2>1 DEF Streams
<1>4. QueueBounds /\ TaskData
  BY QueueSizeAssumption DEF QueueBounds, TaskSeq, TaskData
<1>5. ColorsKnown
  BY <1>1, SharedListAssumption DEF ColorsKnown
<1> QED BY <1>2, <1>3, <1>4, <1>5 DEF Types

LEMMA TypesStep == Basic /\ Types /\ [ListNext]_listServerVars => Types'
<1> SUFFICES ASSUME Basic, Types, [ListNext]_listServerVars PROVE Types'
  OBVIOUS
<1>1. Places' /\ Streams'
  BY PlacesKept, StreamsKept DEF Types
<1>2. CASE Manager
  BY <1>1, <1>2, ManagerTypes DEF Types
<1>3. CASE CanvasTask
  BY <1>1, <1>3, CanvasTypes DEF Types
<1>4. CASE EventLoop \/ Clock \/ Clients \/ UNCHANGED listServerVars
  <2>1. UNCHANGED <<pixels, modified, mgr, told>>
    BY <1>4 DEF EventLoop, EpollWait, AcceptEvent, RecvEvent, EndEvent, Search, Unlink, CloseClient, FreeNode,
       EpollDel, Clock, Clients, canvasVars, listServerVars
  <2>2. ColorsKnown'
    BY <2>1, ColorsSame DEF Types
  <2>3. CASE AcceptEvent
    <3> PICK entry : entry = [type |-> "TASK_NEW_CLIENT"]
      OBVIOUS
    <3>1. cm_queue' = Pushed(cm_queue, entry) /\ UNCHANGED canvas_queue /\ entry.type # "TASK_BROADCAST"
      BY <2>3 DEF AcceptEvent
    <3>2. QueueBounds' /\ TaskData'
      BY <3>1, PushTypes DEF Types
    <3> QED BY <1>1, <2>2, <3>2 DEF Types
  <2>4. CASE RecvEvent
    BY <1>1, <2>2, <2>4, RecvTypes DEF Types
  <2>5. CASE UNCHANGED <<cm_queue, canvas_queue>>
    BY <1>1, <2>2, <2>5, QueuesSame DEF Types
  <2> QED BY <1>4, <2>3, <2>4, <2>5 DEF EventLoop, EpollWait, EndEvent, Search, Unlink, CloseClient, FreeNode,
        EpollDel, Clock, Clients, listServerVars
<1> QED BY <1>2, <1>3, <1>4 DEF ListNext

LEMMA TypesGive == Basic /\ Types => ListTypeOK
<1> SUFFICES ASSUME Basic, Types PROVE ListTypeOK
  OBVIOUS
<1> USE DEF Types, Basic, NetInv
<1>1. NetTypeOK
  <2>1. ToSet(backlog) \subseteq Conns
    BY DEF Backlog, ToSet
  <2>2. ToSet(ready) \subseteq Conns \cup {Listener}
    BY DEF ReadyOnce, ToSet
  <2> QED BY <2>1, <2>2 DEF NetTypeOK, Sockets, Streams
<1> QED BY <1>1 DEF ListTypeOK, Sockets, Memory, Addresses, Places, QueueBounds, ColorsKnown

(***************************************************************************)
(* 1.1v: queues within their size, descriptors, sockets and list nodes as  *)
(* they should be, and process_buffer and parse_pixel_json let only colors *)
(* and pixels of the canvas through, whatever clients send.                *)
(***************************************************************************)
THEOREM ListTypesCorrect == ListSpec => []ListTypeOK
<1>1. ListInit => Types
  BY InitTypes
<1>2. Basic /\ Types /\ [ListNext]_listServerVars => Types'
  BY TypesStep
<1>3. Basic /\ Types => ListTypeOK
  BY TypesGive
<1> QED BY <1>1, <1>2, <1>3, RemovalInvariance, PTL DEF ListSpec
=============================================================================
