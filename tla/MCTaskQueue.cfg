CONSTANTS
  p1 = p1
  p2 = p2
  c1 = c1
  c2 = c2
  t1 = t1
  t2 = t2
  None = None
  Size = 3
  Producers <- MCProducers
  Consumers <- MCConsumers
  Tasks <- MCTasks
SPECIFICATION Spec
INVARIANTS TypeOK MutexHeld CheckStillTrue NoLostWakeup
PROPERTIES QueueDrains ImplementsFifo
