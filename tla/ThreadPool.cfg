\* Three workers and four tasks on three addresses, and a client that may call anything.
CONSTANTS
  w1 = w1
  w2 = w2
  w3 = w3
  a1 = a1
  a2 = a2
  a3 = a3
  Worker = {w1, w2, w3}
  Node = {a1, a2, a3}
  NumTasks = 4
  NULL = NULL
SPECIFICATION Spec
INVARIANTS
  ListIsQueue
  OneOwner
  ExactlyOnce
  IInv
  NoTaskBehindASleeper
PROPERTIES
  WaitLeavesRunning
  ImplementsTaskPool
  EveryTaskRuns
  CallsReturn
