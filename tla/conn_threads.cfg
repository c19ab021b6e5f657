SPECIFICATION FairSpec
CONSTANTS
  t1 = t1
  t2 = t2
  NoTask = NoTask
  Tasks <- MCTasks
  Sides = {"client", "server"}
  BufSizes = {1, 2}
  MaxBytes = 2
  MaxWrites = 2
INVARIANTS
  TypeOK
  StreamIntegrity
  PreallocatedTailUntouched
  EofAfterData
  NoLostWakeup
  NoCallbackOnFreedState
  NoWaitOnStoppedLoop
  SentInOrder
  ClientDropCloses
PROPERTIES
  CloseAfterWrites
  ImplementsByteStream
  ReaderServed
  DropCompletes
