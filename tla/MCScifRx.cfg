\* One reading task and one that sends and issues commands.
CONSTANTS
  t1 = t1
  t2 = t2
  None = None
  Readers = {t1}
  Others = {t2}
  RSize = 2
  FifoDepth = 2
  XoffSize = 1
  XonSize = 0
  SoftFlow = TRUE
  TxWindow = FALSE
  Breaks = TRUE
  Lens = {1, 3}
  UHMax = 3
  MaxBytes = 3
SPECIFICATION FairSpec
INVARIANTS TypeOK NoDanglingRcvData RingEmptyWhileWaiting
PROPERTIES IsByteQueue RcvResult XoffStands ReaderServed
