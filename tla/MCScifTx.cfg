\* One sending task, silent peer, ring of 2 behind a FIFO of 2.
CONSTANTS
  t1 = t1
  None = None
  Tasks = {t1}
  TSize = 2
  FifoDepth = 2
  TxTrig = 0
  Lens = {1, 4, 5}
  UHMax = 7
  MaxBytes = 9
  RxEvents = {}
SPECIFICATION FairSpec
INVARIANTS TypeOK NoDanglingSndData
PROPERTIES IsByteQueue WaitersReleased
CHECK_DEADLOCK TRUE
