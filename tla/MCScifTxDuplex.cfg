\* A task copies into the ring while a receive interrupt runs txi.
CONSTANTS
  t1 = t1
  None = None
  Tasks = {t1}
  TSize = 2
  FifoDepth = 2
  TxTrig = 1
  Lens = {1, 4}
  UHMax = 4
  MaxBytes = 5
  RxEvents = {"xon"}
SPECIFICATION Spec
PROPERTIES IsByteQueue
