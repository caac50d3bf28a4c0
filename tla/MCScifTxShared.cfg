\* Two tasks share a port that has no ring; nobody locks it.
CONSTANTS
  t1 = t1
  t2 = t2
  None = None
  Tasks = {t1, t2}
  TSize = 0
  FifoDepth = 2
  TxTrig = 0
  Lens = {1, 3}
  UHMax = 3
  MaxBytes = 5
  RxEvents = {}
SPECIFICATION Spec
PROPERTIES NoMixing
