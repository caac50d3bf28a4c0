\* One sending task under software flow control, receive interrupts at any time.
CONSTANTS
  t1 = t1
  None = None
  Tasks = {t1}
  TSize = 2
  FifoDepth = 2
  TxTrig = 1
  Lens = {2, 5}
  UHMax = 5
  MaxBytes = 5
  RxEvents = {"xon", "xoff", "rxoff", "rxon"}
SPECIFICATION Spec
PROPERTIES SndResult ClnDrains XoffRespected
