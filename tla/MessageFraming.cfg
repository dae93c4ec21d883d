\* The length has room for 0 and 1: a payload of 2 cells does not fit.
CONSTANTS
  Nil = Nil
  Sizes = {0, 1, 2}
  LenMod = 2
  MaxMsgs = 2
  MaxConns = 3
  MaxErrors = 1
SPECIFICATION Spec
INVARIANTS TypeOK FramesIntact AtMostOnceInOrder DeliveredIsFinished
PROPERTY WrittenIsRead
CHECK_DEADLOCK FALSE
