CONSTANTS
  Nil = Nil
  ErrCap = 1
  MaxOut = 0
  MaxIn = 0
  InitialRetry = 1
  ReconnectionRetry = 1
SPECIFICATION ClientSpec
PROPERTY ReadEndsWhenGivenUp
CHECK_DEADLOCK FALSE
