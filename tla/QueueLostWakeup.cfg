\* No message at all: the poller parks after the context was closed and the
\* Broadcast sent, and nothing wakes it.
CONSTANTS
  Nil = Nil
  MaxMsgs = 1
SPECIFICATION Spec
PROPERTY CloseEndsPoll
CHECK_DEADLOCK FALSE
