\* Three appends: one can be in the poller's hand, one given back, one appended
\* meanwhile.  The loop may end and producers may stop, so the system may stop.
CONSTANTS
  Nil = Nil
  MaxMsgs = 3
SPECIFICATION Spec
INVARIANTS Fifo NoMissedMessage
PROPERTY ImplementsBlockingFifo
CHECK_DEADLOCK FALSE
