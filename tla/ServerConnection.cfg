\* Two messages to read and room for one error: enough for a message of a second
\* connection behind one of the first, and an errors channel that is full when
\* it is abandoned.
\* A server that was shut down stops.
CONSTANTS
  Nil = Nil
  ErrCap = 1
  MaxOut = 0
  MaxIn = 2
SPECIFICATION ServerSpec
INVARIANTS InboundInOrder NoSendOnClosedErrors
PROPERTY ServerEndsOrHangs
CHECK_DEADLOCK FALSE
