\* Two messages to write, room for one error, two initial dials and one redial:
\* enough for a failed write with another message behind it, a second connection
\* that writes both, a redial that gives up, and an errors channel that is full
\* when it is abandoned.  A client that gave up or was shut down stops.
CONSTANTS
  Nil = Nil
  ErrCap = 1
  MaxOut = 2
  MaxIn = 0
  InitialRetry = 2
  ReconnectionRetry = 1
SPECIFICATION ClientSpec
INVARIANTS OutboundInOrder NoSendOnClosedErrors OneConnAtATime GivesUpAfterRetries
PROPERTIES ConsumeEndsOrHangs WriteFreesWriter ClientEndsOrHangs
CHECK_DEADLOCK FALSE
