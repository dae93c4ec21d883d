\* A command and, from within its handler, its result: the data plane both
\* handles a message and waits for an ack.  Handlers are set at both ends while
\* messages arrive, and the context is closed at the controller.  The result may be
\* acked twice.  All calls may be over.
CONSTANTS
  controller = controller
  dataplane = dataplane
  command = command
  commandResult = commandResult
  NoCall = NoCall
  Ends = {controller, dataplane}
  Calls = {command, commandResult}
  From <- MCFrom
  Within <- MCWithin
  Setters = {controller, dataplane}
  Cancellable = {controller}
  Kinds <- MCKinds
  MaxAcks <- MCMaxAcks
SPECIFICATION Spec
INVARIANTS ResultMatchesVerdict NoPanic NoLeakedWaiter ReplacedHandlerIsGone
PROPERTIES AckDroppedOnlyAfterReturn ImplementsSendPromise CallReturns AckerEnds SetterReturns
CHECK_DEADLOCK FALSE
