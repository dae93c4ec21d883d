\* A handler calls AckWithError with an error whose text is empty.
CONSTANTS
  controller = controller
  dataplane = dataplane
  command = command
  commandResult = commandResult
  NoCall = NoCall
  Ends = {controller, dataplane}
  Calls = {command, commandResult}
  From <- MCFrom
  Within <- MCWithin
  Setters = {}
  Cancellable = {}
  Kinds <- MCKindsEmptyError
  MaxAcks <- MCMaxAcks
SPECIFICATION Spec
INVARIANT ResultMatchesVerdict
CHECK_DEADLOCK FALSE
