SPECIFICATION CallSpec
CONSTANTS
  Command = {c1, c2}
  Row <- RowsOfEachKind
  Denied = {"close_conversation"}
  McpRetries = 2
  MaxCalls = 2
CHECK_DEADLOCK FALSE
INVARIANT CallTypeOK
INVARIANT AppointmentMadeOnce
PROPERTY ImplementsExecute
