\* A server that may answer 200, 201, 204, a failure status or 429 with or
\* without retry_after, any number of times in a row, to six calls.  The
\* caller stops after its last call.
CONSTANTS
  Statuses = {200, 201, 204, 404, 429}
  None = None
  MaxCalls = 6
SPECIFICATION Spec
PROPERTIES
  ImplementsRestRequest
CHECK_DEADLOCK FALSE
