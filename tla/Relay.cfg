\* Every sequence of up to four calls on a ResponseWriter, on HEAD and other
\* requests, with a tunnel that may fail at either end and a client that may leave.
SPECIFICATION RelaySpec
CONSTANTS
    MaxCL = 2
    MaxWrite = 2
    MaxCalls = 4
CHECK_DEADLOCK FALSE
INVARIANTS
    StreamTerminated
    CompleteBody
    ResponseRelayed
PROPERTIES
    LegalResponse
