CONSTANTS
    root = root
    pong = pong
    child = child
    second = second
    NoCap = NoCap
    OwnId = 0
    PongId = 30
    PDs <- MCPDs
    Ids <- MCIds
    Static <- MCStatic
    Loader <- MCLoader
    Priority <- MCPriority
    Wires <- MCWires
    Lines <- MCLines
    Interrupts <- MCInterrupts
    Ping <- MCPing
    Ponging <- MCPonging
SPECIFICATION Spec
INVARIANTS SignalsPending MaskedIsPending
PROPERTIES EntersAsSignalled SignalHandled PingAnswered
CHECK_DEADLOCK FALSE
