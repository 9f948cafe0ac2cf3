SPECIFICATION Spec
CONSTANTS
    w1 = w1
    w2 = w2
    r1 = r1
    r2 = r2
    k1 = k1
    Writer = {w1, w2}
    Reader = {r1, r2}
    Printer = {k1}
    Faulty = {r1, w1}
    Killable = {r1}
    NHart = 2
    INPUT_BUF_SIZE = 2
    UART_TX_BUF_SIZE = 2
    WRAP = 4
    Used = 3
    Text <- MCText
    MaxRead = 2
    Reads = 2
    Scenarios <- MCScenarios
    None = none
CHECK_DEADLOCK FALSE
INVARIANTS
    NoOverrun
    SleepersHaveReason
PROPERTIES
    InputIsTty
    OutputIsFifo
    WriterFinishes
    PanicGetsOut
