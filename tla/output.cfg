CONSTANTS
    x = x
    NL = NL
    CR = CR
    DEL = DEL
    None = None
    MAX_CRITICAL_LEVEL = 2
    UART_BUFFER_SIZE = 4
    FifoDepth = 1
    TxTrigger = 0
    Typed = {NL}
    Printed = {x, NL, CR}
    Commands <- OneCommand
    Prompt <- ShortPrompt
    Erase <- MCErase
SPECIFICATION Spec
VIEW OutputView
INVARIANTS
    TransmitArmed
PROPERTIES
    OutputIsChannel
