CONSTANTS
    x = x
    NL = NL
    CR = CR
    DEL = DEL
    None = None
    MAX_CRITICAL_LEVEL = 2
    UART_BUFFER_SIZE = 4
    FifoDepth = 2
    TxTrigger = 1
    Typed = {DEL, NL}
    Printed = {x, NL, CR}
    Commands <- OneCommand
    Prompt <- ShortPrompt
    Erase <- MCErase
SPECIFICATION Spec
VIEW InputView
INVARIANTS
    TypeOK
    MutualExclusion
    MaskRestored
PROPERTIES
    InputIsChannel
