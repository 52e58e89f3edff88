\* Two decisions, no policy change and no fault.
SPECIFICATION Spec
CONSTANTS
    Deciders = {d1, d2}
    Admins = {}
    MaxLimit = 1
    Payload <- OneUnitEach
    Null = Null
    Faults = FALSE
PROPERTY TerminalStaysTerminal
