\* One extension through several refreshes, recoveries and a close.
CONSTANTS
    NoExtension = NoExtension
    e1 = e1
    Extension = {e1}
    MaxRegisters = 5
SPECIFICATION Spec
INVARIANTS
    FlowsTended
    TrueToRegistrar
PROPERTIES
    CloseReturns
CHECK_DEADLOCK FALSE
