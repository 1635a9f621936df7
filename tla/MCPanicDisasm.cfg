\* The same panics: one whose fault handler stored an eip 3 bytes before
\* the end of the mapping reaches print_disassembly.
CONSTANTS
    Addrs <- MCAddrs
    Frames = {1, 8, 9, 10, 12}
    KernelBase = 8
    Symbols = {9, 10, 12}
    IsrRet = 9
    IrqRet = 10
    Mapped <- MCMapped
    InsnLens = {1, 4}
    PanicEip = 12
    Eips = {2, 12, 38}
    MaxDepth = 3
    DumpLen = 6
SPECIFICATION Spec
INVARIANT DisasmStaysMapped
CHECK_DEADLOCK FALSE
