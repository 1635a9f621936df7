\* A panic called directly (panic_regs unset) or from a fault handler whose
\* eip is in user space, inside a kernel function, or 3 bytes before the
\* end of the mapping; stacks of up to three frames of every kind.  halt()
\* stops the CPU and a fault inside the panic is the end of the model, so a
\* state with no successor is not an error.
CONSTANTS
    Addrs <- MCAddrs
    Frames = {1, 8, 9, 10, 12}
    KernelBase = 8
    Symbols = {9, 10, 12}
    IsrRet = 9
    IrqRet = 10
    Mapped <- MCMapped
    InsnLens = {1, 4}
    PanicEip = 12
    Eips = {2, 12, 38}
    MaxDepth = 3
    DumpLen = 6
SPECIFICATION Spec
INVARIANTS TypeOK PanicScreenCorrect
CHECK_DEADLOCK FALSE
