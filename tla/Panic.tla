------------------------------- MODULE Panic -------------------------------
(***************************************************************************)
(* panic() of src/kern/panic.cpp: it masks interrupts, takes the registers *)
(* of the fault (or its own), clears the terminal, prints the message and *)
(* the registers, disassembles a few instructions at the faulting eip,    *)
(* prints the call stack from the innermost interrupt stub outwards, draws *)
(* the terminal and halts.                                                 *)
(*                                                                         *)
(* Addresses are small integers.  A return address is classified the way  *)
(* print_stack_symbols does it: a kernel function found by the symbol     *)
(* table, an address below KERNEL_VIRTUAL_BASE (<userspace>), or neither   *)
(* (????).  The text printed is abstracted to a sequence of lines; the    *)
(* registers and the message are one line each.                           *)
(***************************************************************************)
EXTENDS Integers, Sequences, SequencesExt

CONSTANTS
    Addrs,        \* the addresses eip and the disassembled bytes may take
    Frames,       \* the return addresses a stack trace may hold
    KernelBase,   \* KERNEL_VIRTUAL_BASE
    Symbols,      \* addresses elf::kernel_symbol_table.get_function resolves
    IsrRet,       \* (uintptr_t)&isr_common_stub + 31
    IrqRet,       \* (uintptr_t)&irq_common_stub + 31
    Mapped,       \* addresses VM::is_mapped reports as mapped
    InsnLens,     \* lengths get_disasm may decode at an address
    PanicEip,     \* the eip get_registers() returns inside panic() itself
    Eips,         \* eips a fault handler may have stored in panic_regs
    MaxDepth,     \* longest stack trace_stack returns
    DumpLen       \* dump_len of print_disassembly (6 in the code)

ASSUME {KernelBase, IsrRet, IrqRet} \cup Symbols \cup Mapped \cup Frames \subseteq Addrs
ASSUME InsnLens \subseteq Nat \ {0} /\ Eips \subseteq Addrs /\ PanicEip \in Mapped

\* panic_regs == nullptr (no eip is negative).
Null == -1

Traces == BoundedSeq(Frames, MaxDepth)

VARIABLES
    panic_regs,      \* eip of the registers dumped, or Null
    exception_frame, \* exception_stack_frame
    use_frame,       \* panic_use_exception_frame
    live,            \* what trace_stack(nullptr, 0) returns at the panic
    pc,              \* the step panic() has reached
    ip,              \* print_disassembly's cursor
    k,               \* its loop index i
    trace,           \* the trace print_stack_symbols walks
    i,               \* its loop index
    cnt,             \* the frame number printed next
    out              \* the lines printed since term().clear()

vars == <<panic_regs, exception_frame, use_frame, live, pc, ip, k, trace, i, cnt, out>>

-----------------------------------------------------------------------------
(* trace_offset, as its loop runs, and what it is meant to compute.        *)

IsStub(a) == a \in {IsrRet, IrqRet}

\* The while loop: offset advances past every address that is no stub
\* return address.
RECURSIVE StubScan(_, _)
StubScan(t, offset) ==
    IF offset < Len(t) /\ ~IsStub(t[offset + 1]) THEN StubScan(t, offset + 1) ELSE offset

\* Mutant: the stub frame itself is kept (no ++offset after the loop).
TraceOffsetKeepsStub(t) ==
    IF StubScan(t, 0) = Len(t) THEN 0 ELSE StubScan(t, 0)

\* trace_offset(trace): the index after the first stub return address, or 0
\* when there is none.
TraceOffset(t) ==
    IF StubScan(t, 0) = Len(t) THEN 0 ELSE StubScan(t, 0) + 1

\* The frames a stack dump with an interrupt stub on it is meant to show:
\* those after the first stub return address.
Interrupted(t) == SubSeq(t, SelectInSeq(t, IsStub) + 1, Len(t))

-----------------------------------------------------------------------------
(* What one iteration of print_stack_symbols prints.                      *)

Where(a) ==
    IF a \in Symbols THEN "function"
    ELSE IF a < KernelBase THEN "userspace"
    ELSE "unknown"

\* A printed line: a frame line <<number, address, where>>, an instruction
\* line <<"instruction", arrow>> (arrow: "->" marks the instruction at
\* eip), or a line of text named by a string.
Frame(n, a) == <<n, a, Where(a)>>
Insn(arrow) == <<"instruction", arrow>>
Line(s) == <<s>>

\* The lines of a stack dump of the frames f: numbered from 1, one newline
\* between two frames.
StackLines(f) ==
    FlattenSeq([n \in 1 .. Len(f) |->
        IF n < Len(f) THEN <<Frame(n, f[n]), Line("newline")>> ELSE <<Frame(n, f[n])>>])

-----------------------------------------------------------------------------
(* set_exception_frame_ptr, called by the exception path before a panic.  *)

\* ptr != nullptr: the frames above the exception are recorded.
SetExceptionFrame(t) ==
    /\ pc = "running"
    /\ exception_frame' = t
    /\ UNCHANGED <<panic_regs, use_frame, live, pc, ip, k, trace, i, cnt, out>>

\* ptr == nullptr: exception_stack_frame.clear().
ClearExceptionFrame ==
    /\ pc = "running"
    /\ exception_frame' = <<>>
    /\ UNCHANGED <<panic_regs, use_frame, live, pc, ip, k, trace, i, cnt, out>>

-----------------------------------------------------------------------------
(* panic(fmt, ...)                                                          *)

\* cli(), so nothing else runs until the halt; panic_regs is taken if no
\* fault handler set it; the terminal is cleared and titled, the message
\* and the registers printed.
Enter ==
    /\ pc = "running"
    /\ panic_regs' = IF panic_regs = Null THEN PanicEip ELSE panic_regs
    /\ out' = <<Line("message"), Line("registers")>>
    /\ pc' = "disasm"
    /\ UNCHANGED <<exception_frame, use_frame, live, ip, k, trace, i, cnt>>

\* print_disassembly: eip is unmapped.
DisasmUnmapped ==
    /\ pc = "disasm"
    /\ panic_regs \notin Mapped
    /\ out' = Append(out, Line("no disassembly"))
    /\ pc' = "stack"
    /\ UNCHANGED <<panic_regs, exception_frame, use_frame, live, ip, k, trace, i, cnt>>

\* eip is mapped: the loop starts at it.
DisasmStart ==
    /\ pc = "disasm"
    /\ panic_regs \in Mapped
    /\ out' = Append(out, Line("Disassembly"))
    /\ ip' = panic_regs
    /\ k' = 0
    /\ pc' = "decode"
    /\ UNCHANGED <<panic_regs, exception_frame, use_frame, live, trace, i, cnt>>

\* Mutant: the loop test is i <= dump_len.
DecodeMoreLE == k <= DumpLen

\* The loop test of print_disassembly: i < dump_len.
DecodeMore == k < DumpLen

\* get_disasm(ip) reads the len bytes of the instruction at ip; a byte that
\* is not mapped page-faults inside the panic.  The line starts with "->"
\* when ip == base_ip; then ip += info.len.
Decode ==
    /\ pc = "decode"
    /\ DecodeMore
    /\ \E len \in InsnLens :
          IF \A b \in ip .. (ip + len - 1) : b \in Mapped
          THEN /\ out' = Append(out, Insn(ip = panic_regs))
               /\ ip' = ip + len
               /\ k' = k + 1
               /\ UNCHANGED pc
          ELSE /\ pc' = "fault"
               /\ UNCHANGED <<out, ip, k>>
    /\ UNCHANGED <<panic_regs, exception_frame, use_frame, live, trace, i, cnt>>

DisasmDone ==
    /\ pc = "decode"
    /\ ~DecodeMore
    /\ pc' = "stack"
    /\ UNCHANGED <<panic_regs, exception_frame, use_frame, live, ip, k, trace, i, cnt, out>>

\* print_stack_symbols: the trace is chosen, and the loop starts at
\* trace_offset(trace) with cnt = 1.
StackStart ==
    LET t == IF use_frame THEN exception_frame ELSE live IN
    /\ pc = "stack"
    /\ trace' = t
    /\ i' = TraceOffset(t)
    /\ cnt' = 1
    /\ out' = Append(out, Line("Stack:"))
    /\ pc' = "frames"
    /\ UNCHANGED <<panic_regs, exception_frame, use_frame, live, ip, k>>

\* One iteration: the frame's line, and a newline unless it is the last
\* (i < trace.size()-1, where size() is at least 1).
PrintFrame ==
    /\ pc = "frames"
    /\ i < Len(trace)
    /\ out' = out \o (IF i < Len(trace) - 1 THEN <<Frame(cnt, trace[i + 1]), Line("newline")>>
                                             ELSE <<Frame(cnt, trace[i + 1])>>)
    /\ i' = i + 1
    /\ cnt' = cnt + 1
    /\ UNCHANGED <<panic_regs, exception_frame, use_frame, live, pc, ip, k, trace>>

\* term().enable(), scroll_bottom(), draw(), the delay loop, halt().
Halt ==
    /\ pc = "frames"
    /\ i >= Len(trace)
    /\ pc' = "halted"
    /\ UNCHANGED <<panic_regs, exception_frame, use_frame, live, ip, k, trace, i, cnt, out>>

Init ==
    /\ panic_regs \in Eips \cup {Null}
    /\ exception_frame = <<>>
    /\ use_frame \in BOOLEAN
    /\ live \in Traces
    /\ pc = "running"
    /\ ip = 0
    /\ k = 0
    /\ trace = <<>>
    /\ i = 0
    /\ cnt = 1
    /\ out = <<>>

Next ==
    \/ \E t \in Traces : SetExceptionFrame(t)
    \/ ClearExceptionFrame
    \/ Enter
    \/ DisasmUnmapped \/ DisasmStart \/ Decode \/ DisasmDone
    \/ StackStart \/ PrintFrame \/ Halt

\* panic() runs to its end on the one CPU with interrupts masked.
Spec == Init /\ [][Next]_vars /\ WF_vars(Next)
-----------------------------------------------------------------------------
(* Properties.                                                             *)

PCs == {"running", "disasm", "decode", "stack", "frames", "halted", "fault"}

Lines == {Line(s) : s \in {"message", "registers", "no disassembly", "Disassembly",
                           "Stack:", "newline"}}
         \cup {Insn(b) : b \in BOOLEAN}
         \cup {Frame(n, a) : n \in 1 .. MaxDepth, a \in Frames}

\* Every variable holds a value of its modelled range.
TypeOK ==
    /\ panic_regs \in Eips \cup {Null} \cup Mapped
    /\ exception_frame \in Traces /\ live \in Traces /\ trace \in Traces
    /\ use_frame \in BOOLEAN
    /\ pc \in PCs
    /\ k \in 0 .. DumpLen
    /\ i \in 0 .. MaxDepth /\ cnt \in 1 .. MaxDepth + 1
    /\ out \in Seq(Lines)

\* The screen panic() leaves before halt(), up to and including "Stack:":
\* the message, the registers, then the disassembly of dump_len
\* instructions from eip with the arrow on the first, or the notice that
\* eip is unmapped.
ScreenHead ==
    <<Line("message"), Line("registers")>>
    \o (IF panic_regs \in Mapped
        THEN <<Line("Disassembly")>> \o [n \in 1 .. DumpLen |-> Insn(n = 1)]
        ELSE <<Line("no disassembly")>>)
    \o <<Line("Stack:")>>

\* Once panic() reaches halt(), the screen starts with ScreenHead (the
\* disassembly loop's count, and its ip += info.len putting the arrow on
\* the first line only); and when the trace holds an interrupt stub's
\* return address, the frames below "Stack:" are exactly those after the
\* first one, numbered 1, 2, ... one per line (trace_offset's scan and
\* ++offset, the loop's cnt and its `i < trace.size()-1` newline test).
\* A trace without a stub is left out: the comment at print_stack_symbols'
\* loop says a frame (the call to kmain) is discarded, trace_offset
\* returns 0 and discards none, and the frame order trace_stack produces
\* is not under src/, so which of the two is meant cannot be decided here.
PanicScreenCorrect ==
    pc = "halted" =>
        /\ SubSeq(out, 1, Len(ScreenHead)) = ScreenHead
        /\ (\E n \in 1 .. Len(trace) : IsStub(trace[n])) =>
              SubSeq(out, Len(ScreenHead) + 1, Len(out)) = StackLines(Interrupted(trace))

\* print_disassembly reads only mapped memory: checking VM::is_mapped(eip)
\* is meant to keep a second fault out of the panic path.
DisasmStaysMapped == pc # "fault"
=============================================================================
