# TLA+ models of LudOS

This directory holds TLA+ models of the LudOS kernel sources under `src/`,
along with the TLC configurations that check them. `PROJECT.json` lists the
components, the runs, the mutants that show each property can fail, the
mapping from every definition to the source lines it models, the findings and
the hazards.

## 1. Inventory

| Component | Source | State | Operations | Interacts with |
|---|---|---|---|---|
| Disk sector cache | `kern/drivers/storage/diskcache.cpp` | `m_cache` (sector → {data, dirty, access_time}), `m_access_times` (tick → sector, ordered), `m_size_ratio` | `write_sector`, `read_sector`, `flush`, `set_ratio`; internal helpers `add_span`, `add_to_cache`, `prune_cache`, `remove_entry`, `mem_usage_ratio` | Calls `Disk::read_sector`/`write_sector`, reads `Time::total_ticks()` (advanced by the PIT interrupt) and `MemoryInfo::usage_ratio()`; file systems call it |
| Spinlock | `kern/tasking/spinlock.hpp` | one `volatile int` per lock | `spin_lock` (CAS loop with `pause`), `spin_unlock` (barrier then store 0) | Any code path that takes a lock, including interrupt handlers |
| libc++ algorithms | `external/libc++/algorithm.hpp` | none (pure functions over iterator ranges) | find/search, copy/move, remove/unique, reverse/rotate, partition, sort (introsort, insertion sorts), nth_element, binary searches, merge/inplace_merge, stable_sort, heap operations, set operations, permutations | Used by the whole kernel |
| SMBIOS scanning | `kern/i686/pc/smbios/smbios.cpp` | `entry_point` | `locate` (anchor and checksum scan), `bios_info`, `cpu_info` (table walk), `get_string`, `find_strings_end` | Memory mapping, logging |
| Font glyph cache | `kern/graphics/fonts/font.cpp` | `m_font_cache` (char → glyph), a function-static fallback glyph | `Font::get` | Glyph reader |
| Panic and stack trace | `kern/panic.cpp` | `panic_regs`, `exception_stack_frame` | `panic`, `trace_offset`, `print_stack_symbols`, `print_disassembly`, `set_exception_frame_ptr` | Terminal, symbol table |
| PCI driver registry | `kern/drivers/pci/pcidriver.cpp` | `drivers[]`, `driver_list_ptr` | `interface_init` (offers each device to each driver) | Registration macro (not in the source) |
| Boot | `kern/i686/pc/kmain.cpp`, `init.hpp` | none | the one-shot initialisation sequence | All hardware drivers |

**What makes this code hard.** The disk cache is the only component with
long-lived, mutable, two-sided state. It keeps two containers in step by
hand: every touch of a sector erases the pair keyed by its old tick and
inserts one keyed by the new tick. The key is `Time::total_ticks()`, which
the PIT advances at 100 Hz (`PIT::init(100)` in `init.hpp`). So whether two
touches share a key depends on where the timer interrupt falls relative to
the steps of a call, an interleaving no unit test controls.

Eviction is driven by a global oracle, not by the cache's own size.
Write-back happens only at eviction. Callers are serialised: the kernel is
single-CPU, and the cache takes no lock. The spinlock is the other
concurrency primitive. It raises the usual questions of mutual exclusion,
starvation, and self-deadlock when an interrupt handler spins on a lock held
by the code it interrupted. The other components are sequential algorithms.
Their risks are at boundaries: off-by-one string numbers, scans past a
mapping, and sentinel assumptions in the sorting code.

**Properties that make each component correct.**

- *Disk cache*:
  - the recency index and the cache describe the same set of sectors, with
    unique ticks;
  - eviction is global LRU;
  - the cache plus the disk behave as a plain sector array: reads return
    the last data written, and eviction and flush never change what a later
    read sees;
  - every call returns;
  - the fill pass reads only the missing sectors of the requested range;
  - a read returns `count` whole sectors.
- *Spinlock*: mutual exclusion; no self-deadlock; progress for someone
  (deadlock freedom), and no starvation freedom without fairness.
- *Algorithms*: each result equals a reference definition, for example a
  sorted permutation of the input, or the first position not less than the
  value.
- *SMBIOS*: string lookup returns the n-th string of a structure, and the
  scans stay inside the mapped window.
- *Font cache*: `get(c)` returns the glyph of `c`.
- *Panic*: the stack dump lists exactly the interrupted frames, and the
  panic path never touches unmapped memory.

## 2. Plan

Modules in the order they are (or will be) written. The most important
behaviour comes first.

1. **`DiskCache`** (done): the whole cache, with the disk, the memory oracle
   and the PIT clock as its environment. It is composed with
   **`SectorStore`** (done), the abstract specification of the cache, through
   a refinement mapping (`INSTANCE SectorStore WITH mem <- Mem, wreq <-
   WriteReq`). **`MCDiskCache`** instantiates it.
2. **`SMBIOS`** (done): `locate`, `bios_info` and `cpu_info` in the order
   `init()` calls them, with `get_string` and `find_strings_end` as
   RECURSIVE operators over the table's bytes. **`MCSMBIOS`** widens the
   inputs to every table shape and mapping offset.
3. **`Spinlock`** (done): CPUs taking one `spinlock_t`. No code under
   `src/` takes a spinlock,
   so interrupt handlers spinning on a lock their own CPU holds are not
   modelled.
4. **`FontCache`** (done): `Font::get` re-entered by the keyboard interrupt
   handler that `init()` installs.
5. *DiskCache, device failures* (done): constant `DiskFails` lets
   `Disk::read_sector` and `write_sector` fail. The liveness property
   `CallsReturn` moved into the coarse-clock run, which uses the kernel's
   real clock.
6. **`Panic`** (done): `panic()`, `print_disassembly`,
   `print_stack_symbols`, `trace_offset` and `set_exception_frame_ptr`.
   **`MCPanic`** instantiates it. Its passing run checks the whole screen
   `panic()` leaves: the disassembly as well as the stack.
7. *PCI* `interface_init` and *boot*: see section 9 for why they stay out.

Every component under `src/` that holds state is now modelled, except
the PCI driver table. What is left out, and why, is in section 9.

## 3. The disk cache model (`DiskCache.tla`)

**State.**

| Variable | Code |
|---|---|
| `cache` | `m_cache`: a function from the cached sectors to `[data, dirty, at]` |
| `access` | `m_access_times`, as a set of `<<tick, sector>>` pairs |
| `disk` | the device's sectors |
| `now` | `Time::total_ticks()` |
| `ratio` | `m_size_ratio` |
| `pc`, `frame` | the call in progress and its locals (`sec`, `count`, `i`, `j`, `len`) |
| `out` | the `MemBuffer` returned by `read_sector` |
| `req` | the last read request (for the refinement) |

A sector's data is a model value plus a flag: whether the chunk was a whole
sector.

**Actions.** Each call is a sequence of steps, one per clock read or map
update, so that a `Tick` (the PIT interrupt) can fall between any two of
them:

- `write_sector` is `WriteSector`, then one `WriteChunk` per chunk (each an
  `add_to_cache(..., true)`), then `WriteDone`.
- `read_sector` is `ReadSector`, then `add_span` (`FillSkip` on a hit,
  `FillMiss` to compute the coalesced run with `RunLength`, `FillAdd` per
  sector of the run, `FillDone`). Next comes the collect loop (`Collect`,
  which appends the data and re-keys through `Touch`, then `CollectDone`).
- `prune_cache` is `PruneEvict` and `PruneDone`. The oracle is read afresh
  at each loop test (`UsageAbove`/`UsageWithin`).
- `flush` is `Flush`, `FlushEvict` and `FlushDone`.
- `set_ratio` is `SetRatio`, followed by the prune steps.
- `EvictLRU` is `remove_entry(m_access_times.begin()->second)`, where
  `Begin` is the pair with the least key. Its write-back may fail
  (`WriteBackFails`).

`m_access_times` is taken to be a `std::map`: `Emplace` ignores a second
pair with the same key. The header that declares it is not in `src/`. A
`std::multimap` would fare no better: `erase(key)` would then remove the
pairs of every sector that shares the tick. The next eviction would then
dereference `begin()` of an empty map, the same panic.

**Device failures** (constant `DiskFails`). `Disk` is not under `src/`, and
the spec says its failures are "fatal/unhandled in the source". The model
takes a failing `Disk::read_sector` or `write_sector` as raising out of the
`DiskCache` call in progress (`Raise`), since nothing in `diskcache.cpp`
catches it. Later calls may follow, as they would if a caller catches the
error. The two places it can happen:
- `FillReadFails`: the runs already added stay cached, and the failed run
  is not.
- `WriteBackFails`: the dirty entry stays cached and dirty, because
  `remove_entry` writes back before it erases.

The passing runs `cache_fine_clock` and `cache_coarse_clock` set
`DiskFails = TRUE`, so their properties hold with failures as well.

**Failures.** These are modelled as a `panic` state with no successor, since
`panic()` disables interrupts and halts:
- a failed `assert`;
- `m_cache.at` of a missing key;
- dereferencing `begin()` of an empty map, which is undefined behaviour and
  taken here as a crash.

`AccessPairsCurrent` (checked) shows that the asserts of `remove_entry`
cannot fire. The only reachable failures are `add_to_cache`'s assert and
the empty `begin()`.

**Abstraction.**
- `SectorStore` is what callers may rely on. A write stores its buffer
  sector by sector, and nothing else changes the stored sectors. A read
  copies the requested sectors, one by one, into its buffer.
- The refinement mapping takes the logical content of sector `s` to be the
  cached data if `s` is cached, and the disk's otherwise.
- Device indices past the end of the disk read as `OutOfRange`.

**Bounds.**

| Run | Sectors | Largest call | Vals | Ratios | `MaxTick` | States |
|---|---|---|---|---|---|---|
| `cache_fine_clock` | 3 | 2 | 2 (symmetric) | {50, 100} | 8 | 4.5 M |
| `cache_coarse_clock` | 2 | 2 | 2 (no symmetry) | {50, 100} | 3 | 1.4 M |
| violation runs | 2–3 | 2–3 | 2 | {50, 100} | 3–9 | — |

In the main run, usage 100 exceeds a threshold of 50 and usage 50 does not;
a threshold of 100 is never exceeded. `MaxTick = 8` under the fine clock
allows four or five calls. That is enough to:
- fill three sectors at distinct ticks, touch one again, and evict the true
  least recently used sector;
- overwrite cached sectors;
- read across cached/missing boundaries;
- flush.

Under the fine clock a call starts only if the ticks it will read remain
(`now + n` for a write, `now + 3n` for a read). The other runs use 2
sectors and 2 values, with `MaxTick` from 3 to 9. With the coarse clock,
`MaxTick = 3` allows every pattern of shared and distinct ticks among the
steps of two or three calls.

**Fairness.** `WF_vars(Step)`: once a call has started, its steps keep
running. This holds because the kernel runs the call to completion on its
only CPU; interrupts return to it. Callers, flushes and timer ticks get no
fairness, since the file-system layer may stop calling at any time.

## 4. The SMBIOS model (`SMBIOS.tla`)

**State.** The inputs are fixed by `Init` and never change:
- `win` is the 64 KiB window `locate` scans. Each 16-byte paragraph is
  abstracted to whether it holds `"_SM_"`, its length byte `mem[5]`, and
  whether the sum of that many bytes is 0.
- `structs` lists the structure table, and `tbl` holds its bytes. A
  structure is `<<type, length, Filler.., last>>`, then its strings (one
  character each, `Chr(k)` for string k), then the NUL that ends the set.
  A structure without strings has two NULs.
- `delta` is the virtual address `Memory::mmap` returned, minus the
  physical address.

The control state:
- `pc`, `para` (the `locate` cursor) and `ep` (`entry_point != nullptr`);
- `fn` (which function is walking) and `mem` (its cursor, relative to the
  mapped address);
- `ret` (what each function returned) and `got` (the last `get_string`
  lookup).

**Actions.**
- `locate`: `LocateNext`, `LocateFound`, `LocateMiss`, and
  `LocateOverread` (the checksum loop reads past the window).
- Each function starts with `Enter`, which checks `entry_point`.
- One loop iteration of the walk is one action:
  - `WalkEnd`: the loop test fails;
  - `WalkEndOfTable`: type 127;
  - `WalkFound`;
  - `WalkSkip`: `mem += length - 1`, then `find_strings_end`;
  - `WalkPastTable`: the read leaves the table.
- `LookupDone`, `LookupFault` and `LookupPast` are the function's
  `get_string` call. The field's value is a number of the structure's
  strings, or 0. The fault is `strncmp` on nullptr.

Reading outside the mapping ends the model in `pastWindow` or `pastTable`:
what lies there is not known.

**Bounds.**
- Up to two structures of types 0, 4 and 1, plus an optional end marker.
- 0 to 2 strings per structure.
- Formatted length 4.
- A two-paragraph window.
- Mapping offsets −2, 0 and +2 (and +64, well above the table).

These cover every position of the string-set terminator relative to the
next tag, and both values of the last formatted byte. They also cover
every way the walk can stop: end of loop, end marker, found, or outside
the table.

**Fairness.** `WF_vars(Next)`: `init()` runs these calls to completion on
the only CPU.

**Beyond the runs kept.** Widening the pass run's inputs shows three more
disagreements, each in a few steps (`PROJECT.json` lists them as hazards):
- A non-zero last formatted byte makes `cpu_info` read string n+1, and
  nullptr for its last string, which `strncmp` dereferences. Set
  `LastBytes = {0, 255}` and check `CpuStringsCorrect`.
- A structure without strings and with a zero last byte makes
  `find_strings_end` stop one byte short, so the next tag is read from the
  terminator. Set `MinStrings = 0` and check `WalkAligned`.
- An anchor of the standard length 0x1F in the last paragraph makes the
  checksum read past the window. Set `AnchorLens = {0, 31}` and check
  `ScansStayMapped`.

## 5. The spinlock model (`Spinlock.tla`)

`lock` is the `spinlock_t` word, and `pc[c]` is where CPU `c` is:
`ncs`, then `spin`, then `cs`, then `fence`, then `store`.

- `TryAcquire` is one turn of `spin_lock`'s loop: the compare-and-swap
  either takes the lock or fails, and the CPU pauses.
- `spin_unlock` is two steps: `Fence` (`__sync_synchronize`) and `Store`.

The model is sequentially consistent, so `Fence` changes nothing: no
property here depends on memory ordering. A refinement to an atomic lock
was dropped, because with `Holding` as the owner it only restated
`MutualExclusion`.

**Fairness.** Every CPU that has entered the macros keeps executing them
(`WF` on `Run(c)`). When a CPU asks for the lock is its caller's choice,
so `Request` gets no fairness.

Starvation freedom for each CPU is not claimed: nothing orders the
compare-and-swaps. No interrupt handler in `src/` takes a spinlock, so
handlers are not modelled.

## 6. The font cache model (`FontCache.tla`)

The main flow and the keyboard handler call `Font::get`:
`Keyboard::handle_char` is `Terminal::put_char`, installed by `init()`.
The handler may interrupt the main flow at any step, and it runs to
completion (`Running`).

`cache[c]` numbers the `Glyph` that `m_font_cache[c]` owns, with 0 for
none. A new assignment frees the previous one. `held[x]` is the allocation
the returned reference points to, kept while the caller draws.

- `GetHit` and `GetMiss` are the two in-range branches. `StoreGlyph` is the
  `make_unique` assignment after `read_glyph`.
- `GetOutside` is `assert(false)`, which halts the kernel.
- The build is taken with asserts on.

`MaxStores = 3` never binds: the code allocates at most twice per
character, on a double miss.

## 7. The panic model (`Panic.tla`, `MCPanic.tla`)

`pc` follows `panic()` through these steps:
1. `Enter`: `cli()`, `panic_regs`, the screen reset, the message and
   `dump`.
2. `print_disassembly`: `DisasmUnmapped`, or `DisasmStart`, then one
   `Decode` per instruction, then `DisasmDone`.
3. `print_stack_symbols`: `StackStart`, then one `PrintFrame` per
   iteration.
4. `Halt`.

After `cli()` nothing else runs, so the steps are sequential.
`SetExceptionFrame` and `ClearExceptionFrame` are `set_exception_frame_ptr`,
which the exception path calls before a panic.

**Inputs.** The model chooses:
- the registers a fault handler stored in `panic_regs`, or none, in which
  case `panic()` takes its own (`PanicEip`);
- `panic_use_exception_frame`;
- the live trace.

**Addresses.** Addresses are small integers. `Where` classifies a return
address the way the code does: a function in the symbol table,
`<userspace>` below `KERNEL_VIRTUAL_BASE`, or `????`. `get_disasm` reads
one instruction of any length in `InsnLens` at `ip`. A byte outside
`Mapped` is a page fault inside the panic, and ends the model in `fault`.

**Output.** The screen is `out`, a sequence of lines. A frame line is
`<<number, address, where>>`; an instruction line is
`<<"instruction", arrow>>`, where arrow is the code's `ip == base_ip` test
for the `->` prefix; the other lines are one token each.

**`trace_offset`.** It is the RECURSIVE scan `StubScan`, as its while loop
runs. `PanicScreenCorrect` checks the screen at `halt()`. It starts with
`ScreenHead`: the message and registers, then `dump_len` instruction lines
with the arrow on the first only (or the unmapped-eip notice), then
"Stack:". When the trace holds an interrupt stub's return address, the
frames after it must follow, as `Interrupted` computes them with
`SelectInSeq`.

A trace without a stub is deliberately not covered. The comment above the
loop in `print_stack_symbols` (`panic.cpp:88`) says the loop start
"discards the first function call to kmain". Without a stub,
`trace_offset` returns 0 and discards nothing. Which frame the comment
means depends on the order `trace_stack` returns, and that code is not
under `src/`. So the model can neither confirm the comment nor show it
wrong, and the property does not claim either behaviour.

**Bounds.**
- Stacks of up to three frames, over a user address, an unknown kernel
  address, both stub return addresses and a function. This includes
  stacks with two stubs, with a stub last, and with none.
- Instructions of 1 and 4 bytes, and the code's `dump_len` of 6.
- Eips in user space, in a kernel function, and 3 bytes before the end of
  the mapping.

**Fairness.** `WF_vars(Next)`: with interrupts masked, `panic()` runs to
`halt()`.

## 8. Runs

| Run | Config | Expect | What it shows |
|---|---|---|---|
| `cache_fine_clock` | `MCDiskCache.cfg` | pass | With ticks that never repeat, the recency index stays in lockstep with the cache (`RecencyConsistent`). Every eviction takes the least recently touched sector (`LRUEviction`). The cache with its disk implements `SectorStore` (`ImplementsSectorStore`): reads return the last data written, and eviction write-back never loses or changes data, even when a disk read or write-back fails. |
| `cache_coarse_clock` | `MCDiskCacheCoarse.cfg` | pass | With the real 100 Hz clock, a recency pair never names a sector under an old tick (`AccessPairsCurrent`). The refinement still holds up to the panic; the desynchronisation below makes the kernel stop, it does not corrupt data. Every call returns or ends in that panic (`CallsReturn`). Disk failures are on, and there is no symmetry because a liveness property is checked. |
| `cache_coarse_desync_panic` | `MCDiskCacheCoarseMap.cfg` | violation | Two chunks of one `write_sector` land in the same tick, and the `std::map` drops the second pair. The next `prune_cache` evicts the first sector and dereferences `begin()` of the now empty map while the second sector is still cached, and the kernel panics (`AssertionsHold`). |
| `cache_fill_overread` | `MCDiskCacheFill.cfg` | violation | `add_span` bounds a run by `count`, not by the end of the range, so it caches sectors past the request and past the disk (`FillStaysInRange`). |
| `smbios_identity_map` | `SMBIOS.cfg` | pass | On identity-mapped tables whose structures all carry strings and end their formatted area with a 0 byte, the walk reads every tag at a structure start (`WalkAligned`), returns the first structure of its type (`WalkReturnsFirst`), `cpu_info` reads the strings its fields name (`CpuStringsCorrect`), and no scan leaves its mapping (`ScansStayMapped`). |
| `smbios_scans_terminate` | `MCSMBIOS.cfg` | pass | For every table shape, mapping offset and window, each loop ends (`WalkTerminates`) and every result is nullptr or inside the table (`TypeOK`). This is the run where the failure paths happen: reads past the window or table, and the `strncmp` on nullptr. |
| `smbios_bios_strings` | `SMBIOSBiosStrings.cfg` | violation | `bios_info` passes the string number unchanged, and `get_string` counts from the last formatted byte, so the vendor, version and date it logs are string n-1 (`BiosStringsCorrect`). |
| `smbios_virtual_bound` | `SMBIOSMapped.cfg` | violation | The walk's bound compares the virtual cursor with the physical end of the table. With the mapping above the table, both functions return nullptr although the structure is there (`WalkReturnsFirst`). |
| `spinlock_cpus` | `Spinlock.cfg` | pass | Four CPUs never hold the lock together (`MutualExclusion`). Whenever one spins, some CPU gets the lock (`DeadlockFreedom`). |
| `font_irq_reentry` | `FontCache.cfg` | pass | The keyboard handler re-entering `Font::get` can make both contexts read and allocate the same glyph, but no caller is left holding a freed `Glyph` (`NoDanglingGlyph`). |
| `panic_stack_dump` | `MCPanic.cfg` | pass | Whatever the eip, the stack and the trace used, the screen at `halt()` shows six instructions from eip with the arrow on the first, or the unmapped notice. When a stub is on the trace, the frames after it follow, numbered from 1, one per line (`PanicScreenCorrect`). |
| `panic_disasm_fault` | `MCPanicDisasm.cfg` | violation | `print_disassembly` checks only that `eip` is mapped. Decoding from an `eip` 3 bytes before the end of the mapping reads the unmapped page inside `panic()` (`DisasmStaysMapped`). A fault handler that panics again would find `panic_regs` already set and fault on the same bytes. |

Every property of a passing run has a mutant in `PROJECT.json`: a plausible
bug in the mapped definition that TLC catches under that run's
configuration. Examples are a missing `erase` of the old key, an eviction
that skips the write-back, an index ordered the wrong way, a `len <= count`
loop test, and erasures placed inside the `if (dirty)`.

## 9. Not modelled, and why

- **Disk failures that do not raise.** A `Disk::read_sector` that returned
  a short buffer instead of raising would make `add_span` index `data[j]`
  past the chunks `split()` made. The `Disk` class is not under `src/`.
- **Partial last sector.** `PartialLast` is modelled in `DiskCache.tla`, but
  no run keeps it. With it on, a read returns a short sector: hazard
  `diskcache.cpp:45`.
- **Builds with `assert` compiled out.** The model assumes the kernel's
  assert is always active:
  - the erasures in `remove_entry` are inside `assert(...)`;
  - `Font::get` halts in `assert(false)`.
- **Byte-level sector data.** The properties only tell apart a sector's
  value and whether it was whole.
- **Inside the panic.** The model does not cover:
  - the register dump, the terminal calls and `beep()`, which are output
    only;
  - `get_disasm`'s decoding;
  - who sets `panic_regs` and `panic_use_exception_frame`. That code is
    not under `src/`, so both are inputs.
- **PCI driver table.** Drivers register through `ADD_PCI_DRIVER`
  constructors, defined outside `src/`. `interface_init` is a stateless
  double loop that offers each device to each driver once. Nothing runs
  concurrently with it, and nothing can go wrong in it that the code
  under `src/` decides.
- **Boot sequence.** A fixed, one-shot call sequence into code that is not
  under `src/`. The parts of it that have state are the SMBIOS and font
  models.
- **libc++.** This is vendored LLVM code, not the kernel's own. Its
  algorithms are sequential and tested upstream. Every run the project can
  afford goes to the kernel's own components.
