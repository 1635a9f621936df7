------------------------------- MODULE SMBIOS -------------------------------
(***************************************************************************)
(* The SMBIOS code of src/kern/i686/pc/smbios/smbios.cpp, run in the order *)
(* i686::pc::init calls it: locate(), then bios_info(), then cpu_info().   *)
(*                                                                         *)
(* locate() scans a window of 16-byte paragraphs for the "_SM_" anchor and *)
(* sums `length` bytes from it.  A paragraph is abstracted to whether it   *)
(* holds the anchor, its length byte mem[5] and the residue of the sum.    *)
(*                                                                         *)
(* bios_info() and cpu_info() walk the structure table byte by byte.  The  *)
(* table is built from a sequence of structure descriptions: each is the   *)
(* bytes <<type, length, Filler.., last>> of its formatted area, then its *)
(* strings, each one character Chr(k) long and NUL-terminated, then the   *)
(* NUL that ends the string set (two NULs when there is no string).        *)
(* Offsets are relative to the table's physical start; the walk's cursor  *)
(* mem is relative to the virtual address Memory::mmap returned, which is *)
(* `delta` above the physical one.                                        *)
(***************************************************************************)
EXTENDS Integers, Sequences, SequencesExt

CONSTANTS
    Paragraphs,   \* paragraphs of the window locate() maps (0x10000 / 16)
    AnchorLens,   \* values of the entry point's length byte mem[5]
    Types,        \* type bytes of the table's structures (127 excluded)
    FmtLen,       \* tag->length, the formatted length of each structure
    Filler,       \* the formatted bytes between the length and the last one
    LastBytes,    \* values of a structure's last formatted byte
    MinStrings,   \* fewest strings of a structure
    MaxStrings,   \* most strings of a structure
    MaxStructs,   \* most structures before the end-of-table structure
    EndMarked,    \* whether the table ends with a type-127 structure
    Deltas        \* Memory::mmap(TableAddress, ...) - TableAddress

ASSUME FmtLen >= 3 /\ 0 <= MinStrings /\ MinStrings <= MaxStrings

Null    == -1   \* nullptr
Past    == -2   \* a read outside the mapping
NotCalled == -3

Fns == {"bios", "cpu"}
Want(f) == IF f = "bios" THEN 0 ELSE 4      \* the tag->type each one looks for

Chr(k) == 64 + k                            \* the character of string k

NoAnchor  == [anchor |-> FALSE, len |-> 0, sum |-> 0]
Paragraph == {NoAnchor} \cup
             UNION {{[anchor |-> TRUE, len |-> l, sum |-> s] : s \in IF l = 0 THEN {0} ELSE {0, 1}} :
                        l \in AnchorLens}

StructRec  == [type : Types, last : LastBytes, nstr : MinStrings .. MaxStrings]
EndOfTable == [type |-> 127, last |-> 0, nstr |-> 0]

StringsArea(n) ==
    IF n = 0 THEN <<0, 0>>
    ELSE [i \in 1 .. 2 * n + 1 |-> IF i % 2 = 1 /\ i < 2 * n + 1 THEN Chr((i + 1) \div 2) ELSE 0]

Encode(s) == <<s.type, FmtLen>> \o [i \in 1 .. FmtLen - 3 |-> Filler] \o <<s.last>>
             \o StringsArea(s.nstr)

Tables == {b \o e : b \in UNION {[1 .. k -> StructRec] : k \in 1 .. MaxStructs},
                    e \in {IF m THEN <<EndOfTable>> ELSE <<>> : m \in EndMarked}}

VARIABLES
    win,      \* the paragraphs of the window locate() scans
    structs,  \* the structures of the table
    tbl,      \* its bytes
    delta,    \* virtual minus physical address of the mapped table
    pc,       \* the step reached
    para,     \* locate's cursor, in paragraphs
    ep,       \* entry_point # nullptr
    fn,       \* the function walking the table
    mem,      \* its cursor, from the mapped (virtual) address
    ret,      \* what bios_info and cpu_info returned
    got       \* the last get_string lookup: function, structure, number, result

vars == <<win, structs, tbl, delta, pc, para, ep, fn, mem, ret, got>>

\* The bytes in memory and the mapping: no step changes them.
inputs == <<win, structs, tbl, delta>>

TableOf(ss) == FlattenSeq([k \in 1 .. Len(ss) |-> Encode(ss[k])])
Table == tbl

Start(k) == IF k = 1 THEN 0 ELSE Len(FlattenSeq([j \in 1 .. k - 1 |-> Encode(structs[j])]))
Starts   == {Start(k) : k \in 1 .. Len(structs)}

InTable(i) == 0 <= i /\ i < Len(Table)
ByteAt(i)  == Table[i + 1]

-----------------------------------------------------------------------------
(* The scans.                                                              *)

\* The loop of find_strings_end: the first offset at or after o where two
\* NULs follow each other (offset[1] is read only if offset[0] = 0).
RECURSIVE NextDoubleNul(_)
NextDoubleNul(o) ==
    IF ~InTable(o) \/ (ByteAt(o) = 0 /\ ~InTable(o + 1)) THEN Past
    ELSE IF ByteAt(o) = 0 /\ ByteAt(o + 1) = 0 THEN o
    ELSE NextDoubleNul(o + 1)

\* Mutant: the address of the two NULs is returned, not the one after.
FindStringsEndAtNul(o) == NextDoubleNul(o)

\* Mutant: one byte short of the end of the string set.
FindStringsEndShort(o) == IF NextDoubleNul(o) = Past THEN Past ELSE NextDoubleNul(o) + 1

\* find_strings_end(offset): the address after the two NULs.
FindStringsEnd(o) == IF NextDoubleNul(o) = Past THEN Past ELSE NextDoubleNul(o) + 2

\* get_string(offset, number): idx (a uint8_t) counts the NULs passed; the
\* first position where idx = number is returned, nullptr at two NULs.
RECURSIVE GetStringFrom(_, _, _)
GetStringFrom(o, idx, number) ==
    IF ~InTable(o) \/ (ByteAt(o) = 0 /\ ~InTable(o + 1)) THEN Past
    ELSE IF ByteAt(o) = 0 /\ ByteAt(o + 1) = 0 THEN Null
    ELSE IF idx = number THEN o
    ELSE GetStringFrom(o + 1, IF ByteAt(o) = 0 THEN (idx + 1) % 256 ELSE idx, number)

GetString(o, number) == GetStringFrom(o, 1, number)

\* The string a char* denotes: its bytes up to the NUL.
RECURSIVE StringAt(_)
StringAt(p) == IF ~InTable(p) \/ ByteAt(p) = 0 THEN <<>> ELSE <<ByteAt(p)>> \o StringAt(p + 1)

-----------------------------------------------------------------------------
(* locate()                                                                *)

\* The whole window scanned without a match: "no SMBIOS found".
LocateMiss ==
    /\ pc = "locate" /\ para = Paragraphs
    /\ pc' = "enter"
    /\ UNCHANGED <<inputs, para, ep, fn, mem, ret, got>>

\* The checksum loop of an anchor reads mem[0 .. length-1] past the window.
LocateOverread ==
    /\ pc = "locate" /\ para < Paragraphs
    /\ win[para].anchor /\ 16 * para + win[para].len > 16 * Paragraphs
    /\ pc' = "pastWindow"
    /\ UNCHANGED <<inputs, para, ep, fn, mem, ret, got>>

\* Mutant: an anchor is taken without its checksum.
LocateFoundAnyAnchor ==
    /\ pc = "locate" /\ para < Paragraphs
    /\ win[para].anchor /\ 16 * para + win[para].len <= 16 * Paragraphs
    /\ pc' = "enter" /\ ep' = TRUE
    /\ UNCHANGED <<inputs, para, fn, mem, ret, got>>

\* An anchor whose `length` bytes sum to 0 becomes entry_point.
LocateFound ==
    /\ pc = "locate" /\ para < Paragraphs
    /\ win[para].anchor /\ 16 * para + win[para].len <= 16 * Paragraphs
    /\ win[para].sum = 0
    /\ pc' = "enter" /\ ep' = TRUE
    /\ UNCHANGED <<inputs, para, fn, mem, ret, got>>

\* mem += 16: no anchor here, or its checksum is not 0.
LocateNext ==
    /\ pc = "locate" /\ para < Paragraphs
    /\ ~win[para].anchor \/ (16 * para + win[para].len <= 16 * Paragraphs /\ win[para].sum # 0)
    /\ para' = para + 1
    /\ UNCHANGED <<inputs, pc, ep, fn, mem, ret, got>>

-----------------------------------------------------------------------------
(* bios_info() and cpu_info()                                             *)

\* The function returns r; init then calls cpu_info after bios_info.
Return(r) ==
    /\ ret' = [ret EXCEPT ![fn] = r]
    /\ fn' = "cpu"
    /\ pc' = IF fn = "bios" THEN "enter" ELSE "done"

\* `if (entry_point)`: map the table and start at its mapped address, or
\* warn and return nullptr.
Enter ==
    /\ pc = "enter"
    /\ IF ep THEN pc' = "walk" /\ mem' = 0 /\ UNCHANGED <<fn, ret>>
             ELSE Return(Null) /\ UNCHANGED mem
    /\ UNCHANGED <<inputs, para, ep, got>>

\* Mutant: the loop test admits the address one past the end.
WalkTestLE == mem + delta <= Len(Table)

\* while (mem < entry_point->TableAddress + entry_point->TableLength): mem
\* is a virtual address, the bound a physical one.
WalkTest == mem + delta < Len(Table)

\* Mutant: the loop's exit returns the cursor instead of nullptr.
WalkEndReturnsCursor ==
    /\ pc = "walk" /\ ~WalkTest
    /\ Return(mem)
    /\ UNCHANGED <<inputs, para, ep, mem, got>>

WalkEnd ==
    /\ pc = "walk" /\ ~WalkTest
    /\ Return(Null)
    /\ UNCHANGED <<inputs, para, ep, mem, got>>

\* tag->type == 127: break, and return nullptr.
WalkEndOfTable ==
    /\ pc = "walk" /\ WalkTest /\ InTable(mem) /\ ByteAt(mem) = 127
    /\ Return(Null)
    /\ UNCHANGED <<inputs, para, ep, mem, got>>

WalkFound ==
    /\ pc = "walk" /\ WalkTest /\ InTable(mem) /\ ByteAt(mem) = Want(fn)
    /\ pc' = "lookup"
    /\ UNCHANGED <<inputs, para, ep, fn, mem, ret, got>>

\* mem += tag->length - 1; mem = find_strings_end(mem).
NextTag == FindStringsEnd(mem + ByteAt(mem + 1) - 1)

WalkSkip ==
    /\ pc = "walk" /\ WalkTest /\ InTable(mem) /\ ByteAt(mem) \notin {127, Want(fn)}
    /\ InTable(mem + 1) /\ NextTag # Past
    /\ mem' = NextTag
    /\ UNCHANGED <<inputs, pc, para, ep, fn, ret, got>>

\* The tag or the strings after it lie outside the mapped table.
WalkPastTable ==
    /\ pc = "walk" /\ WalkTest
    /\ \/ ~InTable(mem)
       \/ InTable(mem) /\ ByteAt(mem) \notin {127, Want(fn)}
          /\ IF InTable(mem + 1) THEN NextTag = Past ELSE TRUE
    /\ pc' = "pastTable"
    /\ UNCHANGED <<inputs, para, ep, fn, mem, ret, got>>

\* Mutant: cpu_info passes the field unchanged, as bios_info does.
LookupNumberUnshifted(n) == n

\* The number get_string receives: the field itself in bios_info, the
\* field + 1 converted to uint8_t in cpu_info.
LookupNumber(n) == IF fn = "bios" THEN n ELSE (n + 1) % 256

\* get_string(tag_end, number), tag_end = mem + tag->length - 1.
Found(n) == GetString(mem + ByteAt(mem + 1) - 1, LookupNumber(n))

\* The field values a lookup may carry: a string of the structure, or 0.
Numbers == IF \E k \in 1 .. Len(structs) : Start(k) = mem
           THEN 0 .. structs[CHOOSE k \in 1 .. Len(structs) : Start(k) = mem].nstr
           ELSE 0 .. MaxStrings

\* The string is logged (and in cpu_info compared with "QEMU"); the
\* function returns the structure.
LookupDone(n) ==
    /\ pc = "lookup" /\ InTable(mem + 1) /\ Found(n) # Past
    /\ fn = "cpu" => Found(n) # Null
    /\ got' = [fn |-> fn, at |-> mem, n |-> n, r |-> Found(n)]
    /\ Return(mem)
    /\ UNCHANGED <<inputs, para, ep, mem>>

\* strncmp(get_string(...), "QEMU", 4) on a nullptr.
LookupFault(n) ==
    /\ pc = "lookup" /\ fn = "cpu" /\ InTable(mem + 1) /\ Found(n) = Null
    /\ pc' = "fault"
    /\ UNCHANGED <<inputs, para, ep, fn, mem, ret, got>>

LookupPast(n) ==
    /\ pc = "lookup" /\ ~(InTable(mem + 1) /\ Found(n) # Past)
    /\ pc' = "pastTable"
    /\ UNCHANGED <<inputs, para, ep, fn, mem, ret, got>>

-----------------------------------------------------------------------------

NoLookup == [fn |-> "none", at |-> 0, n |-> 0, r |-> Null]

Init ==
    /\ win \in [0 .. Paragraphs - 1 -> Paragraph]
    /\ structs \in Tables
    /\ tbl = TableOf(structs)
    /\ delta \in Deltas
    /\ pc = "locate" /\ para = 0 /\ ep = FALSE
    /\ fn = "bios" /\ mem = 0
    /\ ret = [f \in Fns |-> NotCalled]
    /\ got = NoLookup

Next ==
    \/ LocateMiss \/ LocateOverread \/ LocateFound \/ LocateNext
    \/ Enter \/ WalkEnd \/ WalkEndOfTable \/ WalkFound \/ WalkSkip \/ WalkPastTable
    \/ \E n \in Numbers : LookupDone(n) \/ LookupFault(n) \/ LookupPast(n)

\* init() runs these calls to completion on the only CPU: a step that can
\* be taken is taken.
Spec == Init /\ [][Next]_vars /\ WF_vars(Next)

-----------------------------------------------------------------------------
(* Properties.                                                             *)

TypeOK ==
    /\ pc \in {"locate", "enter", "walk", "lookup", "done", "pastWindow", "pastTable", "fault"}
    /\ para \in 0 .. Paragraphs /\ ep \in BOOLEAN /\ fn \in Fns
    /\ ret \in [Fns -> {NotCalled, Null} \cup (0 .. Len(Table) - 1)]
    /\ got.r \in {Null} \cup (0 .. Len(Table) - 1)

\* The window holds an anchor whose checksum is 0.
EntryExists == \E p \in 0 .. Paragraphs - 1 : win[p].anchor /\ win[p].sum = 0

\* The first structure of f's type before the end-of-table structure.
Expected(f) ==
    LET ks == {k \in 1 .. Len(structs) :
                  structs[k].type = Want(f) /\ \A j \in 1 .. k - 1 : structs[j].type # 127}
    IN  IF ~EntryExists \/ ks = {} THEN Null ELSE Start(Min(ks))

\* bios_info and cpu_info return the first structure of type 0 and 4 of
\* the table locate() found, and nullptr when there is none or no table.
WalkReturnsFirst == \A f \in Fns : ret[f] # NotCalled => ret[f] = Expected(f)

\* The walk of bios_info and cpu_info reads every tag at the start of a
\* structure: find_strings_end lands exactly after each string set.
WalkAligned == pc \in {"walk", "lookup"} => mem \in Starts \cup {Len(Table)}

\* get_string as f calls it, on the structure it found, yields string
\* number n of that structure (the empty string or nullptr for 0).
StringsCorrect(f) ==
    got.fn = f /\ got.at \in Starts =>
        IF got.n = 0 THEN got.r = Null \/ StringAt(got.r) = <<>>
        ELSE got.r # Null /\ StringAt(got.r) = <<Chr(got.n)>>

\* The strings cpu_info logs and compares with "QEMU" are the ones its
\* structure's fields name.
CpuStringsCorrect == StringsCorrect("cpu")

\* The strings bios_info logs are the ones its structure's fields name.
BiosStringsCorrect == StringsCorrect("bios")

\* The boot's SMBIOS calls end: every loop of locate, bios_info, cpu_info,
\* get_string and find_strings_end ends, whatever bytes the table holds
\* (the walk returns, or reads outside its mapping, or faults).
WalkTerminates == <>(pc \in {"done", "pastWindow", "pastTable", "fault"})

\* No scan of locate, bios_info, cpu_info, get_string or find_strings_end
\* reads outside the memory Memory::mmap mapped for it.
ScansStayMapped == pc \notin {"pastWindow", "pastTable"}
=============================================================================
