----------------------------- MODULE FontCache -----------------------------
(***************************************************************************)
(* Font::get of src/kern/graphics/fonts/font.cpp, called by the kernel's   *)
(* main flow and, through Keyboard::handle_char = Terminal::put_char       *)
(* (src/kern/i686/pc/init.hpp), by the keyboard interrupt handler, which   *)
(* may interrupt the main flow at any step and runs to completion.         *)
(*                                                                         *)
(* m_font_cache[c] is a unique_ptr<Glyph>.  An allocation is identified   *)
(* by a number: cache[c] = 0 is the empty pointer, k the k-th Glyph       *)
(* allocated for c; assigning a new one frees the previous one.  A caller *)
(* keeps the returned const Glyph& while it draws.  The build keeps its    *)
(* asserts, so a character past the cache stops the kernel at             *)
(* assert(false).                                                          *)
(***************************************************************************)
EXTENDS Naturals

CONSTANTS
    CacheSize,  \* m_font_cache.size()
    Chars,      \* the characters callers ask for
    MaxStores   \* bound on the Glyphs allocated for one character

Contexts == {"main", "irq"}

VARIABLES
    cache,      \* cache[c]: the Glyph m_font_cache[c] owns, 0 if none
    pc,         \* pc[x]: "idle", "read" (in read_glyph), "use" (drawing)
    req,        \* req[x]: the character context x asked for
    held,       \* held[x]: the allocation its reference points to
    halted      \* an assert stopped the kernel

vars == <<cache, pc, req, held, halted>>

Slots == 0 .. (CacheSize - 1)

\* The main flow runs only while no interrupt handler is running.
Running(x) == ~halted /\ (x = "irq" \/ pc["irq"] = "idle")

Init ==
    /\ cache = [c \in Slots |-> 0]
    /\ pc = [x \in Contexts |-> "idle"]
    /\ req = [x \in Contexts |-> 0]
    /\ held = [x \in Contexts |-> 0]
    /\ halted = FALSE

\* Mutant: the glyph is read again although it is cached.
GetHitReload(x, c) ==
    /\ pc[x] = "idle" /\ Running(x)
    /\ c < CacheSize /\ cache[c] # 0
    /\ pc' = [pc EXCEPT ![x] = "read"] /\ req' = [req EXCEPT ![x] = c]
    /\ UNCHANGED <<cache, held, halted>>

\* c < size and m_font_cache[c] set: return *m_font_cache[c].
GetHit(x, c) ==
    /\ pc[x] = "idle" /\ Running(x)
    /\ c < CacheSize /\ cache[c] # 0
    /\ pc' = [pc EXCEPT ![x] = "use"] /\ req' = [req EXCEPT ![x] = c]
    /\ held' = [held EXCEPT ![x] = cache[c]]
    /\ UNCHANGED <<cache, halted>>

\* c < size, empty slot: read_glyph(c) runs (and may be interrupted).
GetMiss(x, c) ==
    /\ pc[x] = "idle" /\ Running(x)
    /\ c < CacheSize /\ cache[c] = 0
    /\ pc' = [pc EXCEPT ![x] = "read"] /\ req' = [req EXCEPT ![x] = c]
    /\ UNCHANGED <<cache, held, halted>>

\* c past the cache: log_serial, then assert(false && "fix this").
GetOutside(x, c) ==
    /\ pc[x] = "idle" /\ Running(x)
    /\ c >= CacheSize
    /\ halted' = TRUE
    /\ UNCHANGED <<cache, pc, req, held>>

\* Mutant: the reference is taken before the new Glyph is assigned.
StoreReturnsOld(x) ==
    /\ pc[x] = "read" /\ Running(x) /\ cache[req[x]] < MaxStores
    /\ cache' = [cache EXCEPT ![req[x]] = @ + 1]
    /\ held' = [held EXCEPT ![x] = cache[req[x]]]
    /\ pc' = [pc EXCEPT ![x] = "use"]
    /\ UNCHANGED <<req, halted>>

\* m_font_cache[c] = make_unique<Glyph>(...) frees the previous Glyph; then
\* return *m_font_cache[c].
StoreGlyph(x) ==
    /\ pc[x] = "read" /\ Running(x) /\ cache[req[x]] < MaxStores
    /\ cache' = [cache EXCEPT ![req[x]] = @ + 1]
    /\ held' = [held EXCEPT ![x] = cache'[req[x]]]
    /\ pc' = [pc EXCEPT ![x] = "use"]
    /\ UNCHANGED <<req, halted>>

\* The caller is done with the glyph.
Release(x) ==
    /\ pc[x] = "use" /\ Running(x)
    /\ pc' = [pc EXCEPT ![x] = "idle"]
    /\ UNCHANGED <<cache, req, held, halted>>

Next ==
    \E x \in Contexts :
        \/ \E c \in Chars : GetHit(x, c) \/ GetMiss(x, c) \/ GetOutside(x, c)
        \/ StoreGlyph(x)
        \/ Release(x)

Spec == Init /\ [][Next]_vars

-----------------------------------------------------------------------------
(* Properties.                                                             *)

TypeOK ==
    /\ cache \in [Slots -> 0 .. MaxStores]
    /\ pc \in [Contexts -> {"idle", "read", "use"}]
    /\ req \in [Contexts -> Chars]
    /\ \A x \in Contexts : pc[x] = "use" => held[x] \in 1 .. MaxStores
    /\ halted \in BOOLEAN

\* A const Glyph& that get returned, to the main flow or to the keyboard
\* handler that interrupted it, still refers to the live Glyph of its
\* character for as long as the caller draws with it: no get in between
\* replaced (and so freed) it.
NoDanglingGlyph == \A x \in Contexts : pc[x] = "use" => held[x] = cache[req[x]]
=============================================================================
