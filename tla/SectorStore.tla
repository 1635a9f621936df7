---------------------------- MODULE SectorStore ----------------------------
(***************************************************************************)
(* What DiskCache promises its callers, with the cache taken away: an     *)
(* array of sectors that a write replaces and a read copies out, one      *)
(* sector after the other, into the buffer the read returns.  The cache,   *)
(* the recency index, the clock and the write-back on eviction are all    *)
(* invisible at this level: evicting or flushing changes nothing a caller *)
(* can observe.                                                            *)
(***************************************************************************)
EXTENDS Naturals, Sequences, FiniteSets

CONSTANTS
    Idx,        \* sector indices a caller can observe
    Data        \* contents of one sector

VARIABLES
    mem,        \* mem[s]: what a read of sector s must return
    out,        \* the buffer of the read in progress (or of the last read)
    req,        \* <<first sector, count>> of that read
    wreq        \* <<next sector, end>> of the write in progress, <<0, 0>> if none

vars == <<mem, out, req, wreq>>

Init ==
    /\ mem \in [Idx -> Data]
    /\ out = <<>>
    /\ req = <<0, 0>>
    /\ wreq = <<0, 0>>

\* write_sector(s, buffer of n sectors) begins.
BeginWrite(s, n) ==
    /\ wreq' = <<s, s + n>>
    /\ UNCHANGED <<mem, out, req>>

\* The next sector of the caller's buffer replaces the stored one.  Only a
\* write changes what is stored.
Store(d) ==
    /\ wreq[1] < wreq[2]
    /\ mem' = [mem EXCEPT ![wreq[1]] = d]
    /\ wreq' = <<wreq[1] + 1, wreq[2]>>
    /\ UNCHANGED <<out, req>>

\* The write returns once its whole buffer is stored.
EndWrite ==
    /\ wreq[1] = wreq[2]
    /\ wreq' = <<0, 0>>
    /\ UNCHANGED <<mem, out, req>>

\* The kernel halts in the middle of a write.
Abort ==
    /\ wreq' = <<0, 0>>
    /\ UNCHANGED <<mem, out, req>>

\* read_sector begins with an empty buffer for count sectors from s.
BeginRead(s, n) ==
    /\ req' = <<s, n>>
    /\ out' = <<>>
    /\ UNCHANGED <<mem, wreq>>

\* The next sector of the requested range is appended, as it is now.
Load ==
    /\ Len(out) < req[2]
    /\ out' = Append(out, mem[req[1] + Len(out)])
    /\ UNCHANGED <<mem, req, wreq>>

Next ==
    \/ \E s \in Idx, n \in 0 .. Cardinality(Idx) : BeginWrite(s, n)
    \/ \E d \in Data : Store(d)
    \/ EndWrite
    \/ Abort
    \/ \E s \in Idx, n \in 0..Cardinality(Idx) : BeginRead(s, n)
    \/ Load

Spec == Init /\ [][Next]_vars
=============================================================================
