----------------------------- MODULE DiskCache -----------------------------
(***************************************************************************)
(* The sector cache of src/kern/drivers/storage/diskcache.cpp.             *)
(*                                                                         *)
(* DiskCache keeps m_cache, a map from sector index to CacheEntry          *)
(* {data, dirty, access_time}, and m_access_times, an ordered map from    *)
(* tick value to sector index that prune_cache() and flush() use to find   *)
(* the least recently used sector.  Every public call (write_sector,       *)
(* read_sector, flush, set_ratio) runs to completion on the single CPU,    *)
(* but the PIT interrupt may advance Time::total_ticks() between any two   *)
(* of its steps, so each call is modelled as the sequence of steps in      *)
(* which it reads the clock or changes the two maps, with pc the point    *)
(* reached and frame its local variables.                                  *)
(*                                                                         *)
(* A failing Disk call raises: nothing in diskcache.cpp catches it, so the *)
(* DiskCache call in progress ends at that point, and its caller decides  *)
(* whether the kernel goes on.                                             *)
(*                                                                         *)
(* Data is abstracted to a value and a flag telling whether the chunk was *)
(* a whole sector: split() leaves a shorter last chunk when the caller's  *)
(* buffer is not a multiple of the sector size.                            *)
(***************************************************************************)
EXTENDS Naturals, Sequences, FiniteSets, FiniteSetsExt, Functions

CONSTANTS
    NumSectors,   \* sectors of the Disk, 0 .. NumSectors-1
    MaxCount,     \* largest count (read) or chunk number (write) of a call
    Vals,         \* payload values of a sector
    OutOfRange,   \* what Disk::read_sector yields for an index past the end
    Ratios,       \* values of m_size_ratio and of MemoryInfo::usage_ratio()
    MaxTick,      \* bound on Time::total_ticks()
    FineClock,    \* TRUE: every total_ticks() call returns a fresh tick
    PartialLast,  \* TRUE: callers may write a buffer that is not a whole
                  \* number of sectors
    DiskFails     \* TRUE: a Disk::read_sector or write_sector may fail

ASSUME NumSectors \in Nat \ {0} /\ MaxCount \in Nat \ {0} /\ MaxTick \in Nat
ASSUME Ratios \subseteq Nat /\ Ratios # {}
ASSUME FineClock \in BOOLEAN /\ PartialLast \in BOOLEAN
ASSUME DiskFails \in BOOLEAN

Sectors == 0 .. (NumSectors - 1)

\* add_span may read up to count-1 sectors past the requested range.
Idx == 0 .. (NumSectors + MaxCount - 2)

Data  == [val : Vals \cup {OutOfRange}, full : BOOLEAN]
Entry == [data : Data, dirty : BOOLEAN, at : 0 .. MaxTick]

\* The locals of the call in progress: first sector, count, loop indices
\* i (absolute sector) and j, and the length of the run being filled.
Frame   == [sec : Idx, count : 0 .. MaxCount, i : 0 .. (NumSectors + 2 * MaxCount),
            j : 0 .. MaxCount, len : 0 .. MaxCount]
NoFrame == [sec |-> 0, count |-> 0, i |-> 0, j |-> 0, len |-> 0]

PCs == {"idle", "write", "fill", "fillAdd", "collect", "prune", "flush", "panic"}

VARIABLES
    cache,    \* m_cache: a function from the cached sectors to Entry
    access,   \* m_access_times: a set of <<ticks, sector>> pairs
    disk,     \* the sectors on the Disk
    now,      \* Time::total_ticks()
    ratio,    \* m_size_ratio
    pc,       \* the step the current call has reached
    frame,    \* its locals
    out,      \* the MemBuffer read_sector builds and returns
    req       \* <<sec, count>> of the last read_sector call

vars == <<cache, access, disk, now, ratio, pc, frame, out, req>>

-----------------------------------------------------------------------------
(* Collaborators and the two containers.                                   *)

\* Disk::read_sector, one sector of the returned buffer.
DiskAt(s) == IF s \in Sectors THEN disk[s] ELSE [val |-> OutOfRange, full |-> TRUE]

\* m_access_times.count(t) # 0
HasKey(t) == \E p \in access : p[1] = t

\* m_access_times.erase(t): the pair with key t goes.
EraseKey(acc, t) == {p \in acc : p[1] # t}

\* m_access_times.emplace(t, s): a std::map ignores it when key t is present.
Emplace(acc, t, s) ==
    IF \E p \in acc : p[1] = t THEN acc ELSE acc \cup {<<t, s>>}

\* Mutant: the recency index ordered the wrong way (rbegin()).
BeginMax == {p \in access : \A q \in access : p[1] >= q[1]}

\* The pair m_access_times.begin() denotes: the one with the least key.
Begin == {p \in access : \A q \in access : p[1] <= q[1]}

\* The value of Time::total_ticks() read by a step, and its effect on the
\* clock: a fine clock has moved on by the next call.
Ticks == now
Tock  == now' = IF FineClock THEN now + 1 ELSE now

\* A failed assert, an m_cache.at() of an absent key, or a dereference of
\* an empty map's begin(): the kernel stops.
Panic ==
    /\ pc' = "panic"
    /\ UNCHANGED <<cache, access, disk, now, ratio, frame, out, req>>

-----------------------------------------------------------------------------
(* add_to_cache, remove_entry and the recency update of read_sector.       *)

\* The assert of add_to_cache's hit path holds (a miss needs nothing).
AddToCacheOK(s) == IF s \in DOMAIN cache THEN HasKey(cache[s].at) ELSE TRUE

\* Mutant: the entry is stored clean whatever `write` says.
AddToCacheNeverDirty(s, d, write) ==
    /\ access' = IF s \in DOMAIN cache
                 THEN Emplace(EraseKey(access, cache[s].at), Ticks, s)
                 ELSE Emplace(access, Ticks, s)
    /\ cache' = [x \in DOMAIN cache \cup {s} |->
                    IF x = s THEN [data |-> d, dirty |-> FALSE, at |-> Ticks]
                             ELSE cache[x]]
    /\ Tock

\* add_to_cache(sec, data, write): read the clock; on a miss emplace the pair
\* and the entry, on a hit replace data and dirty, erase the old key and
\* emplace the new one.
AddToCache(s, d, write) ==
    /\ access' = IF s \in DOMAIN cache
                 THEN Emplace(EraseKey(access, cache[s].at), Ticks, s)
                 ELSE Emplace(access, Ticks, s)
    /\ cache' = [x \in DOMAIN cache \cup {s} |->
                    IF x = s THEN [data |-> d, dirty |-> write, at |-> Ticks]
                             ELSE cache[x]]
    /\ Tock

\* Mutant: the old (access_time, sector) pair is not erased.
TouchNoErase(s) ==
    /\ access' = Emplace(access, Ticks, s)
    /\ cache' = [cache EXCEPT ![s].at = Ticks]
    /\ Tock

\* read_sector's loop body after merge(): re-key sector s at the current tick.
Touch(s) ==
    /\ access' = Emplace(EraseKey(access, cache[s].at), Ticks, s)
    /\ cache' = [cache EXCEPT ![s].at = Ticks]
    /\ Tock

\* Mutant: a dirty entry is dropped without m_disk.write_sector.
RemoveEntryNoWriteBack(id) ==
    /\ access' = EraseKey(access, cache[id].at)
    /\ cache' = Restrict(cache, DOMAIN cache \ {id})
    /\ UNCHANGED disk

\* Mutant: the erasures sit inside the `if (dirty)` with the write-back.
RemoveEntryDirtyOnly(id) ==
    IF cache[id].dirty
    THEN /\ disk' = [disk EXCEPT ![id] = cache[id].data]
         /\ access' = EraseKey(access, cache[id].at)
         /\ cache' = Restrict(cache, DOMAIN cache \ {id})
    ELSE UNCHANGED <<disk, access, cache>>

\* remove_entry(id): write a dirty entry back, erase its key, erase it.
RemoveEntry(id) ==
    /\ disk' = IF cache[id].dirty THEN [disk EXCEPT ![id] = cache[id].data] ELSE disk
    /\ access' = EraseKey(access, cache[id].at)
    /\ cache' = Restrict(cache, DOMAIN cache \ {id})

\* A Disk call raises out of the DiskCache call in progress, which ends
\* with the two maps as they are.
Raise ==
    /\ pc' = "idle"
    /\ frame' = NoFrame
    /\ UNCHANGED <<cache, access, disk, now, ratio, out, req>>

\* Mutant: remove_entry erases the entry before writing it back, so the
\* write-back that raises has already dropped it.
WriteBackFailsErased(id) ==
    /\ DiskFails
    /\ cache[id].dirty
    /\ access' = EraseKey(access, cache[id].at)
    /\ cache' = Restrict(cache, DOMAIN cache \ {id})
    /\ pc' = "idle"
    /\ frame' = NoFrame
    /\ UNCHANGED <<disk, now, ratio, out, req>>

\* m_disk.write_sector(id, ...) of a dirty entry raises before the erasures
\* of remove_entry: the entry stays cached and dirty.
WriteBackFails(id) ==
    /\ DiskFails
    /\ cache[id].dirty
    /\ Raise

\* remove_entry(m_access_times.begin()->second), the body of the loops of
\* prune_cache and flush.  The pair begin() denotes is always current
\* (AccessPairsCurrent), so m_cache.at(id) and both asserts of remove_entry
\* succeed; what can fail is begin() itself, on an empty m_access_times,
\* and the write-back.
EvictLRU ==
    \/ /\ access = {}
       /\ Panic
    \/ \E p \in Begin :
          \/ /\ RemoveEntry(p[2])
             /\ UNCHANGED <<now, ratio, pc, frame, out, req>>
          \/ WriteBackFails(p[2])
-----------------------------------------------------------------------------
(* write_sector(sec, data): one add_to_cache(sec + i, chunks[i], true)    *)
(* per chunk, then prune_cache().  n is the number of chunks split() made; *)
(* only the last one can be shorter than a sector.                         *)

WriteSector(s, n) ==
    /\ pc = "idle"
    /\ FineClock => now + n <= MaxTick
    /\ pc' = "write"
    /\ frame' = [NoFrame EXCEPT !.sec = s, !.count = n, !.i = s]
    /\ UNCHANGED <<cache, access, disk, now, ratio, out, req>>

WriteChunk ==
    /\ pc = "write"
    /\ frame.i < frame.sec + frame.count
    /\ \E v \in Vals,
          whole \in IF PartialLast /\ frame.i = frame.sec + frame.count - 1
                   THEN BOOLEAN ELSE {TRUE} :
          \/ /\ AddToCacheOK(frame.i)
             /\ AddToCache(frame.i, [val |-> v, full |-> whole], TRUE)
             /\ frame' = [frame EXCEPT !.i = @ + 1]
             /\ UNCHANGED <<disk, ratio, pc, out, req>>
          \/ /\ ~AddToCacheOK(frame.i)
             /\ Panic

WriteDone ==
    /\ pc = "write"
    /\ frame.i = frame.sec + frame.count
    /\ pc' = "prune"
    /\ frame' = NoFrame
    /\ UNCHANGED <<cache, access, disk, now, ratio, out, req>>

-----------------------------------------------------------------------------
(* read_sector(sec, count): add_span fills the misses, the collect loop    *)
(* copies every sector into the buffer and re-keys it, then prune_cache(). *)

ReadSector(s, n) ==
    /\ pc = "idle"
    /\ FineClock => now + 3 * n <= MaxTick
    /\ pc' = "fill"
    /\ frame' = [NoFrame EXCEPT !.sec = s, !.count = n, !.i = s]
    /\ out' = <<>>
    /\ req' = <<s, n>>
    /\ UNCHANGED <<cache, access, disk, now, ratio>>

\* The run add_span reads from a missing sector i: len grows from 1 while
\* sector i + len is missing and len < count.
\* Mutant: the run loop tests len <= count.
RunLengthPastCount(i) ==
    Min({l \in 1 .. (frame.count + 1) : l = frame.count + 1 \/ (i + l) \in DOMAIN cache})
RunLength(i) == Min({l \in 1 .. frame.count : l = frame.count \/ (i + l) \in DOMAIN cache})

FillSkip ==
    /\ pc = "fill"
    /\ frame.i < frame.sec + frame.count
    /\ frame.i \in DOMAIN cache
    /\ frame' = [frame EXCEPT !.i = @ + 1]
    /\ UNCHANGED <<cache, access, disk, now, ratio, pc, out, req>>

\* m_disk.read_sector(i, len): the disk does not change before the run's
\* sectors are added, so each add below takes its sector from it.
FillMiss ==
    /\ pc = "fill"
    /\ frame.i < frame.sec + frame.count
    /\ frame.i \notin DOMAIN cache
    /\ frame' = [frame EXCEPT !.len = RunLength(frame.i), !.j = 0]
    /\ pc' = "fillAdd"
    /\ UNCHANGED <<cache, access, disk, now, ratio, out, req>>

\* m_disk.read_sector(i, len) raises: the runs already added stay cached,
\* and nothing of this run is.
FillReadFails ==
    /\ DiskFails
    /\ pc = "fill"
    /\ frame.i < frame.sec + frame.count
    /\ frame.i \notin DOMAIN cache
    /\ Raise

\* add_to_cache(i + j, data[j]) for j < len, then i += len.  Every sector
\* of the run was missing, so add_to_cache takes its miss path.
FillAdd ==
    LET s == frame.i + frame.j IN
    /\ pc = "fillAdd"
    /\ AddToCache(s, DiskAt(s), FALSE)
    /\ IF frame.j + 1 = frame.len
       THEN /\ frame' = [frame EXCEPT !.i = @ + frame.len, !.j = 0, !.len = 0]
            /\ pc' = "fill"
       ELSE /\ frame' = [frame EXCEPT !.j = @ + 1]
            /\ UNCHANGED pc
    /\ UNCHANGED <<disk, ratio, out, req>>

FillDone ==
    /\ pc = "fill"
    /\ frame.i >= frame.sec + frame.count
    /\ pc' = "collect"
    /\ frame' = [frame EXCEPT !.i = frame.sec]
    /\ UNCHANGED <<cache, access, disk, now, ratio, out, req>>

\* merge(data, m_cache.at(i).data), then the erase/emplace of its tick.
\* add_span has just cached every sector of the range and nothing was
\* evicted since, so m_cache.at(i) finds it.
Collect ==
    /\ pc = "collect"
    /\ frame.i < frame.sec + frame.count
    /\ out' = Append(out, cache[frame.i].data)
    /\ Touch(frame.i)
    /\ frame' = [frame EXCEPT !.i = @ + 1]
    /\ UNCHANGED <<disk, ratio, pc, req>>

CollectDone ==
    /\ pc = "collect"
    /\ frame.i = frame.sec + frame.count
    /\ pc' = "prune"
    /\ frame' = NoFrame
    /\ UNCHANGED <<cache, access, disk, now, ratio, out, req>>

-----------------------------------------------------------------------------
(* prune_cache, flush, set_ratio, and the timer interrupt.                 *)

\* mem_usage_ratio() returns MemoryInfo::usage_ratio(), a reading of the
\* whole system's memory use: any value of Ratios, read afresh each test.
UsageAbove  == \E u \in Ratios : u > ratio
UsageWithin == \E u \in Ratios : u <= ratio

\* The loop test of prune_cache: the cache is not empty and the oracle
\* reports a usage above m_size_ratio.
PruneEvict ==
    /\ pc = "prune"
    /\ DOMAIN cache # {}
    /\ UsageAbove
    /\ EvictLRU

PruneDone ==
    /\ pc = "prune"
    /\ DOMAIN cache = {} \/ UsageWithin
    /\ pc' = "idle"
    /\ UNCHANGED <<cache, access, disk, now, ratio, frame, out, req>>

Flush ==
    /\ pc = "idle"
    /\ pc' = "flush"
    /\ UNCHANGED <<cache, access, disk, now, ratio, frame, out, req>>

FlushEvict ==
    /\ pc = "flush"
    /\ DOMAIN cache # {}
    /\ EvictLRU

FlushDone ==
    /\ pc = "flush"
    /\ DOMAIN cache = {}
    /\ pc' = "idle"
    /\ UNCHANGED <<cache, access, disk, now, ratio, frame, out, req>>

SetRatio(r) ==
    /\ pc = "idle"
    /\ ratio' = r
    /\ pc' = "prune"
    /\ UNCHANGED <<cache, access, disk, now, frame, out, req>>

\* The PIT interrupt; it is masked once the kernel panics.
Tick ==
    /\ ~FineClock
    /\ pc # "panic"
    /\ now < MaxTick
    /\ now' = now + 1
    /\ UNCHANGED <<cache, access, disk, ratio, pc, frame, out, req>>

-----------------------------------------------------------------------------
Init ==
    /\ cache = [s \in {} |-> CHOOSE e \in Entry : TRUE]
    /\ access = {}
    /\ disk \in [Sectors -> [val : Vals, full : {TRUE}]]
    /\ now = 0
    /\ ratio \in Ratios
    /\ pc = "idle"
    /\ frame = NoFrame
    /\ out = <<>>
    /\ req = <<0, 0>>

\* The steps of a call in progress.
Step ==
    \/ WriteChunk \/ WriteDone
    \/ FillSkip \/ FillMiss \/ FillReadFails \/ FillAdd \/ FillDone \/ Collect \/ CollectDone
    \/ PruneEvict \/ PruneDone \/ FlushEvict \/ FlushDone

\* The calls the file-system layer makes, one at a time.
Call ==
    \/ \E s \in Sectors, n \in 1 .. MaxCount : s + n <= NumSectors /\ WriteSector(s, n)
    \/ \E s \in Sectors, n \in 0 .. MaxCount : s + n <= NumSectors /\ ReadSector(s, n)
    \/ Flush
    \/ \E r \in Ratios : SetRatio(r)

Next == Call \/ Step \/ Tick

\* A call runs to completion on the CPU: its steps are weakly fair.  The
\* caller and the timer are not.
Spec == Init /\ [][Next]_vars /\ WF_vars(Step)
-----------------------------------------------------------------------------
(* Properties.                                                             *)

\* Every variable holds a value of its C++ type's modelled range.
TypeOK ==
    /\ DOMAIN cache \subseteq Idx
    /\ \A s \in DOMAIN cache : cache[s] \in Entry
    /\ access \subseteq (0 .. MaxTick) \X Idx
    /\ disk \in [Sectors -> Data]
    /\ now \in 0 .. MaxTick
    /\ ratio \in Ratios
    /\ pc \in PCs
    /\ frame \in Frame
    /\ out \in Seq(Data)
    /\ req \in Idx \X (0 .. MaxCount)

\* The invariant the class relies on (and asserts in add_to_cache and
\* remove_entry): m_access_times holds exactly one <<access_time, sector>>
\* pair per entry of m_cache and nothing else, and no two entries share an
\* access_time.  Every step that re-keys a sector must keep it.
RecencyConsistent ==
    /\ {p[2] : p \in access} = DOMAIN cache
    /\ \A s \in DOMAIN cache : <<cache[s].at, s>> \in access
    /\ Cardinality(access) = Cardinality(DOMAIN cache)
    /\ \A s, o \in DOMAIN cache : s # o => cache[s].at # cache[o].at

\* prune_cache and flush evict through m_access_times.begin(): a sector
\* leaves m_cache only if no other cached sector was touched less recently
\* (true global LRU, as the spec promises).
LRUEviction ==
    [][\A s \in DOMAIN cache \ DOMAIN cache' :
          \A o \in DOMAIN cache : cache[s].at <= cache[o].at]_vars

\* Every call the kernel starts returns, or ends in a panic: the fill,
\* collect, prune and flush loops all terminate, whatever the memory oracle
\* reports and wherever a Disk call fails.
CallsReturn == (pc # "idle") ~> (pc \in {"idle", "panic"})

\* Every pair of m_access_times names a cached sector under the tick that
\* sector holds now, whatever the clock: a re-keyed or removed sector never
\* leaves a pair behind.  So the pair begin() returns always leads
\* remove_entry to a present entry whose key is present, and the only
\* desynchronisation possible is a cached sector with no pair.
AccessPairsCurrent ==
    \A p \in access : p[2] \in DOMAIN cache /\ cache[p[2]].at = p[1]

\* None of the kernel's asserts fires and no empty begin() is dereferenced.
AssertionsHold == pc # "panic"

\* Seen from its callers, the cache and the disk together behave as the
\* plain sector array of SectorStore: a read returns, sector by sector,
\* the last data written, and evicting or flushing (with its write-back of
\* dirty entries) never changes what a later read returns.
Mem == [s \in Idx |-> IF s \in DOMAIN cache THEN cache[s].data ELSE DiskAt(s)]

WriteReq == IF pc = "write" THEN <<frame.i, frame.sec + frame.count>> ELSE <<0, 0>>

LogicalDisk == INSTANCE SectorStore WITH mem <- Mem, wreq <- WriteReq

ImplementsSectorStore == LogicalDisk!Spec

\* add_span caches only sectors of the range [sec, sec + count) it was asked
\* for: the spec's coalescing example expects the single device read to
\* cover exactly the missing sectors of the range.
FillStaysInRange ==
    [][pc = "fillAdd" =>
         \A s \in DOMAIN cache' \ DOMAIN cache :
            s \in frame.sec .. (frame.sec + frame.count - 1)]_vars

\* read_sector returns count * sector_size bytes: every sector merged into
\* the buffer is a whole sector.
ReadReturnsWholeSectors == \A k \in 1 .. Len(out) : out[k].full
=============================================================================
