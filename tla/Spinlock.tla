------------------------------ MODULE Spinlock ------------------------------
(***************************************************************************)
(* The spin_lock and spin_unlock macros of src/kern/tasking/spinlock.hpp,  *)
(* run by several CPUs on one spinlock_t.  spin_lock retries               *)
(* __sync_bool_compare_and_swap(name, 0, 1) until it succeeds; spin_unlock *)
(* issues __sync_synchronize() and then stores 0.  A CPU outside the lock *)
(* decides by itself when to take it again.                               *)
(***************************************************************************)
EXTENDS Naturals

CONSTANT
    CPUs        \* the processors sharing the lock

VARIABLES
    lock,       \* the spinlock_t word
    pc          \* pc[c]: where CPU c is

vars == <<lock, pc>>

\* From the successful compare-and-swap until the store of 0.
Holding == {"cs", "fence", "store"}

Init ==
    /\ lock = 0
    /\ pc = [c \in CPUs |-> "ncs"]

\* The caller reaches spin_lock(name).
Request(c) ==
    /\ pc[c] = "ncs"
    /\ pc' = [pc EXCEPT ![c] = "spin"]
    /\ UNCHANGED lock

\* Mutant: __sync_fetch_and_add(name, 1) == 0 instead of the compare-and-swap.
TryAcquireFetchAdd(c) ==
    /\ pc[c] = "spin"
    /\ lock' = lock + 1
    /\ pc' = IF lock = 0 THEN [pc EXCEPT ![c] = "cs"] ELSE pc

\* Mutant: the compare is dropped, 1 is stored whatever the word holds.
TryAcquireNoCompare(c) ==
    /\ pc[c] = "spin"
    /\ lock' = 1
    /\ pc' = [pc EXCEPT ![c] = "cs"]

\* One turn of the while loop: the compare-and-swap either takes the lock
\* or fails and the CPU pauses and retries.
TryAcquire(c) ==
    /\ pc[c] = "spin"
    /\ lock' = IF lock = 0 THEN 1 ELSE lock
    /\ pc' = IF lock = 0 THEN [pc EXCEPT ![c] = "cs"] ELSE pc

\* The critical section ends; spin_unlock(name) begins.
Leave(c) ==
    /\ pc[c] = "cs"
    /\ pc' = [pc EXCEPT ![c] = "fence"]
    /\ UNCHANGED lock

\* __sync_synchronize().
Fence(c) ==
    /\ pc[c] = "fence"
    /\ pc' = [pc EXCEPT ![c] = "store"]
    /\ UNCHANGED lock

\* Mutant: the store of 0 is missing.
StoreDropped(c) ==
    /\ pc[c] = "store"
    /\ pc' = [pc EXCEPT ![c] = "ncs"]
    /\ UNCHANGED lock

\* *(name) = 0.
Store(c) ==
    /\ pc[c] = "store"
    /\ pc' = [pc EXCEPT ![c] = "ncs"]
    /\ lock' = 0

\* Everything a CPU does once it has called spin_lock.
Run(c) == TryAcquire(c) \/ Leave(c) \/ Fence(c) \/ Store(c)

Next == \E c \in CPUs : Request(c) \/ Run(c)

\* Every CPU keeps executing the macros once it is in them; when a CPU
\* calls spin_lock is up to its caller, so Request gets no fairness.
Spec == Init /\ [][Next]_vars /\ \A c \in CPUs : WF_vars(Run(c))

-----------------------------------------------------------------------------
(* Properties.                                                             *)

TypeOK ==
    /\ lock \in {0, 1}
    /\ pc \in [CPUs -> {"ncs", "spin"} \cup Holding]

\* At most one CPU is between a successful compare-and-swap and the store
\* of 0 that releases the lock.
MutualExclusion == \A c, d \in CPUs : pc[c] \in Holding /\ pc[d] \in Holding => c = d

\* Whenever some CPU spins in spin_lock, some CPU eventually gets the lock:
\* the lock is never lost.
DeadlockFreedom == (\E c \in CPUs : pc[c] = "spin") ~> (\E c \in CPUs : pc[c] = "cs")
=============================================================================
