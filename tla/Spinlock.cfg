\* Four CPUs contending for one spinlock_t.
SPECIFICATION Spec
CONSTANTS
    CPUs = {c1, c2, c3, c4}
INVARIANTS TypeOK MutualExclusion
PROPERTY DeadlockFreedom
