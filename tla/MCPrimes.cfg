\* _MAX_PRIMES scaled down to 11 primes (the sieve runs up to 31, past the
\* composites with two witnesses, 12, 18, 20, 24, 28, 30), up to three
\* process ends.
CONSTANTS
    Count = 11
    MaxRestarts = 3
SPECIFICATION Spec
\* The last process returns from __init__ and the model allows no later one.
CHECK_DEADLOCK FALSE
INVARIANT TypeOK SieveInvariant
PROPERTY AbsSpec
