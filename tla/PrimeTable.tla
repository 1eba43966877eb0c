----------------------------- MODULE PrimeTable -----------------------------
(***************************************************************************)
(* What CachedPrimes(count) of src/bbgroup/bb_utils.py promises its        *)
(* callers (get_cmd_prime_characteristics indexes it): a constructed       *)
(* object holds the first count primes, in order.  A process may end at    *)
(* any time and a later one constructs the table again; the constructor    *)
(* eventually returns.  How the table is obtained (cache file or sieve)    *)
(* is not visible here.                                                    *)
(***************************************************************************)
EXTENDS Integers, Sequences

CONSTANT Count

VARIABLES
    ready,   \* a CachedPrimes object has been constructed in this process
    table    \* its list of primes (<<>> while there is none)

IsPrime(n) == n > 1 /\ \A d \in 2..(n - 1) : n % d # 0

\* The first n primes from k on, in increasing order.
RECURSIVE FirstPrimesFrom(_, _)
FirstPrimesFrom(n, k) == IF n = 0 THEN <<>>
                         ELSE IF IsPrime(k) THEN <<k>> \o FirstPrimesFrom(n - 1, k + 1)
                         ELSE FirstPrimesFrom(n, k + 1)
FirstPrimes(n) == FirstPrimesFrom(n, 2)

Init == ready = FALSE /\ table = <<>>

\* The constructor returns with the first Count primes.
Construct == ~ready /\ ready' = TRUE /\ table' = FirstPrimes(Count)

\* The process ends; a new one starts without a table.
End == ready' = FALSE /\ table' = <<>>

Next == Construct \/ End

Spec == Init /\ [][Next]_<<ready, table>> /\ WF_<<ready, table>>(Construct)
=============================================================================
