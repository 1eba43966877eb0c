----------------------------- MODULE PrimeCache -----------------------------
(***************************************************************************)
(* CachedPrimes(count) of src/bbgroup/bb_utils.py: load the pickled list   *)
(* of primes from the cache file, or else draw count primes from the       *)
(* incremental sieve GenPrimes and pickle them to the file.                *)
(*                                                                         *)
(* The file outlives the process.  The process may be killed at any point  *)
(* (Restart): its locals are lost, the file keeps what was written, and a  *)
(* kill inside Caching.Save -- open(fn, 'wb') has truncated the file and   *)
(* pickle.dump has not finished -- leaves a truncated pickle, which        *)
(* pickle.load rejects.                                                    *)
(***************************************************************************)
EXTENDS Integers, Sequences, FiniteSets, SequencesExt

CONSTANTS
    Count,        \* the count argument of CachedPrimes
    MaxRestarts   \* kills of the process the model allows

VARIABLES
    file,      \* the cache file: [kind |-> "absent" | "truncated" | "pickle", data]
    phase,     \* "load", "gen", "save" or "ready" (__init__ returned)
    D,         \* GenPrimes' D: composite -> primes witnessing it
    q,         \* GenPrimes' q
    L,         \* the list CachedPrimes appends to
    count,     \* CachedPrimes' count
    primes,    \* self.__primes
    restarts   \* kills so far

vars == <<file, phase, D, q, L, count, primes, restarts>>

NoFile == [kind |-> "absent", data |-> <<>>]

\* The reference: the primes below n, in order.
IsPrime(n) == n > 1 /\ \A d \in 2..(n - 1) : n % d # 0
PrimesBelow(n) == SelectSeq([i \in 1..(n - 2) |-> i + 1], IsPrime)

\* The locals of a fresh __init__.
Fresh ==
    /\ phase' = "load"
    /\ D' = <<>>
    /\ q' = 2
    /\ L' = <<>>
    /\ count' = Count
    /\ primes' = <<>>

Init ==
    /\ file = NoFile
    /\ phase = "load"
    /\ D = <<>>
    /\ q = 2
    /\ L = <<>>
    /\ count = Count
    /\ primes = <<>>
    /\ restarts = 0

\* A variant of Load that unpickles whatever the file holds.
LoadNoCheck ==
    /\ phase = "load"
    /\ IF file.kind # "absent"
       THEN /\ primes' = file.data
            /\ phase' = "ready"
       ELSE /\ phase' = "gen"
            /\ UNCHANGED primes
    /\ UNCHANGED <<file, D, q, L, count, restarts>>

(* Caching.Load: pickle.load succeeds only on a complete pickle; any      *)
(* exception is caught and reported as not ok.                            *)
Load ==
    /\ phase = "load"
    /\ IF file.kind = "pickle"
       THEN /\ primes' = file.data
            /\ phase' = "ready"
       ELSE /\ phase' = "gen"
            /\ UNCHANGED primes
    /\ UNCHANGED <<file, D, q, L, count, restarts>>

(* GenPrimes, q composite: move every witness p of q to p + q (setdefault *)
(* and append, in the order of D[q]), then del D[q].                       *)
RECURSIVE MoveWitnesses(_, _, _)
MoveWitnesses(d, ws, n) ==
    IF ws = <<>> THEN d
    ELSE LET k == Head(ws) + n
         IN  MoveWitnesses(IF k \in DOMAIN d THEN [d EXCEPT ![k] = Append(@, Head(ws))]
                           ELSE d @@ (k :> <<Head(ws)>>),
                           Tail(ws), n)

SieveComposite ==
    /\ phase = "gen"
    /\ q \in DOMAIN D
    /\ D' = LET d == MoveWitnesses(D, D[q], q)
            IN  [k \in DOMAIN d \ {q} |-> d[k]]
    /\ q' = q + 1
    /\ UNCHANGED <<file, phase, L, count, primes, restarts>>

(* GenPrimes yields a prime q; CachedPrimes appends it and breaks once    *)
(* count <= 1, else decrements count and resumes the generator, which     *)
(* records q*q with witness q and moves on.                               *)
SievePrimeNoMark ==
    /\ phase = "gen"
    /\ q \notin DOMAIN D
    /\ L' = Append(L, q)
    /\ IF count <= 1
       THEN /\ phase' = "save"
            /\ UNCHANGED <<D, q, count>>
       ELSE /\ count' = count - 1
            /\ q' = q + 1
            /\ UNCHANGED <<phase, D>>
    /\ UNCHANGED <<file, primes, restarts>>

SievePrimeOffByOne ==
    /\ phase = "gen"
    /\ q \notin DOMAIN D
    /\ L' = Append(L, q)
    /\ IF count < 1
       THEN /\ phase' = "save"
            /\ UNCHANGED <<D, q, count>>
       ELSE /\ count' = count - 1
            /\ D' = D @@ (q * q :> <<q>>)
            /\ q' = q + 1
            /\ UNCHANGED phase
    /\ UNCHANGED <<file, primes, restarts>>

SievePrime ==
    /\ phase = "gen"
    /\ q \notin DOMAIN D
    /\ L' = Append(L, q)
    /\ IF count <= 1
       THEN /\ phase' = "save"
            /\ UNCHANGED <<D, q, count>>
       ELSE /\ count' = count - 1
            /\ D' = D @@ (q * q :> <<q>>)
            /\ q' = q + 1
            /\ UNCHANGED phase
    /\ UNCHANGED <<file, primes, restarts>>

(* self.__primes = L, then Caching.Save, whose failure is ignored: a      *)
(* failed dump leaves the truncated file behind.                           *)
Save ==
    /\ phase = "save"
    /\ \E ok \in BOOLEAN :
         file' = IF ok THEN [kind |-> "pickle", data |-> L]
                 ELSE [kind |-> "truncated", data |-> <<>>]
    /\ primes' = L
    /\ phase' = "ready"
    /\ UNCHANGED <<D, q, L, count, restarts>>

(* The process ends -- killed before __init__ returns (inside Save, the   *)
(* file is left truncated), or later -- and a new one constructs          *)
(* CachedPrimes again.                                                    *)
Restart ==
    /\ restarts < MaxRestarts
    /\ file' = IF phase = "save" THEN [kind |-> "truncated", data |-> <<>>] ELSE file
    /\ restarts' = restarts + 1
    /\ Fresh

Step == Load \/ SieveComposite \/ SievePrime \/ Save

Next == Step \/ Restart

\* The process runs alone; once it is no longer killed it proceeds.
Spec == Init /\ [][Next]_vars /\ WF_vars(Step)

-----------------------------------------------------------------------------
\* The variables keep the shapes the code gives them.
TypeOK ==
    /\ file \in [kind : {"absent", "truncated", "pickle"}, data : Seq(Nat)]
    /\ phase \in {"load", "gen", "save", "ready"}
    /\ q \in Nat /\ q >= 2
    /\ L \in Seq(Nat) /\ Len(L) <= Count
    /\ count \in 1..Count
    /\ restarts \in 0..MaxRestarts

\* The incremental sieve's invariant: while generating, L holds exactly
\* the primes below q, and every prime p already yielded waits in D at
\* its next multiple not below q (and not below p*p).
NextMultiple(p, n) == LET m == ((n + p - 1) \div p) * p IN IF m < p * p THEN p * p ELSE m
SieveInvariant ==
    phase = "gen" =>
      /\ L = PrimesBelow(q)
      /\ \A i \in DOMAIN L : LET p == L[i] IN
            NextMultiple(p, q) \in DOMAIN D /\ p \in Range(D[NextMultiple(p, q)])

\* The refinement mapping: a table exists once __init__ has returned, and
\* it is self.__primes; the file, the sieve and the kills inside __init__
\* are hidden.
Abs == INSTANCE PrimeTable WITH ready <- phase = "ready",
                                table <- IF phase = "ready" THEN primes ELSE <<>>

\* CachedPrimes implements PrimeTable: every constructed object holds the
\* first Count primes, whether they came from the sieve or from a cache
\* file written by an earlier, possibly killed, process; a kill loses only
\* the object; and the constructor returns once processes are no longer
\* killed.
AbsSpec == Abs!Spec
=============================================================================
