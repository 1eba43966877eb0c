------------------------------- MODULE MCPrimes -------------------------------
(***************************************************************************)
(* The prime table as bb_ida.py builds it at import: _CachedPrimes =       *)
(* CachedPrimes(_MAX_PRIMES) (PrimeCache, with its cache file and process  *)
(* kills), instantiated with a scaled-down _MAX_PRIMES for TLC.            *)
(***************************************************************************)
EXTENDS PrimeCache
=============================================================================
