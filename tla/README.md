# TLA+ models of GraphSlick's basic-block matcher (`src/bbgroup`)

GraphSlick finds repeated control-flow subgraphs (candidate inlined functions)
inside one function disassembled by IDA. This directory holds TLA+ models of
the Python in `src/bbgroup`, the TLC configurations that check them, and
`PROJECT.json`, which lists components, runs, mutants, the definition-to-source
map, findings and hazards.

## The system

| Part | Source | What it does |
|---|---|---|
| Fingerprints | `bb_ida.py` 57-233 | `hash_itype1` (SHA-1 of the concatenated decimal itypes), `hash_itype2` (SHA-1 of the product of per-instruction primes), `get_block_frequency` and `match_block_frequencies` (the fuzzy "freq" match) |
| Prime table | `bb_utils.py` 17-129 | `CachedPrimes` loads a pickled prime list from a file or generates it with the incremental sieve `GenPrimes` and pickles it (`Caching`) |
| Graph construction | `bb_ida.py` 310-398, `bb_types.py` | `IDABBMan.FromFlowchart` walks IDA's flow chart. For each block it links the successors (and, back, the block as their predecessor), then the predecessors (and, back, the block as their successor). With `use_cache` it first tries `BBMan.load` on the function's cache file and returns what loads; after building it pickles the blocks with `BBMan.save` |
| Scripts | `build_cache.py`, `ida_stats.py`, `t2.py`, `init.py` | the first three call `FromFlowchart(use_cache=True)` and so read or write the same graph cache (`build_cache.py` omits `hash_itype2`); `ida_stats.py` then prints the blocks grouped by H2, `t2.py` the H1 groups of two or more; `init.py` imports `bb_match` once per IDA session |
| Matcher | `bb_match.py` 36-311, 461-481 | `Analyze`: `hashBBMatch` groups blocks by H2 into `M`; `findSubGraphs` grows every seed pair with a coupled BFS (`findMatchInSuccs`, trials H1 → H2 → freq), trims it (`makeSubgraphSingleEntryPoint`), and records both variants under a path key; `sortByPathLen` and `GetMatchedWellFormedFunctions` filter the single-entry variants into the returned classes |
| Persistence | `bb_match.py` 319-459 | `SaveState` writes the PATH_INFO text of the returned classes (`SerializeMatchedInlineFunctions`) and pickles the matcher's stores, `LoadState` reads them back; `FindSimilar` answers queries from them |

The prime table feeds the fingerprints, the fingerprints and the graph feed
the matcher, and everything runs on one thread. Two things outlive one call:
the graph cache file, which any of the scripts may have written before
`Analyze` reads it, and the module-level `bbMatcher` (`bb_match.py:484`),
whose stores a later `Analyze` finds filled.

## Modules

- **`Fingerprint.tla`**: the fingerprint functions as pure operators.
  - SHA-1 is modelled as injective: a token is the value hashed.
  - An instruction's prime characteristic is a product of distinct primes. By
    unique factorisation it is modelled as the bag of the prime indices it
    multiplies, so `HashItype2` hashes the bag sum.
  - `MatchBlockFrequencies` compares the float ratios exactly, by
    cross-multiplication. A zero total is reported as `div0` (Python's
    `ZeroDivisionError`).
- **`Matcher.tla`**: `Analyze` on one function.
  - The state is the fields of `bbMatcherClass` (`M`, `pathPerNodeHashFull` as
    `full`, `pathPerNodeHash` as `single`, `size_dic`, `normalizedPathPerNodeHash`,
    `MovedSubgraph`), the graph (`succs`, `preds`), the input (flow chart `fc`,
    block contents) and a program counter.
  - The actions are:
    - `RunCacheScript` (a script run earlier in the IDA session loads the
      graph cache or builds and writes it, `build_cache` without H2; what
      `ida_stats` and `t2` print afterwards is left out);
    - `FromFlowchart` (`Analyze(func_addr)` is given the function's start, an
      address inside it, or one in no function, `FuncAddrs`. The cache file is
      looked up under `func_addr` and returned if it unpickles. Otherwise,
      with no function, `buildGRaphFromFunc` ignores the failed `ok` and makes
      `self.G` the error message, so `Analyze` raises `AttributeError`.
      Otherwise the whole build loop runs, then a save under the start address
      that may fail and leave a truncated file);
    - `HashBBMatch`;
    - `FindSubGraphsSeed` (the next key of `M`, in any order, as dict order allows);
    - `FindSubGraphsPair` (one seed pair: BFS, trim, both records);
    - `SortByPathLen`;
    - `FilterSize` and `FilterItem` (one size and one item of `GetMatchedWellFormedFunctions`, items in any order);
    - `FilterEnd`;
    - `AnalyzeAgain` (a later call on the singleton: the stores `M`, `full`,
      `single`, `sizeDic`, `normalized` are kept, the locals are fresh, and
      `prev` records what the previous call returned);
    - `SaveState` and `LoadState`. `SaveState` with a file name writes
      `stateFile`: the PATH_INFO text of `SerializeMatchedInlineFunctions`
      (`PathInfo`: one line per non-empty class, its paths deduplicated by
      `Reduced`, addresses and layout left out), then the pickled records.
      Without a file name it raises `NameError`, because only `cStringIO` is
      imported. `LoadState` is a fresh `bbMatcher` in a later session reading
      the records back.
  - `FindSimilar` is a query, so it is an operator over a path store and `M`,
    evaluated by the property that compares its answers before the save and
    after the load.
  - The BFS (`Bfs`, `SuccLoop`, `SuccStep`, `Trials`, `FindMatchInSuccs`) and
    the trim (`TrimLoop`) are RECURSIVE operators that follow the loops line
    by line. In particular:
    - `tmp_visited2Backup` is an alias, so the trials share one scratch set;
    - `m` is unbound when the successor list is empty;
    - the trim removes the loop variable left after the scan (the last node),
      and path2 is trimmed by index.
  - A Python exception sets `pc` to its name and ends the run. A graph
    without H2 carries the token `"None"`, and the path key raises
    `TypeError` when it concatenates it.
  - The fingerprint tables of the contents are computed once, into the
    constant-valued variable `fpt`.
- **`MCMatcher.tla`**: the instance.
  - It has four blocks, with every reachable chart of at most two successors
    per block and at most five edges (1020 charts).
  - It has three contents built from four instructions:
    - `BlkA` and `BlkB` share H1 but not H2;
    - `BlkA` and `BlkC` share H2 but not H1;
    - `BlkD` matches `BlkA` by frequency only.
  - Every assignment of contents to blocks is checked (82,620 initial states).
  - It also defines the smaller families: one content for every block (the
    two-call runs), two contents one of which is empty (zero-length-block
    run), and the sets of scripts and save outcomes the cfgs pick.
- **`PrimeCache.tla`**: `CachedPrimes(Count)` with the file as durable state.
  - The actions are `Load` (`Caching.Load` rejects a truncated pickle),
    `SieveComposite` and `SievePrime` (one iteration of `GenPrimes` and of
    the consuming loop) and `Save`, whose dump may fail and leave a
    truncated file.
  - `Restart` kills the process at any point. Inside `Save` it leaves the file
    truncated, because `open(fn, 'wb')` has already run.
  - `Abs` instantiates `PrimeTable` with the refinement mapping `ready <- phase
    = "ready"`, `table <- primes` once ready (else `<<>>`).
- **`MCPrimes.tla`**: `PrimeCache` as `bb_ida.py` instantiates it at import,
  `_CachedPrimes = CachedPrimes(_MAX_PRIMES)` (line 437), with a scaled-down
  `_MAX_PRIMES`.
- **`PrimeTable.tla`**: the abstract prime table. `Construct` gives the first
  `Count` primes; `End` (a process end) drops them; weak fairness on
  `Construct` says the constructor returns.

## Runs

| Run | Config | Expect | Shows |
|---|---|---|---|
| matcher_safety | `MCMatcher.cfg` | pass (1,023,309 states, ~1.8 min) | `TypeOK`; `GraphMirrorsChart` (spec invariant 1: succs and preds mirror each other and the chart, although every edge is linked twice); `MIsReference` (`M` is exactly the H2 grouping in id order without duplicates, spec invariant 5); `UniformBucketLength` (a bucket never mixes path lengths, which `sortByPathLen` relies on; the key hashes the node hashes of the full path followed by those of the trimmed one, a string that does not fix where the trimmed part starts, so nothing local rules out two lengths under one key); `EmittedClassesWellSized` |
| matcher_terminates | `MCMatcherLive.cfg` | pass (29,932 states, ~2 min) | two calls of `Analyze` on the singleton (at any of the three kinds of address), then `SaveState` (to a file, or raising `NameError`) and `LoadState`, with no script run before (scripts are checked by the safety run), with dumps that may fail: `AnalyzeTerminates` (every call returns, under weak fairness); `GraphMirrorsChart` (a loaded or rebuilt graph, never a truncated file); `MIsReference` (the second `hashBBMatch` adds nothing to `M`); `RerunRecordsSame` (the second call records exactly the path stores of the first); `PathInfoListsResult` (every line of the PATH_INFO text names each path once and at least two paths; the second call appends every class's paths again to the lists the first left, and only the `__str__` duplicate test removes them) |
| prime_cache | `MCPrimes.cfg` | pass (238 states) | the sieve invariant and `AbsSpec`: `CachedPrimes` refines `PrimeTable` across kills and truncated files (every constructed table is the first `Count` primes, and construction returns) |
| single_entry_store | `MC_SingleEntryStore.cfg` | violation | a `path2_bis` that is not single-entry is recorded (spec invariant 3) |
| emitted_well_formed | `MC_EmittedWellFormed.cfg` | violation | only the first path of a class is checked for external jumps |
| trim_maximal | `MC_TrimMaximal.cfg` | violation | the trim removes the last node rather than the offending one (spec 4.7) |
| no_nested_paths | `MC_NoNestedPathsInClass.cfg` | violation | two paths over one block set stay in one class (spec invariant 4) |
| unbound_local | `MC_NoUnboundLocal.cfg` | violation | `UnboundLocalError` in `findMatchInSuccs` (spec 7 says the core never throws) |
| zero_division | `MC_NoZeroDivision.cfg` | violation | `ZeroDivisionError` for an empty block (spec 4.3 says the division is guarded) |
| cache_without_h2 | `MC_NoTypeError.cfg` | violation | after `build_cache.py` cached the graph, `Analyze` loads it without H2 and raises `TypeError` in the path key |
| rerun_same_result | `MC_RerunSameResult.cfg` | violation | a second `Analyze` of the same function returns every class with each path twice |
| find_similar_round_trip | `MC_FindSimilarRoundTrip.cfg` | violation | after `SaveState` and `LoadState`, `FindSimilar` reads the single-entry store as `pathPerNodeHashFull` and loses answers (spec 6 requires round-trip fidelity) |

Every property of a passing run has a mutant in `PROJECT.json`: a plausible
bug in the code it is about, which TLC finds.

## Bounds

- **Four blocks with at most five edges.** This is enough for:
  - cycles through the head;
  - a block with an external predecessor inside a path;
  - two seeds growing the same cycle;
  - a successor-less block paired with a block that has successors.

  Every counterexample above needs three or four blocks.
- **`MinFunctionSizeInBlocks = 3`.** `Analyze` uses the default of 4. With
  four blocks, two 4-block paths would cover the same blocks, and such a class
  is the only one the size filter could ever emit. The parameter is the function's own argument.
- **`Count = 11` primes.** The sieve runs up to 31 and passes composites with two witnesses (12, 18, 20, 24, 28, 30). Three
  restarts allow a truncated file, a regeneration and a kill after `ready`.
- **Node lists for `FindSimilar`.** Every list of one to three distinct
  blocks.
- **Scripts.** The safety run has `ida_stats.py` before `Analyze`, the
  liveness run none (a script there doubles the state space and the
  liveness check time), and the `cache_without_h2` run has `build_cache.py`
  and `t2.py`.
- **Two calls, one content.** A second call multiplies the states about
  thirty-fold (the doubled `size_dic` items are filtered in any order), so the
  two-call runs give every block the same content: every pair of blocks is a
  seed, which grows the longest paths and fills every store. The first
  call's cache may be absent, truncated or a pickle. With one content, a
  chart with a block that has no successors makes the first call raise
  `UnboundLocalError` as soon as the BFS pairs that block with one that has
  successors, so the second call, `RerunRecordsSame` and
  `PathInfoListsResult` after it are exercised on the sink-free charts
  only; the safety run covers the other charts with one call.

## Fairness

`Analyze` and `CachedPrimes` run on one thread with no waits, so once
called they keep taking steps. `FairSpec` is weak fairness on `AnalyzeStep`,
the steps of one `Analyze` call, and `PrimeCache` has weak fairness on `Step`.
Running a script, calling `Analyze` again, and saving or loading the state
are the user's choices, so they are never forced. A kill (`Restart`) is not
fair either: it may or may not happen, and `MaxRestarts` bounds the number
of kills. `AnalyzeTerminates` only asks that each call, once started,
returns.

## Not modelled (yet)

- **`LoadState(input=...)`.** It uses `StringIO`, which is not imported, and
  its input could only come from `SaveState()` without a file name, which
  raises first. Only the file path is an input.
- **An edited function.** The graph cache is keyed by address only, so a
  changed flow chart would still load the old graph; the chart is fixed per
  model run.
- **An exception followed by another call.** `AnalyzeAgain` starts only from
  a call that returned.

Not modelled at all:

- the `minFunctionHeadSize > 0` branch, which `Analyze` never takes (and
  whose `AddressIsInSubgraph` call would raise `NameError`);
- `RekeyDictionary`, which is never called with `rekey=True`;
- what `ida_stats.py` and `t2.py` print after loading the graph (the
  blocks grouped by hash and their counts): console output no property
  reads;
- the console helpers of `ida_stats.py` (`hash_node`, `read_analysis`,
  `addr_to_bb`), each one call that prints, and t2's lines after its
  `continue`, which never run;
- the `BBMan` helpers no code path of the tools uses: `build_from_id_string`
  and `find_by_addr` (only reached from tests and `addr_to_bb`), `clear`,
  `gen_dot` (empty), and `is_using_cache`, which lacks `self` and would raise
  `TypeError` if called.

Observed but not checked:

- `buildGRaphFromFunc` ignores `FromFlowchart`'s `ok`. For an address in no
  function, `Analyze` raises `AttributeError` on the error string. Spec 7 says
  a `BuilderFailure` is propagated to the caller with no partial results. The
  model reaches this end (pc `AttributeError`), but no run states the spec's
  rule yet.

- `tmp_visited2Backup = tmp_visited2` makes the backup an alias, so the
  candidates a failed H1 trial marked are merged into `visited2` after the
  pair is expanded. Spec section 9 resolves the ambiguity as a reset to the
  pre-trial set. Comparing the code's BFS with a copy that resets once over
  the safety run's state space, the two grow different paths on chart
  0->1, 1->2, 2->3, 3->{0,1}, with blocks 0 and 2 of equal H2.

- `FromFlowchart` builds `succs[b]` with the back-links of earlier blocks
  first. The BFS's successor order is therefore not IDA's order whenever a
  successor has a smaller id than its predecessor.
- `hash_itype2` multiplies the characteristics, so two blocks with the same
  instructions in another order get the same H2; spec 4.2 and scenario 5
  call H2 order-sensitive.
- `FindSimilar` of a single block that shares its H2 with no other block
  raises `KeyError` (`self.M` is a plain dict), where spec 4.10 returns `[]`.
- On spec scenario 1's tables, `match_block_frequencies` returns ok1 = true,
  ok2 = false, where the scenario expects the reverse.
