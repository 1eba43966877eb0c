------------------------------- MODULE Matcher -------------------------------
(***************************************************************************)
(* bbMatcherClass.Analyze of src/bbgroup/bb_match.py on one function,      *)
(* preceded by the graph construction of IDABBMan.FromFlowchart            *)
(* (src/bbgroup/bb_ida.py).  One action per method of the pipeline, and    *)
(* one per iteration of the loops whose order the code leaves to Python    *)
(* dict iteration (the seed hashes of M, the items of size_dic).  The BFS  *)
(* of findSubGraphs and the trimming of makeSubgraphSingleEntryPoint are   *)
(* RECURSIVE operators evaluated inside the action for one seed pair.      *)
(*                                                                         *)
(* A Python exception (UnboundLocalError, ZeroDivisionError, TypeError,   *)
(* AttributeError, NameError) ends the run: pc becomes its name.         *)
(***************************************************************************)
EXTENDS Integers, Sequences, FiniteSets, SequencesExt, Functions, Fingerprint

CONSTANTS
    Blocks,                  \* block ids 0..N-1, dense as IDA numbers them
    Flowcharts,              \* possible IDA flow charts: Blocks -> successor sequence
    ContentList,             \* possible decoded contents of one block (a sequence)
    MinFunctionSizeInBlocks, \* argument of GetMatchedWellFormedFunctions
    CacheScripts,            \* scripts run before Analyze that write the graph cache:
                             \* subset of {"build_cache", "ida_stats"}
    SaveOutcomes,            \* whether Caching.Save may fail ({TRUE} or BOOLEAN)
    MaxAnalyses,             \* calls of Analyze on the one bbMatcher instance
    SaveStates               \* whether SaveState / LoadState follow Analyze

ASSUME Blocks = 0..(Cardinality(Blocks) - 1)

VARIABLES
    fpt,         \* the fingerprint tables Fp and Fm, fixed in Init
    fc,          \* the IDA flow chart being analysed (input)
    content,     \* decoded instructions of every block, as an index of ContentList (input)
    succs,       \* BBDef.succs, as FromFlowchart builds them
    preds,       \* BBDef.preds
    pc,          \* the step of Analyze the program is in
    M,           \* hash_itype2 token -> block ids sharing it
    todo,        \* seed hashes of M that findSubGraphs has not visited yet
    pairs,       \* remaining seed pairs <<A, B>> of the current seed hash
    seed,        \* the current seed hash
    full,        \* pathPerNodeHashFull: <<seed, key>> -> sequence of paths
    single,      \* pathPerNodeHash:     <<seed, key>> -> sequence of paths
    last,        \* locals of the last seed pair grown (path1, path2, path1_bis, path2_bis)
    sizeDic,     \* size_dic: path length -> bag of <<seed, key>>
    sizesLeft,   \* sizes GetMatchedWellFormedFunctions has still to visit
    pending,     \* items of the current size not yet visited
    normalized,  \* normalizedPathPerNodeHash: <<seed, key>> -> kept paths
    moved,       \* MovedSubgraph: set of paths already emitted
    cache,       \* the graph cache file of the function (BBMan.save / load)
    hasH2,       \* whether the blocks of self.G carry ctx.hash_itype2
    analyses,    \* calls of Analyze so far
    prev,        \* history: pathPerNodeHash(Full) and result of the previous call
    stateFile    \* the records SaveState wrote (<<>> before)

vars == <<fpt, fc, content, succs, preds, pc, M, todo, pairs, seed, full, single,
          last, sizeDic, sizesLeft, pending, normalized, moved, cache, hasH2,
          analyses, prev, stateFile>>

-----------------------------------------------------------------------------
(* Fingerprints of a block, as IDABBContext.get_context stores them.       *)
\* Computed once per content (constant-level tables).  content[b] is an
\* index into ContentList; a token is replaced by the smallest index (pair
\* of indices for freq) of a content producing the same token: only the
\* equality of tokens is ever used.
CIdx == DOMAIN ContentList
CanonH1(i) == <<1, Min({j \in CIdx : HashItype1(ContentList[j]) = HashItype1(ContentList[i])})>>
CanonH2(i) == <<2, Min({j \in CIdx : HashItype2(ContentList[j]) = HashItype2(ContentList[i])})>>
Fp == [i \in CIdx |-> [h1 |-> CanonH1(i), h2 |-> CanonH2(i)]]
FreqRaw == [p \in CIdx \X CIdx |-> FreqMatch(ContentList[p[1]], ContentList[p[2]])]
Fm == [p \in CIdx \X CIdx |->
         [FreqRaw[p] EXCEPT !.token =
            LET same == {q \in CIdx \X CIdx : FreqRaw[q].token = FreqRaw[p].token}
            IN  <<3, CHOOSE q \in same : \A o \in same : q[1] < o[1] \/ (q[1] = o[1] /\ q[2] <= o[2])>>]]

H1(b) == fpt.fp[content[b]].h1
\* ctx.hash_itype2, or None when the blocks were computed without it.
NoneToken == "None"
H2With(b, h2) == IF h2 THEN fpt.fp[content[b]].h2 ELSE NoneToken
H2(b) == H2With(b, hasH2)

\* IDA's FlowChart block.preds(): the blocks having b as a successor, in id order.
IdaPreds(b) == SetToSortSeq({p \in Blocks : b \in Range(fc[p])}, <)

Pred(b) == Range(preds[b])

-----------------------------------------------------------------------------
(* bbMatcherClass.match: a result [ok, token, div0] for hashType kind.     *)
Match(n1, n2, kind) ==
    CASE kind = "hash_itype1" -> [ok |-> H1(n1) = H1(n2), token |-> H1(n1), div0 |-> FALSE]
      [] kind = "hash_itype2" -> [ok |-> H2(n1) = H2(n2), token |-> H2(n1), div0 |-> FALSE]
      [] OTHER                -> fpt.fm[<<content[n1], content[n2]>>]

(* findMatchInSuccs: walk succs(Parent2); every eligible candidate (not  *)
(* in visitedNodes2, not Parent2, not in path2) is added to               *)
(* tmpVisitedNodes2, and the walk stops at the first eligible one that     *)
(* matches and is not node1 itself (the `continue`), or at an exception in *)
(* match.  m is the loop variable: unbound (UnboundLocalError) when        *)
(* succs(Parent2) is empty.                                                *)
FindMatchInSuccs(node1, parent2, kind, visited2, tmp, path2) ==
    LET ss    == succs[parent2]
        elig  == {i \in DOMAIN ss : ss[i] \notin visited2 /\ ss[i] # parent2
                                    /\ ss[i] \notin Range(path2)}
        r     == [i \in elig |-> Match(node1, ss[i], kind)]
        stops == {i \in elig : r[i].div0 \/ (r[i].ok /\ node1 # ss[i])}
        stop  == IF stops = {} THEN Len(ss) ELSE Min(stops)
        seen  == tmp \cup {ss[i] : i \in {e \in elig : e <= stop}}
    IN  IF ss = <<>>
        THEN [matched |-> FALSE, m |-> parent2, tmp |-> tmp, token |-> 0, crash |-> "UnboundLocalError"]
        ELSE IF stops = {}
        THEN [matched |-> FALSE, m |-> ss[Len(ss)], tmp |-> seen, token |-> 0, crash |-> "none"]
        ELSE [matched |-> ~r[stop].div0, m |-> ss[stop], tmp |-> seen,
              token |-> r[stop].token,
              crash |-> IF r[stop].div0 THEN "ZeroDivisionError" ELSE "none"]

(* The body of `for l in self.G[x].succs` in findSubGraphs: the three      *)
(* trials H1, H2, freq share tmp_visited2 (the backup is an alias).        *)
Trials(l, y, s, tmp) ==
    LET a == FindMatchInSuccs(l, y, "hash_itype1", s.v2, tmp, s.p2)
        b == IF a.matched \/ a.crash # "none" THEN a
             ELSE FindMatchInSuccs(l, y, "hash_itype2", s.v2, a.tmp, s.p2)
        c == IF b.matched \/ b.crash # "none" THEN b
             ELSE FindMatchInSuccs(l, y, "freq", s.v2, b.tmp, s.p2)
    IN c

(* The loops below carry a record through many iterations; Let(e, Op)   *)
(* applies Op to the value of e, evaluating e once.                       *)
Let(e, Op(_)) == CHOOSE o \in {Op(v) : v \in {e}} : TRUE

(* One successor l = succs[x][i] of the pair <<x, y>> being expanded; t   *)
(* is the BFS state, t.tmp its tmp_visited2.                              *)
SuccStep(x, y, i, t) ==
    LET l == succs[x][i] IN
    IF t.crash # "none" \/ l \in t.v1 \/ l = x \/ l \in Range(t.p1) THEN t
    ELSE Let(Trials(l, y, t, t.tmp), LAMBDA r :
           LET t1 == [t EXCEPT !.v1 = @ \cup {l}, !.crash = r.crash, !.tmp = r.tmp]
           IN  IF r.matched
               THEN [t1 EXCEPT !.hs = @ @@ (l :> r.token),
                               !.p1 = Append(@, l), !.p2 = Append(@, r.m),
                               !.q  = Append(@, <<l, r.m>>),
                               !.v2 = @ \cup {r.m}]
               ELSE t1)

(* `for l in self.G[x].succs`, from the i-th successor on.                *)
RECURSIVE SuccLoop(_, _, _, _)
SuccLoop(x, y, i, t0) ==
    Let(t0, LAMBDA t : IF i > Len(succs[x]) THEN t
                       ELSE SuccLoop(x, y, i + 1, SuccStep(x, y, i, t)))

(* `while not q1.empty()`: dequeue <<x, y>>, walk succs(x) with a fresh   *)
(* tmp_visited2, merge it into visited2.                                   *)
RECURSIVE Bfs(_)
Bfs(t0) ==
    Let(t0, LAMBDA t :
        IF t.q = <<>> \/ t.crash # "none" THEN t
        ELSE Bfs(Let(SuccLoop(Head(t.q)[1], Head(t.q)[2], 1,
                              [t EXCEPT !.q = Tail(@), !.tmp = {}]),
                     LAMBDA u : [u EXCEPT !.v2 = @ \cup u.tmp])))

(* The coupled BFS of findSubGraphs from the seed pair <<A, B>>.          *)
Grow(A, B) ==
    Bfs([q |-> <<<<A, B>>>>, p1 |-> <<A>>, p2 |-> <<B>>, v1 |-> {}, v2 |-> {},
         tmp |-> {}, hs |-> (A :> H2(A)), crash |-> "none"])

-----------------------------------------------------------------------------
(* makeSubgraphSingleEntryPoint: while some non-head node has a           *)
(* predecessor outside tmp_path1, remove `node` -- the loop variable, i.e. *)
(* the LAST node of tmp_path1 -- and the same index of tmp_path2.          *)
HasExternalPred(p, head) ==
    \E i \in DOMAIN p : p[i] # head /\ ~(Pred(p[i]) \subseteq Range(p))

RECURSIVE TrimLoop(_, _, _)
TrimLoop(t1, t2, head) ==
    IF HasExternalPred(t1, head) THEN TrimLoop(Front(t1), Front(t2), head)
    ELSE <<t1, t2>>

MakeSubgraphSingleEntryPoint(path1, path2) == TrimLoop(path1, path2, path1[1])

(* The subgraph key: SHA-1 of the node hashes along a path; pathHash1 is   *)
(* updated with the full path's string and then with the trimmed path's,   *)
(* so the key of pathPerNodeHash hashes both strings.                      *)
PathTokens(p, hs) == [i \in DOMAIN p |-> hs[p[i]]]
FullKey(g) == PathTokens(g.p1, g.hs)
\* Variant: a fresh SHA-1 object for the trimmed key, hashing the full path only.
SingleKeyFullOnly(g, bis1) == FullKey(g)
SingleKey(g, bis1) == FullKey(g) \o PathTokens(bis1, g.hs)

(* Record both paths in a bucket unless the same list is already there.   *)
(* Both duplicate tests read the bucket before either append.             *)
\* Variant: without the duplicate tests.
AddPathsNoDedup(store, k, p1, p2) ==
    LET bucket == IF k \in DOMAIN store THEN store[k] ELSE <<>>
    IN  [kk \in DOMAIN store \cup {k} |-> IF kk = k THEN bucket \o <<p1, p2>> ELSE store[kk]]

AddPaths(store, k, p1, p2) ==
    LET bucket == IF k \in DOMAIN store THEN store[k] ELSE <<>>
        new    == (IF p1 \in Range(bucket) THEN <<>> ELSE <<p1>>)
                  \o (IF p2 \in Range(bucket) THEN <<>> ELSE <<p2>>)
    IN  [kk \in DOMAIN store \cup {k} |-> IF kk = k THEN bucket \o new ELSE store[kk]]

-----------------------------------------------------------------------------
(* hashBBMatch('hash_itype2'): for i < j in id order, when the hashes are  *)
(* equal, M[x] := [i, j] for a new x, else append j unless already there. *)
\* Variant: without the `self.M[x].count(j)==0` test.
HashBBMatchStepNoDedup(m, i, j) ==
    LET x == H2(i) IN
    IF H2(j) # x THEN m
    ELSE IF x \notin DOMAIN m THEN m @@ (x :> <<i, j>>)
    ELSE [m EXCEPT ![x] = Append(@, j)]

HashBBMatchStep(m, i, j) ==
    LET x == H2(i) IN
    IF H2(j) # x THEN m
    ELSE IF x \notin DOMAIN m THEN m @@ (x :> <<i, j>>)
    ELSE IF j \in Range(m[x]) THEN m
    ELSE [m EXCEPT ![x] = Append(@, j)]

RECURSIVE HashBBMatchLoop(_, _, _)
HashBBMatchLoop(m0, i, j) ==
    Let(m0, LAMBDA m :
        CASE i >= Cardinality(Blocks) -> m
          [] j >= Cardinality(Blocks) -> HashBBMatchLoop(m, i + 1, i + 2)
          [] OTHER                    -> HashBBMatchLoop(HashBBMatchStep(m, i, j), i, j + 1))

(* The ordered pairs findSubGraphs grows from one entry of M:              *)
(* for z in range(len - 1): for j in M[i][z+1:].                           *)
SeedPairs(ids) ==
    FlattenSeq([z \in 1..(Len(ids) - 1) |->
                  [k \in 1..(Len(ids) - z) |-> <<ids[z], ids[z + k]>>]])

(* subgraphHasExternalJumpsIntoIt.                                         *)
SubgraphHasExternalJumpsIntoIt(p) ==
    \E i \in 2..Len(p) : ~(Pred(p[i]) \subseteq Range(p))

(* The paths of a class GetMatchedWellFormedFunctions keeps: those not a   *)
(* subset of a path already emitted.                                       *)
NotYetMoved(bucket, mv) ==
    SelectSeq(bucket, LAMBDA j : ~\E k \in mv : Range(j) \subseteq Range(k))

-----------------------------------------------------------------------------
(* The graph cache: BBMan.save pickles the block objects (ids, succs,     *)
(* preds and ctx); Caching.Load fails on a missing or truncated file.     *)
EmptyGraph == [succs |-> [b \in Blocks |-> <<>>], preds |-> [b \in Blocks |-> <<>>]]
NoCache == [kind |-> "absent", succs |-> EmptyGraph.succs, preds |-> EmptyGraph.preds,
            h2 |-> FALSE]
\* Caching.Save: open(fn, 'wb') truncates, and a failed dump leaves it so.
SavedCache(g, h2, ok) ==
    IF ok THEN [kind |-> "pickle", succs |-> g.succs, preds |-> g.preds, h2 |-> h2]
    ELSE [NoCache EXCEPT !.kind = "truncated"]
\* Variant: any file that exists counts as loaded.
loadAny(c) == c.kind # "absent"
\* BBMan.load: Caching.Load unpickles the file, or fails.
load(c) == c.kind = "pickle"

Init ==
    /\ fpt = [fp |-> Fp, fm |-> Fm]
    /\ fc \in Flowcharts
    /\ content \in [Blocks -> DOMAIN ContentList]
    /\ succs = [b \in Blocks |-> <<>>]
    /\ preds = [b \in Blocks |-> <<>>]
    /\ pc = "build"
    /\ M = <<>>
    /\ todo = {}
    /\ pairs = <<>>
    /\ seed = <<>>
    /\ full = <<>>
    /\ single = <<>>
    /\ last = <<>>
    /\ sizeDic = <<>>
    /\ sizesLeft = {}
    /\ pending = EmptyBag
    /\ normalized = <<>>
    /\ moved = {}
    /\ cache = NoCache
    /\ hasH2 = TRUE
    /\ analyses = 1
    /\ prev = <<>>
    /\ stateFile = <<>>

(* IDABBMan.FromFlowchart: `for block in fc`, in id order, appends the    *)
(* block's successors (linking each back as a predecessor), then its        *)
(* predecessors (linking each back as a successor); every edge is so       *)
(* linked twice.                                                           *)
\* Variant: the predecessor loop links with add_succ, like the successor loop.
LinkBlockPredAsSucc(g, b) ==
    [succs |-> [x \in Blocks |->
                  g.succs[x] \o (IF x = b THEN fc[b] \o IdaPreds(b) ELSE <<>>)],
     preds |-> [x \in Blocks |->
                  g.preds[x] \o (IF x \in Range(fc[b]) THEN <<b>> ELSE <<>>)
                             \o (IF x \in Range(IdaPreds(b)) THEN <<b>> ELSE <<>>)]]

LinkBlock(g, b) ==
    [succs |-> [x \in Blocks |->
                  g.succs[x] \o (IF x = b THEN fc[b] ELSE <<>>)
                             \o (IF x \in Range(IdaPreds(b)) THEN <<b>> ELSE <<>>)],
     preds |-> [x \in Blocks |->
                  g.preds[x] \o (IF x \in Range(fc[b]) THEN <<b>> ELSE <<>>)
                             \o (IF x = b THEN IdaPreds(b) ELSE <<>>)]]

RECURSIVE FromFlowchartLoop(_, _)
FromFlowchartLoop(g0, b) ==
    Let(g0, LAMBDA g : IF b >= Cardinality(Blocks) THEN g
                       ELSE FromFlowchartLoop(LinkBlock(g, b), b + 1))

\* The graph a fresh IDABBMan builds from IDA's flow chart.
BuiltGraph == FromFlowchartLoop(EmptyGraph, 0)

(* The address Analyze(func_addr) is given: the function's start, an     *)
(* address inside it, or one in no function.                              *)
FuncAddrs == {"start", "inside", "outside"}

(* buildGRaphFromFunc: a new IDABBMan, FromFlowchart(use_cache=True, all  *)
(* hashes).  The cache is looked up under func_addr: a file that loads is  *)
(* returned as the graph, whichever script wrote it.  Otherwise, with no   *)
(* function at func_addr, FromFlowchart returns (False, message) and       *)
(* buildGRaphFromFunc, ignoring ok, makes self.G that string: Analyze's    *)
(* `self.G.items()` raises AttributeError.  Else the graph is built and    *)
(* saved under the function's start address.                              *)
FromFlowchart ==
    /\ pc = "build"
    /\ \E addr \in FuncAddrs :
         CASE addr = "start" /\ load(cache) ->
                /\ succs' = cache.succs
                /\ preds' = cache.preds
                /\ hasH2' = cache.h2
                /\ pc' = "match"
                /\ UNCHANGED cache
           [] addr = "outside" ->
                /\ pc' = "AttributeError"
                /\ UNCHANGED <<succs, preds, hasH2, cache>>
           [] OTHER ->
                \E g \in {BuiltGraph}, ok \in SaveOutcomes :
                  /\ succs' = g.succs
                  /\ preds' = g.preds
                  /\ hasH2' = TRUE
                  /\ pc' = "match"
                  /\ cache' = SavedCache(g, TRUE, ok)
    /\ UNCHANGED <<fpt, stateFile, fc, content, M, todo, pairs, seed, full, single, last,
                   sizeDic, sizesLeft, pending, normalized, moved, analyses, prev>>

(* A script run in the same IDA session before Analyze: a fresh         *)
(* IDABBMan's FromFlowchart(use_cache=True) -- build_cache.py without     *)
(* get_hash_itype2, ida_stats.py and t2.py with it -- returns the cached  *)
(* blocks when the file loads, else builds and saves them.  What          *)
(* ida_stats and t2 then print is output only and left out.               *)
RunCacheScript ==
    /\ pc = "build"
    /\ \E s \in CacheScripts, ok \in SaveOutcomes, g \in {BuiltGraph} :
         cache' = IF load(cache) THEN cache ELSE SavedCache(g, s # "build_cache", ok)
    /\ UNCHANGED <<fpt, stateFile, fc, content, succs, preds, pc, M, todo, pairs, seed, full,
                   single, last, sizeDic, sizesLeft, pending, normalized, moved,
                   hasH2, analyses, prev>>

(* Analyze: hashBBMatch('hash_itype2') over the graph, into self.M as     *)
(* the previous calls left it.                                            *)
HashBBMatch ==
    /\ pc = "match"
    /\ M' = HashBBMatchLoop(M, 0, 1)
    /\ todo' = DOMAIN M'
    /\ pc' = "grow"
    /\ UNCHANGED <<fpt, stateFile, cache, hasH2, analyses, prev, fc, content, succs, preds, pairs, seed, full, single, last,
                   sizeDic, sizesLeft, pending, normalized, moved>>

(* findSubGraphs, `for i in self.M.keys()`: the next seed hash, in dict    *)
(* order (any).                                                            *)
\* Variant: the seed hash is not moved on to the new key.
FindSubGraphsSeedKeep ==
    /\ pc = "grow"
    /\ pairs = <<>>
    /\ \E h \in todo :
         /\ todo' = todo \ {h}
         /\ pairs' = SeedPairs(M[h])
    /\ UNCHANGED <<fpt, stateFile, cache, hasH2, analyses, prev, fc, content, succs, preds, pc, M, seed,
                   full, single, last, sizeDic, sizesLeft, pending, normalized, moved>>

FindSubGraphsSeed ==
    /\ pc = "grow"
    /\ pairs = <<>>
    /\ \E h \in todo :
         /\ seed' = h
         /\ todo' = todo \ {h}
         /\ pairs' = SeedPairs(M[h])
    /\ UNCHANGED <<fpt, stateFile, cache, hasH2, analyses, prev, fc, content, succs, preds, pc, M, full, single, last,
                   sizeDic, sizesLeft, pending, normalized, moved>>

(* findSubGraphs, one seed pair: the coupled BFS, the single-entry         *)
(* variant, and the recording of both in pathPerNodeHashFull and           *)
(* pathPerNodeHash.                                                        *)
FindSubGraphsPair ==
    /\ pc = "grow"
    /\ pairs # <<>>
    /\ \E g \in {Grow(Head(pairs)[1], Head(pairs)[2])} :
       \E bis \in {IF Len(g.p1) = Len(g.p2) THEN MakeSubgraphSingleEntryPoint(g.p1, g.p2)
                   ELSE <<<<>>, <<>>>>} :
          CASE g.crash # "none" ->
                 /\ pc' = g.crash
                 /\ UNCHANGED <<full, single, last>>
            \* path1Str += path1NodeHashes[kk] with a None hash.
            [] Len(g.p1) > 1 /\ NoneToken \in Range(g.hs) ->
                 /\ pc' = "TypeError"
                 /\ UNCHANGED <<full, single, last>>
            [] OTHER ->
                 /\ full' = IF Len(g.p1) > 1
                            THEN AddPaths(full, <<seed, FullKey(g)>>, g.p1, g.p2)
                            ELSE full
                 /\ single' = IF Len(bis[1]) > 1
                              THEN AddPaths(single, <<seed, SingleKey(g, bis[1])>>,
                                            bis[1], bis[2])
                              ELSE single
                 /\ last' = [path1 |-> g.p1, path2 |-> g.p2,
                             path1_bis |-> bis[1], path2_bis |-> bis[2]]
                 /\ UNCHANGED pc
    /\ pairs' = Tail(pairs)
    /\ UNCHANGED <<fpt, stateFile, cache, hasH2, analyses, prev, fc, content, succs, preds, M, todo, seed,
                   sizeDic, sizesLeft, pending, normalized, moved>>

(* sortByPathLen: size_dic[len(first path of the bucket)].append(key),    *)
(* onto the lists earlier calls left; a list is a bag, its order being    *)
(* dict order.                                                            *)
SortByPathLen ==
    /\ pc = "grow"
    /\ pairs = <<>>
    /\ todo = {}
    /\ LET sizes == {Len(single[k][1]) : k \in DOMAIN single}
           items(n) == SetToBag({k \in DOMAIN single : Len(single[k][1]) = n})
       IN  /\ sizeDic' = [n \in DOMAIN sizeDic \cup sizes |->
                            (IF n \in DOMAIN sizeDic THEN sizeDic[n] ELSE EmptyBag)
                            (+) (IF n \in sizes THEN items(n) ELSE EmptyBag)]
           /\ sizesLeft' = DOMAIN sizeDic'
    /\ pc' = "filter"
    /\ UNCHANGED <<fpt, stateFile, cache, hasH2, analyses, prev, fc, content, succs, preds, M, todo, pairs, seed, full, single,
                   last, pending, normalized, moved>>

(* GetMatchedWellFormedFunctions: the next size, largest first.            *)
\* Variant: without the `if i < minFunctionSizeInBlocks: break`.
FilterSizeNoMin ==
    /\ pc = "filter"
    /\ pending = EmptyBag
    /\ sizesLeft # {}
    /\ pending' = sizeDic[Max(sizesLeft)]
    /\ sizesLeft' = sizesLeft \ {Max(sizesLeft)}
    /\ UNCHANGED <<fpt, stateFile, cache, hasH2, analyses, prev, fc, content, succs, preds, pc, M, todo, pairs, seed, full,
                   single, last, sizeDic, normalized, moved>>

\* Variant: the size visited is never consumed.
FilterSizeAgain ==
    /\ pc = "filter"
    /\ pending = EmptyBag
    /\ sizesLeft # {}
    /\ LET i == Max(sizesLeft) IN
       /\ i >= MinFunctionSizeInBlocks
       /\ pending' = sizeDic[i]
       /\ UNCHANGED sizesLeft
    /\ UNCHANGED <<fpt, stateFile, cache, hasH2, analyses, prev, fc, content, succs, preds, pc, M, todo, pairs, seed, full,
                   single, last, sizeDic, normalized, moved>>

FilterSize ==
    /\ pc = "filter"
    /\ pending = EmptyBag
    /\ sizesLeft # {}
    /\ LET i == Max(sizesLeft) IN
       /\ i >= MinFunctionSizeInBlocks
       /\ pending' = sizeDic[i]
       /\ sizesLeft' = sizesLeft \ {i}
    /\ UNCHANGED <<fpt, stateFile, cache, hasH2, analyses, prev, fc, content, succs, preds, pc, M, todo, pairs, seed, full,
                   single, last, sizeDic, normalized, moved>>

(* The classes Analyze returns: the non-empty normalized entries.          *)
Result == {normalized[k] : k \in {kk \in DOMAIN normalized : normalized[kk] # <<>>}}

(* GetMatchedWellFormedFunctions: one item (x, y) of size_dic[i]; the     *)
(* class list is created only when missing, and appended to.              *)
FilterItem ==
    /\ pc = "filter"
    /\ \E item \in BagToSet(pending) :
         LET base == IF item \in DOMAIN normalized THEN normalized[item] ELSE <<>>
             kept == base \o NotYetMoved(single[item], moved)
             cls  == IF Len(kept) < 2 THEN <<>> ELSE kept
         IN  /\ pending' = pending (-) SetToBag({item})
             /\ IF SubgraphHasExternalJumpsIntoIt(single[item][1])
                THEN /\ normalized' = normalized @@ (item :> <<>>)
                     /\ UNCHANGED moved
                ELSE /\ normalized' = [k \in DOMAIN normalized \cup {item} |->
                                         IF k = item THEN cls ELSE normalized[k]]
                     /\ moved' = moved \cup Range(cls)
    /\ UNCHANGED <<fpt, stateFile, cache, hasH2, analyses, prev, fc, content, succs, preds, pc, M,
                   todo, pairs, seed, full, single, last, sizeDic, sizesLeft>>

(* The loop over sizes ends: no size left, or `if i < min: break`.         *)
FilterEnd ==
    /\ pc = "filter"
    /\ pending = EmptyBag
    /\ IF sizesLeft = {} THEN TRUE ELSE Max(sizesLeft) < MinFunctionSizeInBlocks
    /\ pc' = "done"
    /\ UNCHANGED <<fpt, stateFile, cache, hasH2, analyses, prev, fc, content, succs, preds, M, todo,
                   pairs, seed, full, single, last, sizeDic, sizesLeft, pending,
                   normalized, moved>>

(* Analyze called again on the module's one bbMatcher: self.M,             *)
(* pathPerNodeHash(Full), size_dic and normalizedPathPerNodeHash keep what *)
(* the previous call left; the loop locals start afresh.                   *)
AnalyzeAgain ==
    /\ pc = "done"
    /\ analyses < MaxAnalyses
    /\ analyses' = analyses + 1
    /\ prev' = [single |-> single, full |-> full, result |-> Result]
    /\ pc' = "build"
    /\ todo' = {}
    /\ pairs' = <<>>
    /\ seed' = <<>>
    /\ last' = <<>>
    /\ sizesLeft' = {}
    /\ pending' = EmptyBag
    /\ moved' = {}
    /\ UNCHANGED <<fpt, stateFile, cache, hasH2, fc, content, succs, preds, M, full, single,
                   sizeDic, normalized>>

(* FindSimilar(nodeList) over the path store `store` (the code reads      *)
(* pathPerNodeHashFull) and M.  For a head h of nodeList: every bucket     *)
(* under h's H2 whose first path is not shorter than nodeList and holds a  *)
(* path that starts at h and contains nodeList; the first such path fixes  *)
(* the indices, and the nodes at those indices of every path of the       *)
(* bucket form one answer.  The first head with an answer returns them;   *)
(* a single node returns M[its H2].  The result list is deduplicated, so   *)
(* it is a set here.                                                      *)
IndexIn(p, n) == CHOOSE i \in DOMAIN p : p[i] = n
SimilarFrom(store, S, h) ==
    LET ks == {k \in DOMAIN store : k[1] = H2(h) /\ Len(S) <= Len(store[k][1])}
        hits(k) == {i \in DOMAIN store[k] : store[k][i][1] = h /\ Range(S) \subseteq Range(store[k][i])}
        aligned(k) == LET match == store[k][Min(hits(k))]
                      IN  {[n \in DOMAIN S |-> sib[IndexIn(match, S[n])]] : sib \in Range(store[k])}
    IN  UNION {aligned(k) : k \in {kk \in ks : hits(kk) # {}}}
FindSimilar(store, m, S) ==
    IF Len(S) = 1
    THEN IF H2(S[1]) \in DOMAIN m THEN {m[H2(S[1])]} ELSE {"KeyError"}
    ELSE LET answered == {i \in DOMAIN S : SimilarFrom(store, S, S[i]) # {}}
         IN  IF answered = {} THEN {} ELSE SimilarFrom(store, S, S[Min(answered)])

(* SerializeMatchedInlineFunctions: reducedPathPerNodeHash keeps, for     *)
(* every entry of normalizedPathPerNodeHash, each path whose __str__ is   *)
(* not already in the reduced list (equal strings are equal node lists);  *)
(* the PATH_INFO text then has one "ID:y;NODESET:" line per non-empty     *)
(* reduced list.  A line is <<y, its paths>>; addresses are left out.     *)
\* Variant: the __str__ duplicate test left out.
ReducedNoDedup(cls) == cls
Reduced(cls) == FoldLeft(LAMBDA r, p : IF p \in Range(r) THEN r ELSE Append(r, p), <<>>, cls)
PathInfo == {<<k[2], Reduced(normalized[k])>> :
               k \in {kk \in DOMAIN normalized : Reduced(normalized[kk]) # <<>>}}

(* SaveState(fileName): with a file name, SerializeMatchedInlineFunctions  *)
(* truncates the file and writes PATH_INFO, then SaveState's own handle,   *)
(* opened for append before, adds five pickles behind magic-header        *)
(* markers (LoadState skips PATH_INFO); the PathPerNodeHashFull record is  *)
(* pickle.dumps(self.pathPerNodeHash).  The node hashes record is left    *)
(* out: H2 is a function of the block contents here.  Without a file name *)
(* `StringIO.StringIO()` raises NameError (only cStringIO is imported)    *)
(* before anything is written.                                            *)
SaveState ==
    /\ pc = "done"
    /\ SaveStates
    /\ \E toFile \in BOOLEAN :
         IF toFile
         THEN /\ stateFile' = [pathInfo |-> PathInfo, single |-> single, full |-> single,
                               sizeDic |-> sizeDic, M |-> M]
              /\ prev' = [single |-> single, full |-> full, result |-> Result]
              /\ pc' = "saved"
         ELSE /\ pc' = "NameError"
              /\ UNCHANGED <<stateFile, prev>>
    /\ UNCHANGED <<fpt, fc, content, succs, preds, M, todo, pairs, seed, full, single, last,
                   sizeDic, sizesLeft, pending, normalized, moved, cache, hasH2, analyses>>

(* LoadState(fileName) on a fresh bbMatcherClass of a later session: each *)
(* segment after a magic header is unpickled into the field its marker    *)
(* names.  normalizedPathPerNodeHash stays empty, and self.G None (the     *)
(* graph variables are kept, FindSimilar does not read them).             *)
LoadState ==
    /\ pc = "saved"
    /\ M' = stateFile.M
    /\ single' = stateFile.single
    /\ full' = stateFile.full
    /\ sizeDic' = stateFile.sizeDic
    /\ normalized' = <<>>
    /\ seed' = <<>> /\ last' = <<>> /\ sizesLeft' = {} /\ moved' = {}
    /\ pc' = "loaded"
    /\ UNCHANGED <<fpt, stateFile, fc, content, succs, preds, todo, pairs, pending, cache,
                   hasH2, analyses, prev>>

Next ==
    \/ RunCacheScript
    \/ FromFlowchart
    \/ HashBBMatch
    \/ FindSubGraphsSeed
    \/ FindSubGraphsPair
    \/ SortByPathLen
    \/ FilterSize
    \/ FilterItem
    \/ FilterEnd
    \/ AnalyzeAgain
    \/ SaveState
    \/ LoadState

Spec == Init /\ [][Next]_vars

\* The steps of one Analyze call.  Analyze runs on one thread with no
\* waits: once it is called it keeps taking its steps.  Running a script,
\* calling Analyze again and saving are the user's choices, never forced.
AnalyzeStep ==
    \/ FromFlowchart \/ HashBBMatch \/ FindSubGraphsSeed \/ FindSubGraphsPair
    \/ SortByPathLen \/ FilterSize \/ FilterItem \/ FilterEnd

FairSpec == Spec /\ WF_vars(AnalyzeStep)

-----------------------------------------------------------------------------
(***************************************************************************)
(* Properties.                                                             *)
(***************************************************************************)
Terminal == {"done", "UnboundLocalError", "ZeroDivisionError", "TypeError", "AttributeError"}
Persisted == {"saved", "loaded"}
Paths == Seq(Blocks)

\* The variables keep the shapes the code gives them.
TypeOK ==
    /\ fc \in [Blocks -> Paths]
    /\ content \in [Blocks -> DOMAIN ContentList]
    /\ succs \in [Blocks -> Paths]
    /\ preds \in [Blocks -> Paths]
    /\ pc \in {"build", "match", "grow", "filter", "NameError"} \cup Terminal \cup Persisted
    /\ \A h \in DOMAIN M : M[h] \in Paths
    /\ todo \subseteq DOMAIN M
    /\ \A k \in DOMAIN full \cup DOMAIN single : k[1] \in DOMAIN M
    /\ \A k \in DOMAIN single : single[k] \in Seq(Paths) /\ single[k] # <<>>
    /\ sizesLeft \subseteq DOMAIN sizeDic
    /\ IsABag(pending) /\ BagToSet(pending) \subseteq DOMAIN single
    /\ DOMAIN normalized \subseteq DOMAIN single
    /\ cache.kind \in {"absent", "truncated", "pickle"} /\ cache.h2 \in BOOLEAN
    /\ hasH2 \in BOOLEAN
    /\ analyses \in 1..MaxAnalyses

\* A path is single-entry when no node but its head has a predecessor
\* outside it (subgraphHasExternalJumpsIntoIt is false).
IsSingleEntry(p) == \A i \in 2..Len(p) : Pred(p[i]) \subseteq Range(p)

\* The grouping hashBBMatch must produce (spec 4.5 and invariant 5): every
\* H2 value shared by at least two blocks maps to all of its blocks, in
\* ascending id order, each once.
ReferenceM ==
    LET shared == {h \in {H2(b) : b \in Blocks} : Cardinality({b \in Blocks : H2(b) = h}) >= 2}
    IN  [h \in shared |-> SetToSortSeq({b \in Blocks : H2(b) = h}, <)]

\* Once hashBBMatch has run, M is exactly the reference grouping.  Breaks
\* if the `count(j)==0` dedup or the i < j pairing of the double loop over
\* self.G.items() is wrong.
MIsReference == pc \notin {"build", "match", "AttributeError"} => M = ReferenceM

\* Spec 8, invariant 1, once FromFlowchart has returned a graph: u is a successor
\* of b exactly when b is a predecessor of u, and exactly when IDA's flow
\* chart has the edge -- although each edge is linked twice, once by the
\* successor loop of one end and once by the predecessor loop of the other.
GraphMirrorsChart ==
    pc \notin {"build", "AttributeError"} =>
      \A b, u \in Blocks :
        /\ (u \in Range(succs[b])) <=> (b \in Range(preds[u]))
        /\ (u \in Range(succs[b])) <=> (u \in Range(fc[b]))

\* Every path in one bucket of pathPerNodeHash has the same length.
\* sortByPathLen files a whole bucket under the length of its first path,
\* and GetMatchedWellFormedFunctions trusts that length for all of them.
\* The key hashes the node hashes of the full path followed by those of
\* the trimmed one; that string does not fix where the trimmed part
\* starts, so two keys alike could come from trimmed paths of different
\* lengths, and nothing in the code rules it out locally.
UniformBucketLength ==
    \A k \in DOMAIN single : \A i, j \in DOMAIN single[k] : Len(single[k][i]) = Len(single[k][j])

\* Every class Analyze returns has at least two paths, each of at least
\* MinFunctionSizeInBlocks blocks (GetMatchedWellFormedFunctions' size
\* loop, its break and its `< 2` discard together).
EmittedClassesWellSized ==
    \A c \in Result : Len(c) >= 2 /\ \A i \in DOMAIN c : Len(c[i]) >= MinFunctionSizeInBlocks

\* Every line of SaveState's PATH_INFO text, read by the visualization
\* plugin, names each path once (SerializeMatchedInlineFunctions' __str__
\* duplicate test) and at least two distinct subgraphs -- also after a
\* second call of Analyze appended the paths of its classes to the lists
\* the first call left in normalizedPathPerNodeHash.
PathInfoListsResult ==
    pc \in Persisted =>
      \A e \in stateFile.pathInfo : IsInjective(e[2]) /\ Len(e[2]) >= 2

\* Every call of Analyze returns (or raises): findSubGraphs' BFS, the seed
\* and pair loops and the size loop of GetMatchedWellFormedFunctions all
\* terminate, also on the lists and buckets earlier calls left behind.
AnalyzeTerminates == [](pc = "build" => <>(pc \in Terminal))

\* Spec 8, invariant 3: every path recorded in pathPerNodeHash is
\* single-entry (makeSubgraphSingleEntryPoint trims path1 but path2 only
\* by index).
SingleEntryStore ==
    \A k \in DOMAIN single : \A i \in DOMAIN single[k] : IsSingleEntry(single[k][i])

\* Spec 4.8: every path of every class Analyze returns is single-entry
\* (GetMatchedWellFormedFunctions checks only the first path of a class).
EmittedWellFormed == \A c \in Result : \A i \in DOMAIN c : IsSingleEntry(c[i])

\* Spec 4.7: makeSubgraphSingleEntryPoint removes exactly the nodes that
\* must go -- its result is the largest single-entry subset of path1
\* containing the head (the fixed point of removing offending nodes).
RECURSIVE SpecTrim(_, _)
SpecTrim(S, head) ==
    LET bad == {n \in S \ {head} : ~(Pred(n) \subseteq S)}
    IN  IF bad = {} THEN S ELSE SpecTrim(S \ bad, head)

TrimMaximal ==
    last # <<>> /\ Len(last.path1) = Len(last.path2)
      => Range(last.path1_bis) = SpecTrim(Range(last.path1), last.path1[1])

\* Spec 8, invariant 4: no two paths kept in one class are subsets of each
\* other.
NoNestedPathsInClass ==
    \A c \in Result : \A i, j \in DOMAIN c : i # j => ~(Range(c[i]) \subseteq Range(c[j]))

\* Spec 7: the core never throws for malformed input.
NoUnboundLocal == pc # "UnboundLocalError"
NoZeroDivision == pc # "ZeroDivisionError"

\* Spec 7 again, for a graph loaded from the cache: Analyze does not raise
\* TypeError when the cache it loads was written by another script
\* (build_cache.py omits hash_itype2, and findSubGraphs concatenates the
\* head's hash_itype2 into the path key).
NoTypeError == pc # "TypeError"

\* A second call of Analyze on the one bbMatcher, on the graph it loads
\* from the cache the first call (or a script) wrote, records exactly the
\* same pathPerNodeHash and pathPerNodeHashFull: the pickle keeps the
\* successor order the BFS depends on, and the duplicate tests of the
\* bucket appends keep the kept stores from growing.
RerunRecordsSame ==
    prev # <<>> /\ pc \in {"filter", "done"} => single = prev.single /\ full = prev.full

\* The node lists FindSimilar is asked about: up to three distinct blocks.
NodeLists == UNION {{l \in [1..n -> Blocks] : IsInjective(l)} : n \in 1..3}

\* Spec 6 promises round-trip fidelity of the persisted matcher state
\* (spec 4.10: FindSimilar reads pathPerNodeHashFull), so a bbMatcher that
\* loaded a SaveState file answers every FindSimilar query as the matcher
\* that saved it did.
FindSimilarRoundTrip ==
    pc = "loaded" => \A S \in NodeLists : FindSimilar(full, M, S) = FindSimilar(prev.full, M, S)

\* Spec 4.9: Analyze of the same function returns the same classes when
\* called again on the module's one bbMatcher instance.
RerunSameResult == prev # <<>> /\ pc = "done" => Result = prev.result

=============================================================================
