------------------------------ MODULE MCMatcher ------------------------------
(***************************************************************************)
(* Model-checking instance of Matcher: four blocks, every flow chart in    *)
(* which each block has at most two successors and every block is         *)
(* reachable from the entry block 0, and block contents drawn from a few   *)
(* instruction sequences chosen so that each of the three trials (H1, H2,  *)
(* freq) decides some pair.                                                *)
(***************************************************************************)
EXTENDS Matcher

\* Decoded instructions: itype and operand types (1 = o_reg, 2 = o_mem, 7 = o_near).
MovR == [itype |-> 1, ops |-> <<1, 1>>]
MovM == [itype |-> 1, ops |-> <<1, 2>>]
AddR == [itype |-> 2, ops |-> <<1, 1>>]
Jz   == [itype |-> 3, ops |-> <<7>>]

\* Contents: same H1 and H2 are the same content; BlkB has BlkA's H1 but
\* not its H2; BlkC has BlkA's H2 but not its H1; BlkD matches BlkA only by
\* frequency.
BlkA == <<MovR, AddR>>
BlkB == <<MovM, AddR>>
BlkC == <<AddR, MovR>>
BlkD == <<MovR, AddR, MovM>>

MCBlocks == 0..3
MCContents == <<BlkA, BlkB, BlkC>>

\* Successor lists of at most two distinct blocks, no self loop.
SuccChoices(b) ==
    LET O == Blocks \ {b}
    IN  {<<>>} \cup {<<x>> : x \in O} \cup {p \in O \X O : p[1] # p[2]}

Reachable(f) ==
    LET R[n \in 0..Cardinality(Blocks)] ==
          IF n = 0 THEN {0} ELSE R[n - 1] \cup UNION {Range(f[b]) : b \in R[n - 1]}
    IN  R[Cardinality(Blocks)]

\* The number of edges of a chart, and its bound.
EdgeCount(f) == SumOver([b \in Blocks |-> Len(f[b])], Blocks)
MaxEdges == 5

MCFlowcharts ==
    {f \in {[b \in Blocks |-> t[b + 1]] :
               t \in SuccChoices(0) \X SuccChoices(1) \X SuccChoices(2) \X SuccChoices(3)} :
        Reachable(f) = Blocks /\ EdgeCount(f) <= MaxEdges}

\* A smaller family for the liveness run: two contents of equal H2 and at
\* most four edges, so every block is a seed of every other.
LiveFlowcharts == {f \in MCFlowcharts : EdgeCount(f) <= 4}
LiveContents == <<BlkA, BlkC>>
OneContent == <<BlkA>>
\* Two contents, one of them empty (the decoder fails at the block start).
ZeroContents == <<BlkA, <<>>>>

\* The scripts that may have written a graph cache before Analyze runs, and
\* whether a pickle dump completes.
NoScripts == {}
BuildCacheScript == {"build_cache"}
IdaStatsScript == {"ida_stats"}
BuildCacheT2Scripts == {"build_cache", "t2"}
SaveAlways == {TRUE}
SaveMayFail == BOOLEAN

=============================================================================
