----------------------------- MODULE Fingerprint -----------------------------
(***************************************************************************)
(* Block fingerprints of src/bbgroup/bb_ida.py: hash_itype1, hash_itype2,  *)
(* get_block_frequency and match_block_frequencies, as pure operators.     *)
(*                                                                         *)
(* A decoded instruction is a record [itype, ops] where ops is the         *)
(* sequence of operand types up to the first o_void.  A block's content is *)
(* the sequence of instructions the decoder returns between start and end  *)
(* (a decode failure truncates it, so any sequence, the empty one too, is  *)
(* a possible content).                                                    *)
(*                                                                         *)
(* SHA-1 is modelled as injective: a hash token is the value hashed.       *)
(* The prime characteristic of an instruction is a product of distinct     *)
(* primes, so by unique factorisation it is modelled by the bag of the     *)
(* prime indices it multiplies: one for the itype and one for each         *)
(* (operand index, operand type) slot.                                     *)
(***************************************************************************)
EXTENDS Integers, Sequences, FiniteSets, Bags, SequencesExt, Functions

\* The prime-table index of a factor: <<"it", itype>> for an itype and
\* <<"op", n, type>> for operand n of the given type (_OP_P_OFFS + n*o_last + type).
ItypeFactor(cmd) == <<"it", cmd.itype>>
OpFactor(n, t) == <<"op", n, t>>

\* get_cmd_prime_characteristics: P[itype] * product of the operand primes.
PrimeCharacteristic(cmd) ==
    SetToBag({ItypeFactor(cmd)})
      (+) SetToBag({OpFactor(n - 1, cmd.ops[n]) : n \in DOMAIN cmd.ops})

\* InstructionCount: the number of decoded instructions.
InstructionCount(c) == Len(c)

\* The decimal digits of a natural number, most significant first (str(n)).
RECURSIVE Decimal(_)
Decimal(n) == IF n < 10 THEN <<n>> ELSE Decimal(n \div 10) \o <<n % 10>>

\* hash_itype1: SHA-1 over "".join(str(itype)) -- the digits of every itype
\* concatenated with no separator.
HashItype1(c) == <<"hash_itype1", FlattenSeq([i \in DOMAIN c |-> Decimal(c[i].itype)])>>

\* hash_itype2: SHA-1 over str(r), r the product of every characteristic.
\* The product is kept as the bag of all its prime factors.
RECURSIVE ProductOf(_)
ProductOf(c) == IF c = <<>> THEN EmptyBag
                ELSE PrimeCharacteristic(Head(c)) (+) ProductOf(Tail(c))
HashItype2(c) == <<"hash_itype2", ProductOf(c)>>

\* get_block_frequency: (total instruction count, characteristic -> count).
GetBlockFrequency(c) ==
    LET keys == {PrimeCharacteristic(c[i]) : i \in DOMAIN c}
    IN  <<Len(c),
          [k \in keys |-> Cardinality({i \in DOMAIN c : PrimeCharacteristic(c[i]) = k})]>>

FreqMin(a, b) == IF a < b THEN a ELSE b
FreqMax(a, b) == IF a < b THEN b ELSE a

RECURSIVE SumOver(_, _)
SumOver(f, S) == IF S = {} THEN 0
                 ELSE LET k == CHOOSE k \in S : TRUE IN f[k] + SumOver(f, S \ {k})

RECURSIVE ProductOver(_, _)
ProductOver(f, S) == IF S = {} THEN 1
                     ELSE LET k == CHOOSE k \in S : TRUE IN f[k] * ProductOver(f, S \ {k})

\* match_block_frequencies(ft1, ft2, p1, p2) -> <<ok1, ok2>>.
\* fs is the table with fewer keys (f1 on a tie); ct1 sums fs and ct2 sums
\* fb over the common keys, and ct1 is divided by t1 whichever table fs is.
\* The float comparisons are done exactly by cross-multiplication:
\*   100*ct1/t1 > p1  <=>  100*ct1 > p1*t1             (t1 > 0)
\*   (sum_k 100*min_k/max_k) / comm > p2
\*                    <=>  sum_k 100*min_k*D/max_k > p2*comm*D,  D = prod max_k.
\* A zero total raises ZeroDivisionError in float(t); the result then
\* carries div0 = TRUE.
MatchBlockFrequencies(ft1, ft2, p1, p2) ==
    LET t1 == ft1[1]  f1 == ft1[2]
        t2 == ft2[1]  f2 == ft2[2]
        fs == IF Cardinality(DOMAIN f1) > Cardinality(DOMAIN f2) THEN f2 ELSE f1
        fb == IF Cardinality(DOMAIN f1) > Cardinality(DOMAIN f2) THEN f1 ELSE f2
        common == DOMAIN fs \cap DOMAIN fb
        ct1 == SumOver(fs, common)
        ct2 == SumOver(fb, common)
        mx  == [k \in common |-> FreqMax(fs[k], fb[k])]
        D   == ProductOver(mx, common)
        tp  == SumOver([k \in common |-> (100 * FreqMin(fs[k], fb[k]) * D) \div mx[k]], common)
    IN  [div0 |-> t1 = 0 \/ t2 = 0,
         ok1  |-> t1 > 0 /\ t2 > 0 /\ 100 * ct1 > p1 * t1 /\ 100 * ct2 > p1 * t2,
         ok2  |-> common # {} /\ tp > p2 * Cardinality(common) * D]

\* The coverage threshold bbMatcherClass.match picks from the two totals.
CoveragePercentage(a, b) ==
    CASE a <= 4 \/ b <= 4 -> 50
      [] a <= 6 \/ b <= 6 -> 60
      [] a <= 8 \/ b <= 8 -> 75
      [] OTHER            -> 85

\* The 'freq' branch of bbMatcherClass.match: both frequency tests must
\* pass; the token it stores on both blocks hashes the common keys.
FreqMatch(c1, c2) ==
    LET fa == GetBlockFrequency(c1)
        fb == GetBlockFrequency(c2)
        r  == MatchBlockFrequencies(fa, fb, CoveragePercentage(fa[1], fb[1]), 95)
    IN  [div0  |-> r.div0,
         ok    |-> r.ok1 /\ r.ok2,
         token |-> <<"freq", DOMAIN fa[2] \cap DOMAIN fb[2]>>]
=============================================================================
