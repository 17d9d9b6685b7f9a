---------------------------- MODULE HyperLogLog ----------------------------
(***************************************************************************)
(* PFADD and PFCOUNT (src/src/vr_hyperloglog.c).  A HyperLogLog is a row   *)
(* of registers, each the longest run of zeros seen.  It starts sparse, a  *)
(* sequence of opcodes (zero and xzero runs, runs of one value), is edited *)
(* in place and, when it gets too long or a value too large, becomes       *)
(* dense, 6 bits a register.  An element is the register it hashes to and  *)
(* the length of its run (hllPatLen, an external hash).  ref is the row of *)
(* registers itself, <<>> when there is no key; agree says the last        *)
(* command sent what it owed.  The estimate is a function of how many      *)
(* registers have each value: that count stands for it.                    *)
(***************************************************************************)
EXTENDS Integers, Sequences, FiniteSets, SequencesExt, FiniteSetsExt

CONSTANTS
    HLL_REGISTERS,                \* 16384, scaled down
    HLL_SPARSE_VAL_MAX_VALUE,     \* 32, scaled down
    HLL_SPARSE_VAL_MAX_LEN,       \* 4, scaled down
    HLL_SPARSE_ZERO_MAX_LEN,      \* 64, scaled down
    HLL_SPARSE_XZERO_MAX_LEN,     \* 16384, scaled down
    SparseMaxBytes,               \* hll_sparse_max_bytes less the header, scaled down
    Counts                        \* the run lengths tried

VARIABLES obj, ref, agree

vars == <<obj, ref, agree>>

HLL_BITS == 6
Registers == 0 .. HLL_REGISTERS - 1
Values == Counts \cup {0}
NoHll == [enc |-> "none"]
Text == [enc |-> "text"]      \* a string that is no HyperLogLog

-----------------------------------------------------------------------------
(* Dense: registers packed in bytes, the terminator of the string the last. *)

DenseSize == (HLL_REGISTERS * HLL_BITS + 7) \div 8
EmptyDense == [i \in 0 .. DenseSize |-> 0]
HLL_DENSE_GET_REGISTER(p, n) ==
    LET byte == (n * HLL_BITS) \div 8
        fb == (n * HLL_BITS) % 8
    IN  ((p[byte] \div 2 ^ fb) + p[byte + 1] * 2 ^ (8 - fb)) % 2 ^ HLL_BITS
\* The bits of the register in both bytes are cleared, then set.
HLL_DENSE_SET_REGISTER(p, n, v) ==
    LET byte == (n * HLL_BITS) \div 8
        fb == (n * HLL_BITS) % 8
        low == p[byte] % 2 ^ fb
        above == IF fb + HLL_BITS >= 8 THEN 0 ELSE (p[byte] \div 2 ^ (fb + HLL_BITS)) * 2 ^ (fb + HLL_BITS)
        over == IF fb + HLL_BITS > 8 THEN fb + HLL_BITS - 8 ELSE 0
    IN  [p EXCEPT ![byte] = low + above + ((v * 2 ^ fb) % 256),
                  ![byte + 1] = (@ \div 2 ^ over) * 2 ^ over + v \div 2 ^ (8 - fb)]

\* The registers, whether one grew.
hllDenseAdd(o, ele) ==
    IF ele[2] > HLL_DENSE_GET_REGISTER(o.p, ele[1])
    THEN [o |-> [o EXCEPT !.p = HLL_DENSE_SET_REGISTER(@, ele[1], ele[2])], ret |-> 1]
    ELSE [o |-> o, ret |-> 0]

-----------------------------------------------------------------------------
(* Sparse: opcodes.                                                        *)

Zero(len) == [op |-> IF len > HLL_SPARSE_ZERO_MAX_LEN THEN "xzero" ELSE "zero", len |-> len, val |-> 0]
Val(v, len) == [op |-> "val", len |-> len, val |-> v]
OpBytes(ops) == FoldLeft(LAMBDA n, o : n + (IF o.op = "xzero" THEN 2 ELSE 1), 0, ops)
First(ops, i) == FoldLeft(LAMBDA n, o : n + o.len, 0, SubSeq(ops, 1, i - 1))

\* Writes the runs of a sparse row into registers, which start as zeros.
Unpack(ops) == [r \in Registers |->
    LET i == CHOOSE j \in DOMAIN ops : First(ops, j) <= r /\ r < First(ops, j) + ops[j].len IN ops[i].val]

RECURSIVE XZeros(_)
XZeros(n) ==
    LET len == IF n > HLL_SPARSE_XZERO_MAX_LEN THEN HLL_SPARSE_XZERO_MAX_LEN ELSE n
    IN  IF n = 0 THEN <<>> ELSE <<[op |-> "xzero", len |-> len, val |-> 0]>> \o XZeros(n - len)
createHLLObject == [enc |-> "sparse", ops |-> XZeros(HLL_REGISTERS), cached |-> TRUE, card |-> [v \in Values |-> IF v = 0 THEN HLL_REGISTERS ELSE 0]]

RECURSIVE SetRegisters(_, _, _)
SetRegisters(p, row, n) ==
    IF n = HLL_REGISTERS THEN p
    ELSE SetRegisters(IF row[n] = 0 THEN p ELSE HLL_DENSE_SET_REGISTER(p, n, row[n]), row, n + 1)
hllSparseToDense(o) ==
    [enc |-> "dense", cached |-> o.cached, card |-> o.card, p |-> SetRegisters(EmptyDense, Unpack(o.ops), 0)]

\* Step 4: from the opcode before the change, merge equal neighbours, five
\* opcodes at most.
RECURSIVE MergeVals(_, _, _)
MergeVals(ops, i, scanlen) ==
    LET a == ops[i]
        b == ops[i + 1]
    IN  IF i >= Len(ops) \/ scanlen = 0 THEN ops
        ELSE IF a.op = "val" /\ b.op = "val" /\ a.val = b.val /\ a.len + b.len <= HLL_SPARSE_VAL_MAX_LEN
        THEN MergeVals(SubSeq(ops, 1, i - 1) \o <<Val(a.val, a.len + b.len)>> \o SubSeq(ops, i + 2, Len(ops)),
                       i, scanlen - 1)
        ELSE MergeVals(ops, i + 1, scanlen - 1)

\* A mutant that forgets what lies after the register.
SplitShort(op, first, ele) ==
    LET before == ele[1] - first
        after == first + op.len - 1 - ele[1]
        part(len) == IF len = 0 THEN <<>> ELSE <<IF op.op = "val" THEN Val(op.val, len) ELSE Zero(len)>>
    IN  IF before = 0 THEN <<Val(ele[2], 1)>> \o part(after) ELSE part(before) \o <<Val(ele[2], op.len - before)>>

\* The opcode that covers the register, split around it: at most 3 opcodes.
Split(op, first, ele) ==
    LET before == ele[1] - first
        after == first + op.len - 1 - ele[1]
        part(len) == IF len = 0 THEN <<>> ELSE <<IF op.op = "val" THEN Val(op.val, len) ELSE Zero(len)>>
    IN  part(before) \o <<Val(ele[2], 1)>> \o part(after)

hllSparseAdd(o, ele) ==
    LET i == CHOOSE j \in DOMAIN o.ops : First(o.ops, j) <= ele[1] /\ ele[1] < First(o.ops, j) + o.ops[j].len
        op == o.ops[i]
        seq == Split(op, First(o.ops, i), ele)
        deltalen == OpBytes(seq) - OpBytes(<<op>>)
        put == SubSeq(o.ops, 1, i - 1) \o seq \o SubSeq(o.ops, i + 1, Len(o.ops))
        dense == hllDenseAdd(hllSparseToDense(o), ele)
    IN  IF ele[2] > HLL_SPARSE_VAL_MAX_VALUE THEN dense
        ELSE IF op.op = "val" /\ op.val >= ele[2] THEN [o |-> o, ret |-> 0]
        ELSE IF deltalen > 0 /\ OpBytes(o.ops) + deltalen > SparseMaxBytes THEN dense
        ELSE [o |-> [o EXCEPT !.ops = MergeVals(put, IF i > 1 THEN i - 1 ELSE 1, 5), !.cached = FALSE], ret |-> 1]

hllAdd(o, ele) == IF o.enc = "dense" THEN hllDenseAdd(o, ele) ELSE hllSparseAdd(o, ele)

-----------------------------------------------------------------------------
(* Counting: how many registers have each value, zero included; the sum of *)
(* 2^-register and the number of zeros follow from that.                    *)

hllRawSum(row) == [v \in Values |-> Cardinality({r \in Registers : row[r] = v})]
hllDenseSum(p) == hllRawSum([r \in Registers |-> HLL_DENSE_GET_REGISTER(p, r)])
hllSparseSum(ops) ==
    FoldLeft(LAMBDA s, o : [s EXCEPT ![o.val] = @ + o.len], [v \in Values |-> 0], ops)
hllCount(o) == IF o.enc = "dense" THEN hllDenseSum(o.p) ELSE hllSparseSum(o.ops)

hllMerge(max, o) ==
    LET row == IF o.enc = "dense" THEN [r \in Registers |-> HLL_DENSE_GET_REGISTER(o.p, r)] ELSE Unpack(o.ops)
    IN  [r \in Registers |-> IF row[r] > max[r] THEN row[r] ELSE max[r]]

-----------------------------------------------------------------------------
NoRow == [r \in Registers |-> 0]
IsHll(o) == o.enc \in {"sparse", "dense"}
Init == obj = NoHll /\ ref = NoRow /\ agree = TRUE

\* One element after the other; the cache is dropped when a register grew or
\* the key is new.
pfaddCommand(eles) ==
    LET o == IF obj = NoHll THEN createHLLObject ELSE obj
        add(acc, ele) == LET r == hllAdd(acc.o, ele) IN [o |-> r.o, updated |-> acc.updated + r.ret]
        start == [o |-> o, updated |-> IF obj = NoHll THEN 1 ELSE 0]
        raise(row, ele) == [row EXCEPT ![ele[1]] = IF ele[2] > @ THEN ele[2] ELSE @]
    IN  \/ obj = Text /\ UNCHANGED <<obj, ref>> /\ agree' = TRUE
        \/ /\ obj # Text
           /\ ref' = FoldLeft(raise, ref, eles)
           /\ \E all \in {FoldLeft(add, start, eles)} :
                /\ obj' = [all.o EXCEPT !.cached = @ /\ all.updated = 0]
                /\ agree' = ((all.updated > 0) = (obj = NoHll \/ ref' # ref))

\* One key: the cached count, or a fresh one that is cached.
pfcountCommand ==
    \/ obj = NoHll /\ UNCHANGED <<obj, ref>> /\ agree' = TRUE
    \/ obj = Text /\ UNCHANGED <<obj, ref>> /\ agree' = TRUE
    \/ /\ IsHll(obj) /\ obj.cached
       /\ UNCHANGED <<obj, ref>> /\ agree' = (obj.card = hllRawSum(ref))
    \/ /\ IsHll(obj) /\ ~obj.cached
       /\ obj' = [obj EXCEPT !.card = hllCount(obj), !.cached = TRUE]
       /\ UNCHANGED ref /\ agree' = (obj'.card = hllRawSum(ref))

setCommand == obj # Text /\ obj' = Text /\ ref' = NoRow /\ agree' = TRUE
delCommand == obj # NoHll /\ obj' = NoHll /\ ref' = NoRow /\ agree' = TRUE

Elements == Registers \X Counts
Lists == {<<>>} \cup {<<e>> : e \in Elements} \cup {<<<<0, x>>, <<1, y>>>> : x, y \in Counts}
Next ==
    \/ \E eles \in Lists : pfaddCommand(eles)
    \/ pfcountCommand \/ setCommand \/ delCommand

Spec == Init /\ [][Next]_vars

\* Whatever the representation and the order of the additions, the key stands
\* for the same registers: opcodes cover every register once and stay within
\* their limits after any split, merge or promotion (vr_hyperloglog.c:607,
\* 537), packing 6 bits in bytes loses nothing, the count is that of the
\* registers, cached or not, in all three sums, and PFADD answers 1 exactly
\* when a register grew or the key is new.
HllIsRegisters ==
    /\ agree
    /\ ~IsHll(obj) => ref = NoRow
    /\ IsHll(obj) =>
         /\ hllMerge(NoRow, obj) = ref
         /\ hllMerge([NoRow EXCEPT ![1] = Min(Counts)], obj) =
              [ref EXCEPT ![1] = IF @ = 0 THEN Min(Counts) ELSE @]
         /\ hllCount(obj) = hllRawSum(ref)
         /\ obj.cached => obj.card = hllRawSum(ref)
    /\ obj.enc = "dense" => obj.p[DenseSize] = 0
    /\ obj.enc = "sparse" =>
         /\ First(obj.ops, Len(obj.ops) + 1) = HLL_REGISTERS
         /\ OpBytes(obj.ops) <= SparseMaxBytes
         /\ \A i \in DOMAIN obj.ops :
              /\ obj.ops[i].op = "val" => obj.ops[i].len \in 1 .. HLL_SPARSE_VAL_MAX_LEN
              /\ obj.ops[i].op = "zero" => obj.ops[i].len \in 1 .. HLL_SPARSE_ZERO_MAX_LEN
=============================================================================
