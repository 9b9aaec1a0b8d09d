---------------------------- MODULE ReedSolomon ----------------------------
(***************************************************************************)
(* The erasure decoder of fragmented replies (fragmentation.ts): the       *)
(* field GF(2^8), the systematic Vandermonde matrix and the reconstruction *)
(* of the data shards from any D shards.  A shard is a sequence of bytes;  *)
(* indices are those of the code, from 0.                                  *)
(***************************************************************************)
EXTENDS Integers, Sequences, FiniteSets, SequencesExt

NoShard == <<>>     \* null in the array of shards
Failed == <<-1>>    \* an exception: neither a matrix nor bytes

\* F(v), with v evaluated once (w = w makes TLC compute every entry of a matrix)
With(v, F(_)) == CHOOSE y \in {F(x) : x \in {w \in {v} : w = w}} : TRUE

GfPrime == 285      \* 0x11d
GfSize == 256

Bits(a, b) ==
  LET f[n \in 0..8] == IF n = 0 THEN (a + b) % 2
                       ELSE 2^n * ((a \div 2^n + b \div 2^n) % 2) + f[n - 1]
  IN f[8]
Xor(a, b) == With(<<a, b>>, LAMBDA p : Bits(p[1], p[2]))

\* The product that the tables of buildTables() give, as shifts reduced by the
\* polynomial (the powers of 2 run through the whole field, so that adding
\* logarithms multiplies)
Twice(x) == IF 2 * x >= GfSize THEN Xor(2 * x, GfPrime) ELSE 2 * x
Product(a, b) ==
  LET f[k \in 0..8] == IF k = 8 THEN 0
                       ELSE With(f[k + 1], LAMBDA x : Xor(Twice(x), IF (b \div 2^k) % 2 = 1 THEN a ELSE 0))
  IN IF a = 0 \/ b = 0 THEN 0 ELSE IF a = 1 THEN b ELSE IF b = 1 THEN a ELSE f[0]
GfMul(a, b) == With(<<a, b>>, LAMBDA p : Product(p[1], p[2]))

\* gfExp_pow(): by squares; 0^0 = 1
GfPow(base, exp) ==
  LET f[e \in 0..exp] == IF e = 0 THEN 1
                         ELSE IF e % 2 = 1 THEN GfMul(base, f[e - 1])
                         ELSE With(f[e \div 2], LAMBDA r : GfMul(r, r))
  IN f[exp]

\* gfInv(): the field has 255 elements other than 0
GfInv(a) == IF a = 1 THEN 1 ELSE GfPow(a, GfSize - 2)

GfSum(s) == FoldLeft(Xor, 0, s)

\* One column of gfMatrixInvert(): the first row with a pivot is swapped in and
\* scaled, and the column cleared in the others; Failed when there is no pivot
Eliminate(a, col) ==
  LET rows == {r \in DOMAIN a : r >= col /\ a[r][col] # 0}
      p == CHOOSE r \in rows : \A q \in rows : r <= q
      Cleared(swapped) ==
        With([k \in DOMAIN a[0] |-> GfMul(swapped[col][k], With(swapped[col][col], GfInv))],
             LAMBDA pivot : [r \in DOMAIN a |->
               IF r = col THEN pivot
               ELSE [k \in DOMAIN a[0] |-> Xor(swapped[r][k], GfMul(swapped[r][col], pivot[k]))]])
  IN IF a = Failed \/ rows = {} THEN Failed
     ELSE With([a EXCEPT ![col] = a[p], ![p] = a[col]], Cleared)

\* gfMatrixInvert(): Gauss-Jordan on n rows augmented with the identity
MatrixInvert(matrix, n) ==
  LET idx == 0..(n - 1)
      aug == [r \in idx |-> [k \in 0..(2 * n - 1) |->
                IF k < n THEN matrix[r][k] ELSE IF k - n = r THEN 1 ELSE 0]]
      f[col \in 0..n] == IF col = 0 THEN aug
                         ELSE With(f[col - 1], LAMBDA a : Eliminate(a, col - 1))
  IN With(f[n], LAMBDA a : IF a = Failed THEN Failed
                           ELSE [r \in idx |-> [k \in idx |-> a[r][k + n]]])

\* buildEncodeMatrix(): V[r][c] = r^c, normalised so that the top is the identity
EncodeMatrix(d, parity) ==
  LET rows == 0..(d + parity - 1)
      idx == 0..(d - 1)
      Normalised(vand) ==
        With(MatrixInvert(vand, d),
             LAMBDA topInv : [r \in rows |-> [c \in idx |->
               GfSum([k \in 1..d |-> GfMul(vand[r][k - 1], topInv[k - 1][c])])]])
  IN With([r \in rows |-> [c \in idx |-> GfPow(r, c)]], Normalised)

\* One row of coefficients applied to shards
Combine(row, shards) ==
  [b \in 1..Len(shards[0]) |->
     GfSum([k \in 1..Cardinality(DOMAIN shards) |-> GfMul(row[k - 1], shards[k - 1][b])])]

\* rsReconstruct(): the data shards from the first d that are present
Reconstruct(shards, d) ==
  LET present == SetToSortSeq({i \in DOMAIN shards : shards[i] # NoShard}, LAMBDA i, j : i < j)
      used == [k \in 0..(d - 1) |-> shards[present[k + 1]]]
      Rows(matrix) == [r \in 0..(d - 1) |-> matrix[present[r + 1]]]
      Solved(rows) == With(MatrixInvert(rows, d), LAMBDA inv : [r \in 0..(d - 1) |-> Combine(inv[r], used)])
  IN With(Rows(EncodeMatrix(d, Cardinality(DOMAIN shards) - d)), Solved)

\* The shards one after the other, cut at the length of the original data
Joined(shards, d, len) ==
  LET all == FlattenSeq([k \in 1..d |-> shards[k - 1]])
  IN IF Len(all) > len THEN SubSeq(all, 1, len) ELSE all

\* decodeShards()
Decoded(shards, d, len) ==
  IF d = 0 \/ Cardinality({i \in DOMAIN shards : shards[i] # NoShard}) < d THEN Failed
  ELSE IF \A i \in 0..(d - 1) : shards[i] # NoShard THEN Joined(shards, d, len)
  ELSE With(Reconstruct(shards, d), LAMBDA data : Joined(data, d, len))
DecodeShards(shards, d, len) == With(shards, LAMBDA s : Decoded(s, d, len))

\* The exit's encoder: data cut into d shards padded to one length, and parity
ShardsOf(data, d, parity) ==
  LET size == (Len(data) + d - 1) \div d
      part == [r \in 0..(d - 1) |-> [b \in 1..size |->
                 IF r * size + b <= Len(data) THEN data[r * size + b] ELSE 0]]
      matrix == EncodeMatrix(d, parity)
  IN [r \in 0..(d + parity - 1) |-> Combine(matrix[r], part)]
=============================================================================
