----------------------------- MODULE TensorGolden -----------------------------
(***************************************************************************)
(* The golden arithmetic of the tensor engine: the 8-bit products and the  *)
(* tables (golden/tensor.py) and the packed 4-bit weights of the serving   *)
(* engine (golden/quant4.py).  A matrix is a sequence of rows, a vector a  *)
(* sequence; the widths of a beat, a byte and an accumulator are constants.*)
(***************************************************************************)
EXTENDS Integers, Sequences, SequencesExt, FiniteSetsExt

CONSTANTS NIB,         \* the zero point of a weight: half of a nibble's values
          BYTE_MAX,    \* the largest signed byte
          ACC_HALF,    \* half of the accumulator's values
          KSTEP8, KSTEP4,  \* a beat in bytes and in nibbles
          X_ROOM, B_MAX,   \* bytes and columns of the operand memory
          SHIFT,       \* the scale that fused_linear takes off
          TABLE        \* by name: [signed, tab], a table from zero

Bytes == -BYTE_MAX - 1 .. BYTE_MAX
Wrap(x) == ((x + ACC_HALF) % (2 * ACC_HALF)) - ACC_HALF
Clip(x, lo, hi) == Max({lo, Min({x, hi})})
Dot(a, b) == FoldLeft(LAMBDA t, k : t + a[k] * b[k], 0, [k \in DOMAIN a |-> k])
Column(B, j) == [k \in DOMAIN B |-> B[k][j]]
Times(A, B) == [i \in DOMAIN A |-> [j \in DOMAIN B[1] |-> Dot(A[i], Column(B, j))]]

\* The accumulator wraps; C is added when acc is set.
gemm8(A, B, C, acc) ==
  [i \in DOMAIN A |-> [j \in DOMAIN B[1] |->
     Wrap((IF acc THEN C[i][j] ELSE 0) + Dot(A[i], Column(B, j)))]]

lut_apply(name, v) ==
  [k \in DOMAIN v |-> TABLE[name].tab[IF TABLE[name].signed THEN v[k] + BYTE_MAX + 1 ELSE v[k]]]
fused_linear(x, Wq, bias) ==
  LET acc == gemm8(<<x>>, Wq, <<>>, FALSE)[1]
  IN  lut_apply("gelu", [j \in DOMAIN acc |->
        Clip(Wrap(acc[j] + bias[j]) \div 2 ^ SHIFT, -BYTE_MAX - 1, BYTE_MAX)])

(***************************************************************************)
(* Packed weights                                                          *)
(***************************************************************************)

RoundUp(k, mult) == ((k + mult - 1) \div mult) * mult
pad_to(row, mult) == [k \in 1 .. RoundUp(Len(row), mult) |-> IF k <= Len(row) THEN row[k] ELSE 0]
\* Two elements a byte, the even one low
pack_w4(w) ==
  LET nibbles(row) == [k \in DOMAIN pad_to(row, KSTEP4) |-> pad_to(row, KSTEP4)[k] + NIB]
  IN  [i \in DOMAIN w |-> [k \in 1 .. Len(nibbles(w[i])) \div 2 |->
         nibbles(w[i])[2 * k - 1] + 2 * NIB * nibbles(w[i])[2 * k]]]
unpack_w4(packed, k) ==
  [i \in DOMAIN packed |-> [j \in 1 .. k |->
     LET byte == packed[i][(j + 1) \div 2]
     IN  (IF j % 2 = 1 THEN byte % (2 * NIB) ELSE byte \div (2 * NIB)) - NIB]]

gemv_w8(w, x) == [i \in DOMAIN w |-> Dot(w[i], x)]
gemv_w4(packed, x, k) == gemv_w8(unpack_w4(packed, k), SubSeq(x, 1, k))
gemm_verify_w8(w, X) == Times(w, X)
gemm_verify_w4(packed, X, k) == gemm_verify_w8(unpack_w4(packed, k), SubSeq(X, 1, k))

\* The operand memory's image: column after column, each filled up with zeros
KPad(k, w4) == RoundUp(k, IF w4 THEN KSTEP4 ELSE KSTEP8)
Fits(X, w4) == Len(X[1]) \in 1 .. B_MAX /\ Len(X[1]) * KPad(Len(X), w4) <= X_ROOM
\* (mutant) Row after row instead of column after column.
RowsFirst(X, w4) ==
  LET width == Len(X[1])
      k(a) == ((a - 1) \div width) + 1
  IN  [a \in 1 .. width * KPad(Len(X), w4) |->
        IF k(a) <= Len(X) THEN X[k(a)][((a - 1) % width) + 1] ELSE 0]
x_image(X, w4) ==
  LET kpad == KPad(Len(X), w4)
  IN  [a \in 1 .. Len(X[1]) * kpad |->
        LET k == ((a - 1) % kpad) + 1
        IN  IF k <= Len(X) THEN X[k][((a - 1) \div kpad) + 1] ELSE 0]

\* A row's weights in steps of a LEVELS-th of its largest, halves away from zero
RowMax(row, one) ==
  LET m == Max({Max({row[k], -row[k]}) : k \in DOMAIN row}) IN IF m = 0 THEN one ELSE m
quantize_rowwise(row, levels) ==
  LET m == RowMax(row, levels)
      mag(x) == (2 * levels * x + m) \div (2 * m)
  IN  [k \in DOMAIN row |->
        Clip(IF row[k] < 0 THEN -mag(-row[k]) ELSE mag(row[k]), -levels - 1, levels)]
quantize_w4_rowwise(w) == [i \in DOMAIN w |-> quantize_rowwise(w[i], NIB - 1)]
===============================================================================
