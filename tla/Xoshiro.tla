------------------------------- MODULE Xoshiro -------------------------------
(***************************************************************************)
(* The generator behind the random words and the jump that gives each site *)
(* a stream of its own (golden/xoshiro.py).  A word is the set of its one  *)
(* bits, so exclusive or is symmetric difference.  Widths, shifts and      *)
(* multipliers are constants.                                              *)
(***************************************************************************)
EXTENDS Integers, Sequences, FiniteSets, FiniteSetsExt, SequencesExt

CONSTANTS W, SHIFT, ROT, OUT_ROT, JUMP_LOG, GAMMA, MUL1, MUL2, MIX1, MIX2

WordBits == 0 .. W - 1
Lanes4 == 1 .. 4
StateBits == 0 .. 4 * W - 1

Xor(a, b) == (a \ b) \union (b \ a)
Odd(bits) == Cardinality(bits) % 2 = 1
Shl(x, k) == {b + k : b \in x} \intersect WordBits
Shr(x, k) == {b - k : b \in x} \intersect WordBits
_rotl(x, k) == {(b + k) % W : b \in x}
Value(x) == MapThenSumSet(LAMBDA b : 2 ^ b, x)
Word(v) == {b \in WordBits : (v \div 2 ^ b) % 2 = 1}
AnyBit(st) == \E i \in Lanes4 : st[i] # {}

Mix(z, k) == Xor(z, Shr(z, k))
Times(z, mul) == Word(Value(z) * mul)
\* The k-th value of the seed's expansion, from one
splitmix32(seed, k) == Mix(Times(Mix(Times(Mix(Word(seed + k * GAMMA), MIX1), MUL1), MIX2), MUL2), MIX2)
\* The expansion repeats after 2^W values, and the first group of four that is
\* not all zero is taken.
Group(seed, j) == [i \in Lanes4 |-> splitmix32(seed, 4 * j + i)]
seed_state(seed) == Group(seed, Min({j \in 0 .. 2 ^ W : AnyBit(Group(seed, j))}))

Stepped(s, s2, s3) == << Xor(s[1], s3), Xor(s[2], s2), Xor(s2, Shl(s[2], SHIFT)), _rotl(s3, ROT) >>
step_state(s) == Stepped(s, Xor(s[3], s[1]), Xor(s[4], s[2]))
Sum32(a, b) == Word(Value(a) + Value(b))
output_pp(s) == Sum32(_rotl(Sum32(s[1], s[4]), OUT_ROT), s[1])
\* The first n outputs
Outputs(state, n) ==
  LET st[k \in 1 .. n] == IF k = 1 THEN state ELSE step_state(st[k - 1])
  IN  [k \in 1 .. n |-> output_pp(st[k])]

(***************************************************************************)
(* The jump                                                                *)
(***************************************************************************)

_state_to_int(s) == UNION {{W * (i - 1) + b : b \in s[i]} : i \in Lanes4}
_int_to_state(v) ==
  LET lane(i) == {b \in WordBits : W * (i - 1) + b \in v} IN <<lane(1), lane(2), lane(3), lane(4)>>

\* A matrix is the set of the places <<row, column>> of its ones.
Places == {<<r, c>> : r \in StateBits, c \in StateBits}
\* (mutant) The images of the single bits taken for rows.
Transposed == {p \in Places : p[2] \in _state_to_int(step_state(_int_to_state({p[1]})))}
transition_matrix == {p \in Places : p[1] \in _state_to_int(step_state(_int_to_state({p[2]})))}
mat_vec(rows, v) == {r \in StateBits : Odd({c \in v : <<r, c>> \in rows})}
mat_mul(a, b) ==
  {p \in Places : Odd({k \in StateBits : <<p[1], k>> \in a /\ <<k, p[2]>> \in b})}
mat_pow2k(rows, k) ==
  LET m[i \in 0 .. k] == IF i = 0 THEN rows ELSE LET h == m[i - 1] IN mat_mul(h, h)
  IN  m[k]
jump64_matrix == mat_pow2k(transition_matrix, JUMP_LOG)

Jumped(v) == _int_to_state(mat_vec(jump64_matrix, _state_to_int(v)))
stream_states(seed, nstreams) ==
  LET st[k \in 1 .. nstreams] == IF k = 1 THEN seed_state(seed) ELSE Jumped(st[k - 1])
  IN  [k \in 1 .. nstreams |-> st[k]]

(***************************************************************************)
(* All streams together: four columns, stepped in place                    *)
(***************************************************************************)

FarmVec(states) == [i \in Lanes4 |-> [k \in DOMAIN states |-> states[k][i]]]
Each(a, b, Op(_, _)) == [k \in DOMAIN a |-> Op(a[k], b[k])]
FarmOut(tmp, f1) ==
  Each(tmp, f1, LAMBDA t, s : Sum32(Shl(t, OUT_ROT) \union Shr(t, W - OUT_ROT), s))
FarmWord(f) == FarmOut(Each(f[1], f[4], Sum32), f[1])
FarmStepped(f, s2, s3) ==
  << Each(f[1], s3, Xor), Each(f[2], s2, Xor), Each(s2, f[2], LAMBDA a, b : Xor(a, Shl(b, SHIFT))),
     [k \in DOMAIN s3 |-> Shl(s3[k], ROT) \union Shr(s3[k], W - ROT)] >>
FarmStep(f) == FarmStepped(f, Each(f[3], f[1], Xor), Each(f[4], f[2], Xor))
\* What a block of n words leaves, and its words, one tuple for each stream
next_block(f, n) ==
  LET at[w \in 1 .. n + 1] == IF w = 1 THEN f ELSE FarmStep(at[w - 1])
  IN  [farm |-> at[n + 1],
       out  |-> [k \in DOMAIN f[1] |-> [w \in 1 .. n |-> FarmWord(at[w])[k]]]]
==============================================================================
