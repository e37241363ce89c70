------------------------------- MODULE Gpt2Load -------------------------------
(***************************************************************************)
(* The tokenizer that both language gates share, and the windows over      *)
(* which a perplexity is taken (golden/gpt2_load.py).  A text is a         *)
(* sequence of characters, a piece one of unicode stand-ins for bytes.     *)
(***************************************************************************)
EXTENDS Integers, Sequences, FiniteSets, SequencesExt, FiniteSetsExt, Functions

CONSTANTS BYTES, PRINTABLE,      \* the number of byte values; those that stand for themselves
          Utf8(_),               \* a character's bytes
          IsSpace(_), Kind(_),   \* white space; "letter", "digit" or "other"
          BLANK, CONTRACTIONS,   \* the space; the short forms' endings
          MERGES,                \* the pairs of pieces that merge, the lowest rank first
          enc                    \* the pieces' numbers

\* The bytes that are not printable follow the byte values, in order.
b2u ==
  [b \in 0 .. BYTES - 1 |->
    IF b \in PRINTABLE THEN b ELSE BYTES + Cardinality({c \in 0 .. b - 1 : c \notin PRINTABLE})]
u2b == AntiFunction(b2u)
dec == AntiFunction(enc)

NoRank == Len(MERGES) + 1
ranks(pair) == IF pair \in ToSet(MERGES) THEN CHOOSE r \in DOMAIN MERGES : MERGES[r] = pair ELSE NoRank

\* (mutant) The last of the pairs of the lowest rank.
LastPair(word) ==
  LET rank(i) == ranks(<<word[i], word[i + 1]>>)
      least == Min({rank(i) : i \in 1 .. Len(word) - 1})
  IN  Max({i \in 1 .. Len(word) - 1 : rank(i) = least})
\* The first of the pairs of the lowest rank
FirstPair(word) ==
  LET rank(i) == ranks(<<word[i], word[i + 1]>>)
      least == Min({rank(i) : i \in 1 .. Len(word) - 1})
  IN  Min({i \in 1 .. Len(word) - 1 : rank(i) = least})
Merged(word) ==
  LET i == FirstPair(word)
  IN  IF Len(word) < 2 THEN word
      ELSE IF ranks(<<word[i], word[i + 1]>>) = NoRank THEN word
      ELSE SubSeq(word, 1, i - 1) \o << word[i] \o word[i + 1] >> \o SubSeq(word, i + 2, Len(word))
\* At most one merge less than there are characters
_bpe(u) == FoldLeft(LAMBDA word, k : Merged(word), [k \in DOMAIN u |-> <<u[k]>>], u)

(***************************************************************************)
(* The pattern that cuts a text into tokens: a short form's ending; a run  *)
(* of one kind, with a blank before it; white space up to the last one     *)
(* before a word, or a single one.                                         *)
(***************************************************************************)

\* How many characters from position i on fulfil Is
RunLength(text, i, Is(_)) ==
  Max({n \in 0 .. Len(text) - i + 1 : \A k \in i .. i + n - 1 : Is(text[k])})
Same(text, i) == RunLength(text, i, LAMBDA c : ~IsSpace(c) /\ Kind(c) = Kind(text[i]))
White(text, i) ==
  LET n == RunLength(text, i, IsSpace)
  IN  IF i + n > Len(text) \/ n = 1 THEN n ELSE n - 1
TokenLength(text, i) ==
  LET short == {c \in CONTRACTIONS : IsPrefix(c, SubSeq(text, i, Len(text)))}
  IN  IF short # {} THEN Len(CHOOSE c \in short : TRUE)
      ELSE IF ~IsSpace(text[i]) THEN Same(text, i)
      ELSE IF text[i] = BLANK /\ i < Len(text) /\ ~IsSpace(text[i + 1]) THEN 1 + Same(text, i + 1)
      ELSE White(text, i)
tokens(text) ==
  FoldLeft(LAMBDA x, i : IF i < x.next THEN x
                         ELSE [toks |-> Append(x.toks, SubSeq(text, i, i + TokenLength(text, i) - 1)),
                               next |-> i + TokenLength(text, i)],
           [toks |-> <<>>, next |-> 1], [k \in DOMAIN text |-> k]).toks

Bytes(text) == FlattenSeq([k \in DOMAIN text |-> Utf8(text[k])])
Units(text) == [k \in DOMAIN Bytes(text) |-> b2u[Bytes(text)[k]]]
encode(text) ==
  FlattenSeq([t \in DOMAIN tokens(text) |->
    LET pieces == _bpe(Units(tokens(text)[t])) IN [k \in DOMAIN pieces |-> enc[pieces[k]]]])
\* The bytes; the text is what they spell.
decode(ids) ==
  LET u == FlattenSeq([k \in DOMAIN ids |-> dec[ids[k]]])
  IN  [k \in DOMAIN u |-> u2b[u[k]]]

\* The windows of n tokens, each <<from, up to>>; a window of one token ends the loop.
Windows(n, window) ==
  LET last(s) == Min({s + window, n})
      all == [k \in 1 .. (n - 2) \div window + 1 |-> <<(k - 1) * window, last((k - 1) * window)>>]
  IN  IF n < 2 THEN <<>> ELSE SelectSeq(all, LAMBDA w : w[2] - w[1] >= 2)
\* The tokens that are scored, each with the first token of its context, from zero
ppl(n, window) ==
  FlattenSeq([k \in DOMAIN Windows(n, window) |->
    LET w == Windows(n, window)[k] IN [x \in 1 .. w[2] - w[1] - 1 |-> <<w[1] + x, w[1]>>]])
===============================================================================
