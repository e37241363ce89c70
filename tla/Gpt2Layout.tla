----------------------------- MODULE Gpt2Layout -----------------------------
(***************************************************************************)
(* host/gpt2_device.py lays the language model out in device memory, and   *)
(* sw/kernels/gpt2_seq.c finds it there by the numbers of words in two     *)
(* tables.  A blob is known by what it holds; sizes are the code's.        *)
(***************************************************************************)
EXTENDS Integers, Sequences, SequencesExt

CONSTANTS CTX, NVOCAB, NVPAD, D, HEADS, LAYERS, TILE, L_WORDS,
          FF,                   \* columns of c_fc
          HEAP_BASE, HEAP_END

(***************************************************************************)
(* Serializer                                                              *)
(***************************************************************************)

\* A blob that is no layer's
The(what) == <<LAYERS, what, "">>

\* The serializer's calls are a sequence of what to store and its bytes; alloc puts
\* each behind the one before, aligned, and write fills it.
Align64(a) == ((a + 63) \div 64) * 64
Place(from, calls) ==
  LET end[k \in 0 .. Len(calls)] == IF k = 0 THEN from ELSE Align64(end[k - 1]) + calls[k].n
  IN  <<>> \o [k \in DOMAIN calls |-> [what |-> calls[k].what, addr |-> end[k] - calls[k].n, n |-> calls[k].n]]
EndOf(blobs) == Last(blobs).addr + Last(blobs).n
blob(what, n) == <<[what |-> what, n |-> n]>>
words(what, n) == blob(what, 4 * n)

\* [K, N] as [kb][nb][TILE][TILE]: the element at place i
tile_pack(W, K, N) ==
  [i \in 0 .. K * N - 1 |->
     LET c == i % TILE
         r == (i \div TILE) % TILE
         t == i \div (TILE * TILE)
     IN  W[<<(t \div (N \div TILE)) * TILE + r, (t % (N \div TILE)) * TILE + c>>]]

Lin == <<"w", "b", "M", "sh">>
pack_lin(li, key, K, N) ==
  blob(<<li, key, "w">>, K * N) \o words(<<li, key, "b">>, N)
  \o words(<<li, key, "M">>, N) \o words(<<li, key, "sh">>, N)

Names(li, key, parts) == [k \in DOMAIN parts |-> <<li, key, parts[k]>>]
\* Mutant: one block of weights after the scales of the scores
RowShifted(li) ==
  << <<li, "ln1.g", "">>, <<li, "ln1.b", "">> >> \o Names(li, "qkv", Lin)
  \o Names(li, "cproj", Lin) \o << <<li, "sM", "">>, <<li, "ssh", "">>, <<li, "oM", "">>, <<li, "osh", "">> >>
  \o << <<li, "ln2.g", "">>, <<li, "ln2.b", "">> >> \o Names(li, "cfc", Lin)
  \o << <<li, "gM", "">>, <<li, "gsh", "">> >> \o Names(li, "mproj", Lin)
\* The row of a layer's table
LayerRow(li) ==
  << <<li, "ln1.g", "">>, <<li, "ln1.b", "">> >> \o Names(li, "qkv", Lin)
  \o << <<li, "sM", "">>, <<li, "ssh", "">>, <<li, "oM", "">>, <<li, "osh", "">> >> \o Names(li, "cproj", Lin)
  \o << <<li, "ln2.g", "">>, <<li, "ln2.b", "">> >> \o Names(li, "cfc", Lin)
  \o << <<li, "gM", "">>, <<li, "gsh", "">> >> \o Names(li, "mproj", Lin)

AllWords(items) == FlattenSeq([k \in DOMAIN items |-> words(items[k][1], items[k][2])])
SerializeLayer(li) ==
  pack_lin(li, "qkv", D, 3 * D) \o pack_lin(li, "cproj", D, D)
  \o pack_lin(li, "cfc", D, FF) \o pack_lin(li, "mproj", FF, D)
  \o AllWords(<< << <<li, "ln1.g", "">>, D >>, << <<li, "ln1.b", "">>, D >>,
                  << <<li, "sM", "">>, HEADS >>, << <<li, "ssh", "">>, HEADS >>,
                  << <<li, "oM", "">>, D >>, << <<li, "osh", "">>, D >>,
                  << <<li, "ln2.g", "">>, D >>, << <<li, "ln2.b", "">>, D >>,
                  << <<li, "gM", "">>, FF >>, << <<li, "gsh", "">>, FF >> >>)

scratch_words == 128 + 2 * D + 2 * D + 2 * NVPAD + FF + 3 * D + D + 192 + 8 + NVPAD
kv_bytes == 2 * LAYERS * HEADS * 64 * CTX

\* The descriptor: what each word points at, or its number
dwords(n_prompt, n_gen) ==
  << 1835755314, n_prompt, n_gen, CTX,
     The("prompt"), The("wte"), The("emb_M"), The("emb_sh"), The("wpe"), The("layers"), The("lnf.g"), The("lnf.b"),
     The("head"), The("hM"), The("hsh"), NVOCAB, NVPAD, The("exp"), The("gelud"), The("rsqrt"), The("scratch"), The("trail"), The("dbg") >>

\* What is stored before the layers and after them
FirstCalls == words(The("desc"), 24) \o words(The("dbg"), 7744)
LastCalls(n_prompt, n_gen) ==
  words(The("layers"), L_WORDS * LAYERS) \o blob(The("scratch"), 4 * scratch_words + kv_bytes)
  \o words(The("trail"), n_gen) \o words(The("prompt"), n_prompt) \o blob(The("wte"), NVOCAB * D)
  \o AllWords(<< <<The("emb_M"), NVOCAB>>, <<The("emb_sh"), NVOCAB>>, <<The("wpe"), CTX * D>>,
                  <<The("lnf.g"), D>>, <<The("lnf.b"), D>> >>)
  \o blob(The("head"), D * NVPAD)
  \o AllWords(<< <<The("hM"), NVPAD>>, <<The("hsh"), NVPAD>>, <<The("exp"), 256>>,
                  <<The("gelud"), 256>>, <<The("rsqrt"), 256>> >>)
\* Every layer makes the same calls, so it takes the same room.
InRooms(first, from, room, last) ==
  first \o FlattenSeq([k \in 1 .. LAYERS |-> Place(from + room * (k - 1), SerializeLayer(k - 1))])
  \o Place(from + room * LAYERS, last)
Rooms(first, layer0, last) ==
  InRooms(first, layer0[1].addr, Align64(EndOf(layer0)) - layer0[1].addr, last)
AfterFirst(first, last) == Rooms(first, Place(EndOf(first), SerializeLayer(0)), last)
serialize(n_prompt, n_gen) == AfterFirst(Place(HEAP_BASE, FirstCalls), LastCalls(n_prompt, n_gen))

(***************************************************************************)
(* The kernel                                                              *)
(***************************************************************************)

\* A word of the descriptor the kernel follows, what it takes it for, and the bytes
\* behind it that it uses
Follows(n_prompt, n_gen) ==
  { <<4, The("prompt"), 4 * n_prompt>>, <<5, The("wte"), NVOCAB * D>>, <<6, The("emb_M"), 4 * NVOCAB>>, <<7, The("emb_sh"), 4 * NVOCAB>>,
    <<8, The("wpe"), 4 * D * (n_prompt + n_gen - 1)>>, <<9, The("layers"), 4 * L_WORDS * LAYERS>>,
    <<10, The("lnf.g"), 4 * D>>, <<11, The("lnf.b"), 4 * D>>,
    <<12, The("head"), D * NVPAD>>, <<13, The("hM"), 4 * NVPAD>>, <<14, The("hsh"), 4 * NVPAD>>,
    <<17, The("exp"), 4 * 256>>, <<18, The("gelud"), 4 * 256>>, <<19, The("rsqrt"), 4 * 256>>,
    <<21, The("trail"), 4 * n_gen>>, <<22, The("dbg"), 4 * 7736>> }
Numbers(n_prompt, n_gen) == { <<1, n_prompt>>, <<2, n_gen>>, <<3, CTX>>, <<15, NVOCAB>>, <<16, NVPAD>> }
\* The same for a layer's row
LinAt(at, li, key, K, N) ==
  { <<at, <<li, key, "w">>, K * N>>, <<at + 1, <<li, key, "b">>, 4 * N>>, <<at + 2, <<li, key, "M">>, 4 * N>>,
    <<at + 3, <<li, key, "sh">>, 4 * N>> }
FollowsRow(li) ==
  { <<0, <<li, "ln1.g", "">>, 4 * D>>, <<1, <<li, "ln1.b", "">>, 4 * D>>,
    <<6, <<li, "sM", "">>, 4 * HEADS>>, <<7, <<li, "ssh", "">>, 4 * HEADS>>, <<8, <<li, "oM", "">>, 4 * D>>, <<9, <<li, "osh", "">>, 4 * D>>,
    <<14, <<li, "ln2.g", "">>, 4 * D>>, <<15, <<li, "ln2.b", "">>, 4 * D>>,
    <<20, <<li, "gM", "">>, 4 * FF>>, <<21, <<li, "gsh", "">>, 4 * FF>> }
  \union LinAt(2, li, "qkv", D, 3 * D) \union LinAt(10, li, "cproj", D, D)
  \union LinAt(16, li, "cfc", D, FF) \union LinAt(22, li, "mproj", FF, D)

\* The kernel's places in the scratch block, in words: name, first, size
Scratch ==
  LET X == 128
      AHI == X + 2 * D
      CHI == AHI + 2 * 768
      ROW == CHI + 2 * NVPAD
      RED == ROW + FF + 3 * D + D
      LOGIT == RED + 192 + 8
  IN  << <<"bar", 0, 64>>, <<"phase", 64, 64>>, <<"x", X, D>>, <<"h", X + D, D>>,
         <<"ahi", AHI, FF \div 4>>, <<"alo", AHI + 768, FF \div 4>>, <<"chi", CHI, NVPAD>>, <<"clo", CHI + NVPAD, NVPAD>>,
         <<"row", ROW, FF>>, <<"qkv", ROW + FF, 3 * D>>, <<"o", ROW + FF + 3 * D, D>>,
         <<"red", RED, 192>>, <<"pub", RED + 192, 8>>, <<"logit", LOGIT, NVPAD>> >>
S_KV == Scratch[14][2] + NVPAD

\* A byte of the key cache and of the value cache, from the start of the block
KeyAt(li, hd, j, pos) == 4 * S_KV + ((HEADS * li + hd) * 64) * CTX + j * CTX + pos
ValueAt(li, hd, j, pos) == 4 * S_KV + (D * LAYERS) * CTX + ((HEADS * li + hd) * CTX + pos) * 64 + j

\* Where gemm_drive finds a tile
Tile(packed, nb_n, kb, nb) ==
  [rc \in (0 .. TILE - 1) \X (0 .. TILE - 1) |-> packed[(kb * nb_n + nb) * TILE * TILE + rc[1] * TILE + rc[2]]]
=============================================================================
