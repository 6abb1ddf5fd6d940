------------------------------ MODULE Equalisation ------------------------------
(***************************************************************************)
(* The equalisers of src/src/mmse_equalizer_cpu.cpp and of the kernel in   *)
(* src/src/mmse_cuda_runtime.cu, and the order in which they deliver       *)
(* transmit-diversity symbols (pdcch_module_api.h).                        *)
(*                                                                         *)
(* A complex number is <<re, im>> with integers; an estimate or an SINR is *)
(* a fraction [num, den].  The clamps of determinant, gain and SINR are    *)
(* left out: a fraction they would touch has den = 0 here.  h[tx][rx][e]   *)
(* is the channel and y[rx][e] the sample of grid element e.               *)
(***************************************************************************)
EXTENDS Integers, Sequences, SequencesExt

Complex == Int \X Int
Zero == <<0, 0>>

cadd(a, b) == <<a[1] + b[1], a[2] + b[2]>>
csub(a, b) == <<a[1] - b[1], a[2] - b[2]>>
cmul(a, b) == <<a[1] * b[1] - a[2] * b[2], a[1] * b[2] + a[2] * b[1]>>
cconj(a) == <<a[1], -a[2]>>
cscale(a, s) == <<s * a[1], s * a[2]>>
cnorm2(a) == a[1] * a[1] + a[2] * a[2]

CSum(seq) == FoldLeft(cadd, Zero, seq)
Total(seq) == FoldLeft(LAMBDA sum, n : sum + n, 0, seq)

\* Conjugated inner product and squared length of vectors.
Inner(a, b) == CSum([k \in DOMAIN a |-> cmul(cconj(a[k]), b[k])])
Norm2(a) == Inner(a, a)[1]

Symbol(num, den, g, rest) == [xhat |-> [num |-> num, den |-> den], gamma |-> [num |-> g, den |-> rest]]

-----------------------------------------------------------------------------
\* One layer: the weights' denominator cancels against the gain.
equalize_1x2_scalar(h, obs, sigma2) == Symbol(Inner(h, obs), Norm2(h), Norm2(h), sigma2)

\* Mutant: the gain is taken as one, so that the estimate keeps its bias.
equalize_2x2_biased(h0, h1, obs, sigma2) ==
  LET a11 == Norm2(h0) + sigma2
      a22 == Norm2(h1) + sigma2
      a12 == Inner(h0, h1)
      det == a11 * a22 - cnorm2(a12)
      z0 == csub(cscale(Inner(h0, obs), a22), cmul(a12, Inner(h1, obs)))
      z1 == csub(cscale(Inner(h1, obs), a11), cmul(cconj(a12), Inner(h0, obs)))
  IN  << Symbol(z0, det, det - sigma2 * a22, sigma2 * a22),
         Symbol(z1, det, det - sigma2 * a11, sigma2 * a11) >>

\* Two layers: A = H^H H + sigma2 I inverted; everything is a multiple of 1 / det.
trace_equalize_2x2_scalar(h0, h1, obs, sigma2) ==
  LET a11 == Norm2(h0) + sigma2
      a22 == Norm2(h1) + sigma2
      a12 == Inner(h0, h1)
      det == a11 * a22 - cnorm2(a12)
      Weighted0(v) == csub(cscale(Inner(h0, v), a22), cmul(a12, Inner(h1, v)))
      Weighted1(v) == csub(cscale(Inner(h1, v), a11), cmul(cconj(a12), Inner(h0, v)))
      g0 == Weighted0(h0)[1]
      g1 == Weighted1(h1)[1]
  IN  << Symbol(Weighted0(obs), g0, g0, det - g0), Symbol(Weighted1(obs), g1, g1, det - g1) >>

\* Two elements of two ports as a system of two rows per antenna: the columns
\* of its two symbols.
Conjugated(v) == [k \in DOMAIN v |-> cconj(v[k])]
DiversityColumns(h0, h1, h0_next, h1_next) ==
  << h0 \o [k \in DOMAIN h1_next |-> cscale(cconj(h1_next[k]), -1)], h1 \o Conjugated(h0_next) >>

\* The gain is one minus the noise's share of the inverse.
demap_transmit_diversity_mmse_scalar(h0, h1, h0_next, h1_next, obs, obs_next, sigma2) ==
  LET columns == DiversityColumns(h0, h1, h0_next, h1_next)
      observations == obs \o Conjugated(obs_next)
      a00 == Norm2(columns[1]) + sigma2
      a11 == Norm2(columns[2]) + sigma2
      a01 == Inner(columns[1], columns[2])
      z0 == Inner(columns[1], observations)
      z1 == Inner(columns[2], observations)
      det == a00 * a11 - cnorm2(a01)
      gain0 == det - sigma2 * a11
      gain1 == det - sigma2 * a00
  IN  << Symbol(csub(cscale(z0, a11), cmul(a01, z1)), gain0, gain0, sigma2 * a11),
         Symbol(csub(cscale(z1, a00), cmul(cconj(a01), z0)), gain1, gain1, sigma2 * a00) >>

-----------------------------------------------------------------------------
\* From the grid.

Chunks(layout, size) ==
  [i \in 1 .. Len(layout) \div size |-> SubSeq(layout, size * (i - 1) + 1, size * i)]

build_transmit_diversity_re_pairs(layout) == Chunks(layout, 2)
build_transmit_diversity_re_quads(layout) == Chunks(layout, 4)

pairs_stay_in_one_symbol(pairs, n_subcarriers) ==
  \A i \in DOMAIN pairs : pairs[i][1] \div n_subcarriers = pairs[i][2] \div n_subcarriers

\* The channel of one port, and the samples, over the antennas.
Column(h, tx, e) == [rx \in DOMAIN h[tx] |-> h[tx][rx][e]]
Samples(y, e) == [rx \in DOMAIN y |-> y[rx][e]]

demap_transmit_diversity_from_grid(h, y, e0, e1, first_tx_port, sigma2) ==
  demap_transmit_diversity_mmse_scalar(
    Column(h, first_tx_port, e0), Column(h, first_tx_port + 1, e0),
    Column(h, first_tx_port, e1), Column(h, first_tx_port + 1, e1),
    Samples(y, e0), Samples(y, e1), sigma2)

Td(symbols, indices) == [symbols |-> symbols, indices |-> indices]

\* Two ports: every pair gives two symbols, both with the two elements.
equalize_transmit_diversity_pairs(h, y, layout, sigma2) ==
  LET pairs == build_transmit_diversity_re_pairs(layout)
  IN  Td(FlattenSeq([i \in DOMAIN pairs |->
           demap_transmit_diversity_from_grid(h, y, pairs[i][1], pairs[i][2], 1, sigma2)]),
         FlattenSeq([i \in DOMAIN pairs |-> <<pairs[i], pairs[i]>>]))

\* Mutant: every other element is of the same pair of ports.
equalize_transmit_diversity_quads_alternating(h, y, layout, sigma2) ==
  LET quads == build_transmit_diversity_re_quads(layout)
      demap(quad) ==
        demap_transmit_diversity_from_grid(h, y, quad[1], quad[3], 1, sigma2)
          \o demap_transmit_diversity_from_grid(h, y, quad[2], quad[4], 3, sigma2)
  IN  Td(FlattenSeq([i \in DOMAIN quads |-> demap(quads[i])]),
         FlattenSeq([i \in DOMAIN quads |-> [k \in 1 .. 4 |-> quads[i]]]))

\* Four ports: the first two elements are of ports 0 and 1, the others of 2 and 3.
equalize_transmit_diversity_quads(h, y, layout, sigma2) ==
  LET quads == build_transmit_diversity_re_quads(layout)
      demap(quad) ==
        demap_transmit_diversity_from_grid(h, y, quad[1], quad[2], 1, sigma2)
          \o demap_transmit_diversity_from_grid(h, y, quad[3], quad[4], 3, sigma2)
  IN  Td(FlattenSeq([i \in DOMAIN quads |-> demap(quads[i])]),
         FlattenSeq([i \in DOMAIN quads |-> [k \in 1 .. 4 |-> quads[i]]]))

\* One element per symbol, in the order of the CCEs.
normalize_pdcch_cce_order(td, size) ==
  LET groups == Chunks(td.indices, size)
  IN  IF Len(td.symbols) % size # 0 \/ Len(td.indices) # Len(td.symbols)
         \/ \E i \in DOMAIN groups : \E k \in 1 .. size : groups[i][k] # groups[i][1]
      THEN [status |-> "kInvalidArgument", symbols |-> <<>>, re_grid_indices |-> <<>>]
      ELSE [status |-> "kOk", symbols |-> td.symbols,
            re_grid_indices |-> FlattenSeq([i \in DOMAIN groups |-> groups[i][1]])]

normalize_pdcch_td_cce_order(td) == normalize_pdcch_cce_order(td, 2)
normalize_pdcch_td4_cce_order(td) == normalize_pdcch_cce_order(td, 4)

\* What a PDCCH of one, two or four ports delivers.
PdcchSymbols(h, y, layout, sigma2) ==
  CASE Len(h) = 1 ->
         [status |-> "kOk", re_grid_indices |-> layout,
          symbols |-> [i \in DOMAIN layout |->
            equalize_1x2_scalar(Column(h, 1, layout[i]), Samples(y, layout[i]), sigma2)]]
    [] Len(h) = 2 ->
         normalize_pdcch_td_cce_order(equalize_transmit_diversity_pairs(h, y, layout, sigma2))
    [] OTHER ->
         normalize_pdcch_td4_cce_order(equalize_transmit_diversity_quads(h, y, layout, sigma2))

-----------------------------------------------------------------------------
(* A transmitter, to compare with. *)

\* What the ports send in the elements of a layout: a pair of ports sends a pair
\* of symbols as s0, conj(s1) and s1, -conj(s0).
PortSymbol(n_tx_ports, tx, symbols, i) ==
  LET first == 2 * ((i - 1) \div 2) + 1
      mine == n_tx_ports = 2 \/ (((i - 1) % 4) \div 2) + 1 = ((tx - 1) \div 2) + 1
  IN  IF n_tx_ports = 1 THEN symbols[i]
      ELSE IF ~mine THEN Zero
      ELSE IF i = first THEN symbols[i + ((tx - 1) % 2)]
      ELSE IF tx % 2 = 1 THEN cconj(symbols[i]) ELSE cscale(cconj(symbols[i - 1]), -1)

\* The samples of the elements 1 .. Len(symbols), without noise.
Received(h, symbols) ==
  [rx \in DOMAIN h[1] |-> [e \in DOMAIN symbols |->
     CSum([tx \in DOMAIN h |-> cmul(h[tx][rx][e], PortSymbol(Len(h), tx, symbols, e))])]]

\* Two columns that a receiver can tell apart: their determinant is not zero.
Independent(a, b) == Norm2(a) * Norm2(b) # cnorm2(Inner(a, b))

Equals(fraction, value) == fraction.den # 0 /\ fraction.num = cscale(value, fraction.den)

\* The ratio an equaliser reports is the one its output has: `own`, `other` and
\* `noise` are its answers to the symbol alone, to the other symbol alone and to
\* unit noise in one observation each.
TrueRatio(own, other, noise, sigma2, gamma) ==
  cnorm2(own) * gamma.den =
    gamma.num * (cnorm2(other) + sigma2 * Total([j \in DOMAIN noise |-> cnorm2(noise[j])]))

=============================================================================
