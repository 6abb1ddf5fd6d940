---------------------------- MODULE ChannelEstimate ----------------------------
(***************************************************************************)
(* The cell reference signals and the channel estimate interpolated from   *)
(* them (src/src/mmse_equalizer_cpu.cpp; the kernels of                    *)
(* src/src/mmse_cuda_runtime.cu compute the same for a full band).         *)
(*                                                                         *)
(* Symbols, tones, ports and antennas count from zero as in the code.  A   *)
(* pilot and a sample are Gaussian integers in units of 1 / sqrt(2), so    *)
(* that twice the channel is what a pilot shows; a fraction is [num, den]. *)
(***************************************************************************)
EXTENDS Gold, Equalisation

kLteNumSymbolsNormalCp == 14

\* The symbols in which a port sends pilots.
crs_port_pattern(port) == IF port \in {0, 1} THEN <<0, 4, 7, 11>> ELSE <<1, 8>>

crs_frequency_offset(cell_id, port, symbol) ==
  LET first == symbol \in {0, 7}
      v == CASE port = 0 -> IF first THEN 0 ELSE 3
             [] port = 1 -> IF first THEN 3 ELSE 0
             [] port = 2 -> 3
             [] port = 3 -> 0
  IN  (v + cell_id) % 6

crs_subcarrier(cell_id, port, symbol, pilot) ==
  6 * pilot + crs_frequency_offset(cell_id, port, symbol)

is_crs_re(cell_id, n_tx_ports, symbol, sc) ==
  \E port \in 0 .. n_tx_ports - 1 :
    /\ symbol \in Range(crs_port_pattern(port))
    /\ sc % 6 = crs_frequency_offset(cell_id, port, symbol)

crs_c_init(cell_id, subframe, symbol) ==
  LET slot == 2 * subframe + symbol \div 7
  IN  2^10 * (7 * (slot + 1) + (symbol % 7) + 1) * (2 * cell_id + 1) + 2 * cell_id + 1

\* The pilots of one symbol: two samples of the Gold sequence each.
crs_values(cell_id, subframe, symbol, count) ==
  LET bits == generate_scrambling_bits(crs_c_init(cell_id, subframe, symbol), 2 * count)
  IN  [k \in 1 .. count |-> <<1 - 2 * bits[2 * k - 1], 1 - 2 * bits[2 * k]>>]

-----------------------------------------------------------------------------
(* An estimate is asked for one port and antenna: `ls[cs]` holds the least *)
(* squares samples of the cs-th pilot symbol.                              *)

LsSamples(pilots, samples) == [k \in DOMAIN pilots |-> cmul(samples[k], cconj(pilots[k]))]

\* Twice the distance of the inner samples to the middle of their neighbours, squared.
second_differences(ls) ==
  Total([k \in 1 .. Len(ls) - 2 |->
           cnorm2(csub(cscale(ls[k + 1], 2), cadd(ls[k], ls[k + 2])))])

\* The mean of 2/3 of the squared distances, over the rows of every port, antenna
\* and pilot symbol; the samples are twice the channel.
sigma2_estimate(rows) ==
  [num |-> Total([r \in DOMAIN rows |-> second_differences(rows[r])]),
   den |-> 24 * Total([r \in DOMAIN rows |-> Len(rows[r]) - 2])]

\* Between the pilots on both sides, past the edges along the outermost two.
interpolate_freq(ls, offset, sc) ==
  LET n == Len(ls)
      last == 6 * (n - 1) + offset
      left  == IF sc < offset THEN 0 ELSE IF sc > last THEN n - 2 ELSE (sc - offset) \div 6
      right == IF sc < offset THEN 1 ELSE IF sc > last THEN n - 1 ELSE Min({left + 1, n - 1})
  IN  IF left = right THEN cscale(ls[left + 1], 6)
      ELSE cadd(cscale(ls[left + 1], 6),
                cscale(csub(ls[right + 1], ls[left + 1]), sc - (6 * left + offset)))

\* Mutant: past the last pilot symbol its estimate is held.
lerp_bounds_held(pattern, symbol) ==
  LET passed == {k \in DOMAIN pattern : pattern[k] < symbol}
      upper == Cardinality(passed) + 1
  IN  IF upper > Len(pattern) THEN <<Len(pattern), Len(pattern)>>
      ELSE <<Max({1, upper - 1}), upper>>

\* The pilot symbols an estimate lies between; past the last, the last two.
lerp_bounds(pattern, symbol) ==
  LET passed == {k \in DOMAIN pattern : pattern[k] < symbol}
      upper == Cardinality(passed) + 1
  IN  IF upper > Len(pattern) THEN <<Len(pattern) - 1, Len(pattern)>>
      ELSE <<Max({1, upper - 1}), upper>>

lerp_symbol(symbol, left_symbol, left, right_symbol, right) ==
  IF left_symbol = right_symbol THEN [num |-> left, den |-> 1]
  ELSE [num |-> cadd(cscale(left, right_symbol - left_symbol),
                     cscale(csub(right, left), symbol - left_symbol)),
        den |-> right_symbol - left_symbol]

\* The channel of one port and antenna at one element.
estimate_channel(cell_id, port, ls, symbol, sc) ==
  LET pattern == crs_port_pattern(port)
      at == lerp_bounds(pattern, symbol)
      freq(k) == interpolate_freq(ls[k], crs_frequency_offset(cell_id, port, pattern[k]), sc)
      h == lerp_symbol(symbol, pattern[at[1]], freq(at[1]), pattern[at[2]], freq(at[2]))
  IN  [num |-> h.num, den |-> 12 * h.den]

-----------------------------------------------------------------------------
(* A transmitter, to compare with. *)

\* The reference signal of 36.211, 6.10.1.1, for the code's numbering of pilots.
StandardPilots(cell_id, subframe, symbol, count) ==
  LET bits == StandardBits(crs_c_init(cell_id, subframe, symbol), 2 * count)
  IN  [k \in 1 .. count |-> <<1 - 2 * bits[2 * k - 1], 1 - 2 * bits[2 * k]>>]

\* Port p's channel at an element: affine in symbol and tone.
Affine(h, symbol, sc) == cadd(h.base, cadd(cscale(h.per_symbol, symbol), cscale(h.per_tone, sc)))

\* What an antenna hears at a pilot of port p: the pilot, and those of the other
\* ports that fall on the same element.
PilotSample(cell_id, channels, symbol, sc, values) ==
  CSum([k \in DOMAIN channels |->
    IF symbol \in Range(crs_port_pattern(k - 1))
       /\ sc % 6 = crs_frequency_offset(cell_id, k - 1, symbol)
    THEN cmul(Affine(channels[k], symbol, sc), values[sc \div 6 + 1])
    ELSE Zero])

\* Rows of n samples that are nothing but noise, of every sign.
WithSign(rows, sign) == [r \in DOMAIN rows |-> Append(rows[r], <<sign, 0>>)]
SignRows[n \in Nat] ==
  IF n = 0 THEN << <<>> >> ELSE WithSign(SignRows[n - 1], 1) \o WithSign(SignRows[n - 1], -1)

=============================================================================
