---------------------------- MODULE DownlinkReceiver ----------------------------
(***************************************************************************)
(* The receiver a caller of the module APIs builds: blind decoding of the  *)
(* PDCCH, the grant made of a hit and the PDSCH descriptor made of the     *)
(* grant, the PDSCH soft bits with a descrambling plan that outlives the   *)
(* call, and the stages that keep no state, each asked on its own.         *)
(*                                                                         *)
(* A step asks one question and records it with its answer; a receiver     *)
(* that has answered is replaced by a new one, except that PDSCH calls     *)
(* follow each other on one plan.                                          *)
(***************************************************************************)
EXTENDS PdcchSearch, PdschGrant, SoftDemod, TailBiting
Rate == INSTANCE RateMatching

CONSTANT Inputs    \* what each question may be asked for: a record of sets

\* A view of the equaliser's output, whose arrays hold `capacity` elements of
\* every layer.
Views ==
  [x_hat_re : Seq(Int), x_hat_im : Seq(Int), sinr : Seq(Int), capacity : Nat,
   n_re : Nat, n_layers : Nat, mod_order : Nat]

Readable(out) ==
  out \in Views /\ \A s \in {out.x_hat_re, out.x_hat_im, out.sinr} : Len(s) >= out.n_layers * out.capacity

\* The widths of the arguments (pdsch_module_api.h:10, lte_descrambling.h:14).
ASSUME PdschInputsAssumption ==
  \A call \in Inputs.pdsch :
    /\ call.cell_id \in Nat /\ call.cell_id < 2^16 /\ call.rnti \in Nat /\ call.rnti < 2^16
    /\ call.sfn_subframe \in Nat /\ call.codeword \in Nat /\ call.codeword < 2^8
    /\ Readable(call.out)

\* An output of a control channel has as many elements of each layer as its
\* arrays hold.
ASSUME ControlInputsAssumption ==
  \A in \in Inputs.control :
    /\ in.channel \in {"kPbch", "kPcfich", "kPdcch"}
    /\ in.cell_id \in Nat /\ in.cell_id < 2^16 /\ in.sfn_subframe \in Nat
    /\ Readable(in.out) /\ supported_mod_order(in.out.mod_order) /\ in.out.n_layers # 0
    /\ Len(in.out.x_hat_im) = Len(in.out.x_hat_re) /\ Len(in.out.sinr) = Len(in.out.x_hat_re)
    /\ in.out.n_re = Len(in.out.x_hat_re) \div in.out.n_layers /\ in.out.capacity = in.out.n_re

\* Two symbols of unit power over channels a receiver can tell apart: the
\* determinant of their columns is none that the code's floor would replace.
TwoSymbols(in) ==
  in.symbols \in [1 .. 2 -> Complex] /\ (\A k \in 1 .. 2 : cnorm2(in.symbols[k]) = 1) /\ in.sigma2 \in Nat

ASSUME DiversityInputsAssumption ==
  \A in \in Inputs.diversity :
    /\ TwoSymbols(in)
    /\ in.h \in [1 .. 2 -> Seq([1 .. 2 -> Complex])] /\ Len(in.h[1]) = Len(in.h[2])
    /\ LET columns == DiversityColumns(Column(in.h, 1, 1), Column(in.h, 2, 1),
                                       Column(in.h, 1, 2), Column(in.h, 2, 2))
       IN  Independent(columns[1], columns[2])

ASSUME LayersInputsAssumption ==
  \A in \in Inputs.layers :
    /\ TwoSymbols(in)
    /\ in.h0 \in [1 .. 2 -> Complex] /\ in.h1 \in [1 .. 2 -> Complex] /\ Independent(in.h0, in.h1)

\* Cells and subframes are those of the standard (mmse_equalizer_cpu.cpp:166); a
\* channel changes by the same amount from symbol to symbol and from tone to tone,
\* and a row of samples has at least one between two others.
Channels == [base : Complex, per_symbol : Complex, per_tone : Complex]

ASSUME EstimateInputsAssumption ==
  /\ \A in \in Inputs.estimates :
       /\ in.cell_id \in 0 .. 503 /\ in.subframe \in 0 .. 9 /\ in.pilots \in Nat /\ in.pilots > 1
       /\ in.channels \in Seq(Channels) /\ Len(in.channels) \in {1, 2, 4}
       /\ in.elements \subseteq (0 .. kLteNumSymbolsNormalCp - 1) \X Nat
  /\ \A n \in Inputs.noise : n \in Nat /\ n > 2

\* A run of blocks inside its band, and the configurations with a format 1A
\* (pdcch_module_api.h:1170).
RunOfBand(start, length, n_prb) ==
  n_prb \in SupportedBandwidths /\ start \in Nat /\ length \in Nat \ {0} /\ start + length <= n_prb

SupportedConfig(config) ==
  /\ config.n_prb \in SupportedBandwidths /\ config.tdd \in BOOLEAN /\ config.cif_enabled \in BOOLEAN
  /\ config.tdd \/ config.cif_enabled => config.n_prb = 100

FieldsFit(field, config) ==
  \A name \in Range(FieldOrder) : field[name] \in Nat /\ field[name] < 2^WidthsOf(config)[name]

\* A random-access order: the bits behind the mask index, from the second of
\* the redundancy version on in FDD, are zero.
PaddedOrder(field, config) ==
  /\ field.distributed = 0 /\ field.riv = 2^WidthsOf(config).riv - 1
  /\ IF config.tdd THEN field.rv = 0 ELSE field.rv \in {0, 2}
  /\ field.tpc = 0 /\ field.dai = 0

\* What a base station sends in format 1A (36.212, 5.3.3.1.3).
Sendable(field, rnti, config) ==
  /\ SupportedConfig(config) /\ FieldsFit(field, config) /\ field.format = 1
  /\ rnti = kSiRnti => field.tpc < 2
  /\ \/ PaddedOrder(field, config)
     \/ \E start \in 0 .. config.n_prb - 1, length \in 1 .. config.n_prb :
          RunOfBand(start, length, config.n_prb) /\ field.riv = EncodeRiv(start, length, config.n_prb)

ASSUME DciInputsAssumption ==
  /\ \A in \in Inputs.runs : RunOfBand(in.start, in.length, in.n_prb)
  /\ \A in \in Inputs.dcis :
       /\ in.rnti \in Nat /\ in.rnti < 2^16 /\ in.rnti # OtherRnti
       /\ Sendable(in.field, in.rnti, in.config)

VARIABLES
  plan,      \* PdschDescramblingPlan
  answer     \* the last question: [kind, in, out]

receiverVars == <<searchVars, plan, answer>>

NoAnswer == [kind |-> "none", in |-> <<>>, out |-> <<>>]

Init == SearchInit /\ plan = NoPlan /\ answer = NoAnswer

Fresh == search = NoSearch /\ plan = NoPlan /\ answer = NoAnswer

Ask(kind, in, out) ==
  /\ answer' = [kind |-> kind, in |-> in, out |-> out]
  /\ UNCHANGED <<searchVars, plan>>

-----------------------------------------------------------------------------
\* The search, and what is made of its hits.

Search == answer = NoAnswer /\ plan = NoPlan /\ SearchNext /\ UNCHANGED <<plan, answer>>

\* The geometry is no longer needed: a PDSCH layout does not depend on it.
HandOver ==
  /\ returned = "kOk" /\ answer = NoAnswer
  /\ \E i \in DOMAIN result.hits : \E config \in Inputs.handoff :
       LET made == make_pdsch_grant_v1(result.hits[i], config)
           described == make_pdsch_extract_descriptor_v1(made.grant, config.n_rx_ant)
       IN  answer' = [kind |-> "grant", in |-> [hit |-> result.hits[i], config |-> config],
                      out |-> [made |-> made, described |-> described]]
  /\ UNCHANGED <<searchVars, plan>>

-----------------------------------------------------------------------------
\* PDSCH soft bits, call after call on one plan.

PdschLlrs ==
  /\ search = NoSearch /\ answer.kind \in {"none", "pdsch"}
  /\ \E call \in Inputs.pdsch :
       /\ plan' = prepare_pdsch_descrambling_plan(call, plan)
       /\ answer' = [kind |-> "pdsch", in |-> call,
                     out |-> [planned |-> build_backend_pdsch_llr_result_with_plan(call, plan),
                              fused |-> build_backend_pdsch_descrambled_llr_result(call)]]
  /\ UNCHANGED searchVars

\* PBCH, PCFICH and PDCCH, each scrambled its own way.
ControlLlrs ==
  /\ Fresh
  /\ \E in \in Inputs.control :
       LET c_init == CASE in.channel = "kPbch"   -> pbch_c_init(in.cell_id)
                       [] in.channel = "kPcfich" -> pcfich_c_init(in.cell_id, in.sfn_subframe)
                       [] in.channel = "kPdcch"  -> pdcch_c_init(in.cell_id, in.sfn_subframe)
       IN  Ask("control", in,
               [regular |-> make_backend_descrambled_llr_indication(in.out, c_init),
                diversity |-> make_backend_td_descrambled_llr_indication(in.out, c_init),
                device |-> IF in.channel = "kPdcch" THEN pdcch_llr_descramble_kernel(in.out, c_init)
                           ELSE <<>>])

-----------------------------------------------------------------------------
\* Stages without state.

DecodeWord ==
  /\ Fresh
  /\ \E llrs \in Inputs.words :
       Ask("word", llrs, [host |-> decode_pdcch_tail_biting_convolutional(Len(llrs) \div 3, llrs),
                          device |-> device_decode(llrs)])

\* The kernel knows one codeword only.
RecoverRate ==
  /\ Fresh
  /\ \E in \in Inputs.rates :
       Ask("rate", in,
           [host |-> Rate!recover_pdcch_convolutional_rate_matched_llrs(in.llrs, in.level, in.payload_bits),
            device |-> IF in.payload_bits = 28 THEN Rate!device_recover(in.llrs, 0, 72 * in.level)
                       ELSE <<>>])

DecodeAllocation ==
  /\ Fresh
  /\ \E in \in Inputs.runs :
       Ask("run", in, decode_pdcch_type2_riv(EncodeRiv(in.start, in.length, in.n_prb), in.n_prb))

ParseDci ==
  /\ Fresh
  /\ \E in \in Inputs.dcis :
       LET word == WithCrc(EncodeDci(in.field, in.config), in.rnti)
       IN  Ask("dci", in,
               [parsed |-> validate_and_parse_pdcch_dci_format1a(word, in.rnti, in.config),
                other |-> validate_and_parse_pdcch_dci_format1a(word, OtherRnti, in.config),
                device |-> IF Len(word) = 44 THEN pdcch_crc_kernel(word, in.rnti)
                           ELSE check_pdcch_crc_rnti(word, in.rnti)])

\* The equalisers check grid and descriptor before they lay out the elements,
\* and the PHICH reservation of a PDCCH is checked before that.
BuildLayout ==
  /\ Fresh
  /\ \E in \in Inputs.layouts :
       /\ validate_grid(in.grid, in.desc) /\ descriptor_supported(in.desc)
       /\ Control!validate_phich_reservation_config(in.geometry.context)
       /\ Ask("layout", in, build_channel_re_layout(in.desc, in.geometry))

-----------------------------------------------------------------------------
(* The channel: what is sent is known, so that the answers can be compared. *)

\* The reference signals of every port, heard over affine channels.
EstimateChannel ==
  /\ Fresh
  /\ \E in \in Inputs.estimates :
       LET ls(port, symbol) ==
             LET values == Evaluated(crs_values(in.cell_id, in.subframe, symbol, in.pilots))
                 sent == Evaluated(StandardPilots(in.cell_id, in.subframe, symbol, in.pilots))
             IN  LsSamples(values, Evaluated([p \in 1 .. in.pilots |->
                   PilotSample(in.cell_id, in.channels, symbol,
                               crs_subcarrier(in.cell_id, port, symbol, p - 1), sent)]))
           of_port(tx) == LET pattern == crs_port_pattern(tx - 1)
                          IN  Evaluated([k \in DOMAIN pattern |-> Evaluated(ls(tx - 1, pattern[k]))])
       IN  \E rows \in {Evaluated([tx \in DOMAIN in.channels |-> of_port(tx)])} :
             Ask("estimate", in,
                 [h |-> [tx \in DOMAIN rows |-> [at \in in.elements |->
                           estimate_channel(in.cell_id, tx - 1, rows[tx], at[1], at[2])]],
                  residual |-> sigma2_estimate(FlattenSeq(rows))])

\* Rows that are nothing but noise.
EstimateNoise ==
  /\ Fresh
  /\ \E n \in Inputs.noise : Ask("noise", n, sigma2_estimate(SignRows[n]))

\* Two ports: the symbols of one pair, alone and together, and unit noise.
EqualiseDiversity ==
  /\ Fresh
  /\ \E in \in Inputs.diversity :
       LET demap(symbols, sigma2) ==
             demap_transmit_diversity_from_grid(in.h, Received(in.h, symbols), 1, 2, 1, sigma2)
           alone(k) == demap([j \in 1 .. 2 |-> IF j = k THEN in.symbols[k] ELSE Zero], in.sigma2)
           noise(rx, e) ==
             demap_transmit_diversity_from_grid(
               in.h, [r \in DOMAIN in.h[1] |-> [f \in {1, 2} |-> IF r = rx /\ f = e THEN <<1, 0>> ELSE Zero]],
               1, 2, 1, in.sigma2)
       IN  Ask("diversity", in,
               [exact |-> demap(in.symbols, 0), alone |-> [k \in 1 .. 2 |-> alone(k)],
                noise |-> FlattenSeq([rx \in DOMAIN in.h[1] |-> <<noise(rx, 1), noise(rx, 2)>>])])

\* Two layers on two antennas, and one layer on two.
EqualiseLayers ==
  /\ Fresh
  /\ \E in \in Inputs.layers :
       LET mix(symbols) == [rx \in 1 .. 2 |-> cadd(cmul(in.h0[rx], symbols[1]), cmul(in.h1[rx], symbols[2]))]
           equalised(y, sigma2) == trace_equalize_2x2_scalar(in.h0, in.h1, y, sigma2)
           alone(k) == equalised(mix([j \in 1 .. 2 |-> IF j = k THEN in.symbols[k] ELSE Zero]), in.sigma2)
           unit(rx) == [r \in 1 .. 2 |-> IF r = rx THEN <<1, 0>> ELSE Zero]
       IN  Ask("layers", in,
               [exact |-> equalised(mix(in.symbols), 0), alone |-> [k \in 1 .. 2 |-> alone(k)],
                noise |-> [rx \in 1 .. 2 |-> equalised(unit(rx), in.sigma2)],
                single |-> equalize_1x2_scalar(in.h0, mix(<<in.symbols[1], Zero>>), in.sigma2)])

\* A transmitter's samples: the word is encoded, rate-matched, scrambled and
\* sent on the elements of its CCEs; the other CCEs of the region are empty.
SentSymbols(in) ==
  LET word == WithCrc(EncodeDci(in.field, in.config), in.rnti)
      coded == Evaluated(Encode(word))
      order == Evaluated(Rate!SentOrder(Len(word)))
      bits == Evaluated([k \in 1 .. 72 * in.level |->
                LET at == order[((k - 1) % Len(order)) + 1] IN coded[3 * at[1] + at[2] + 1]])
      scrambling == StandardBits(pdcch_c_init(in.cell_id, in.sfn_subframe), 2 * Len(in.layout))
      first == 72 * in.first_cce
      point(k) == IF k - first \in DOMAIN bits
                  THEN 1 - 2 * ((bits[k - first] + scrambling[k]) % 2) ELSE 0
  IN  Evaluated([i \in DOMAIN in.layout |-> <<point(2 * i - 1), point(2 * i)>>])

\* The candidate's way from the samples to the fields, without noise: every
\* element has the same ratio, which counts as one.
PdcchView(symbols) ==
  LET axis(k) == Evaluated([i \in DOMAIN symbols |-> symbols[i].xhat.num[k] \div symbols[i].xhat.den])
  IN  [x_hat_re |-> axis(1), x_hat_im |-> axis(2), sinr |-> [i \in DOMAIN symbols |-> 1],
       n_layers |-> 1, n_re |-> Len(symbols), capacity |-> Len(symbols), mod_order |-> 2]

ReceiveDci ==
  /\ Fresh
  /\ \E in \in Inputs.candidates :
     \E sent \in {SentSymbols(in)} :
     \E td \in {PdcchSymbols(in.h, Received(in.h, sent), in.layout, 0)} :
     \E llrs \in {make_backend_descrambled_llr_indication(
                    PdcchView(td.symbols), pdcch_c_init(in.cell_id, in.sfn_subframe))} :
       LET payload_bits == pdcch_dci_format1a_payload_bit_count(in.config)
       IN  \E recovered \in {Rate!recover_pdcch_convolutional_rate_matched_llrs(
                               candidate_llrs(llrs, in.first_cce, in.level), in.level, payload_bits)} :
           \E decoded \in {decode_pdcch_tail_biting_convolutional(payload_bits + kCrcBits, recovered.llrs)} :
             Ask("candidate", in,
                 [order |-> td.re_grid_indices,
                  verdict |-> validate_and_parse_pdcch_dci_format1a(decoded.bits, in.rnti, in.config)])

\* The caller starts again.
NewReceiver ==
  /\ answer # NoAnswer \/ returned # "none"
  /\ search' = NoSearch /\ result' = NoResult /\ returned' = "none"
  /\ plan' = NoPlan /\ answer' = NoAnswer

Next ==
  \/ Search \/ HandOver \/ PdschLlrs \/ ControlLlrs \/ DecodeWord \/ RecoverRate
  \/ DecodeAllocation \/ ParseDci \/ BuildLayout \/ EstimateChannel \/ EstimateNoise
  \/ EqualiseDiversity \/ EqualiseLayers \/ ReceiveDci \/ NewReceiver

Spec == Init /\ [][Next]_receiverVars

-----------------------------------------------------------------------------
\* Properties.

Answered(kind) == answer.kind = kind

\* Soft bits by definition: the nearer of the points with a zero against the
\* nearer of those with a one, and the sign of the scrambling bit (36.211, 7.2).
ReferenceLlrs(out, c_init) ==
  LET at == elements(out)
      bits == StandardBits(c_init, total_llr_count(out))
      value(i) ==
        LET k == ((i - 1) % out.mod_order) + 1
            e == at[((i - 1) \div out.mod_order) + 1]
            x == IF k % 2 = 1 THEN out.x_hat_re[e] ELSE out.x_hat_im[e]
        IN  max_log_axis_llrs(x, Max({out.sinr[e], 0}), out.mod_order \div 2)[(k + 1) \div 2]
  IN  [i \in 1 .. total_llr_count(out) |-> IF bits[i] = 1 THEN -value(i) ELSE value(i)]

\* Every modulation's shortcut, I and Q in turn, the order of layers, elements
\* and bits, and the unrolled scrambling of every channel give the max-log soft
\* bits of the definition, and so does the device's kernel (lte_soft_demod.h:87,
\* :99, lte_descrambling.h:66, mmse_cuda_runtime.cu:742).
LlrsAreMaxLog ==
  /\ Answered("pdsch") /\ answer.out.fused.status = "kOk" =>
       LET in == answer.in
       IN  answer.out.fused.llrs = ReferenceLlrs(in.out,
             in.rnti * 2^14 + in.codeword * 2^13 + (in.sfn_subframe % 10) * 2^9 + in.cell_id)
  /\ Answered("control") =>
       LET in == answer.in
           c_init == CASE in.channel = "kPbch" -> in.cell_id
                       [] in.channel = "kPcfich" ->
                            ((in.sfn_subframe % 10) + 1) * (2 * in.cell_id + 1) * 2^9 + in.cell_id
                       [] in.channel = "kPdcch" -> (in.sfn_subframe % 10) * 2^9 + in.cell_id
       IN  /\ answer.out.regular = ReferenceLlrs(in.out, c_init)
           /\ in.out.mod_order = 2 /\ in.out.n_layers = 1 =>
                /\ answer.out.diversity = answer.out.regular
                /\ in.channel = "kPdcch" => answer.out.device = answer.out.regular

\* A plan kept from earlier calls is never seen in the answer: the same soft
\* bits as without it, and the same refusals (pdsch_module_api.h:10, :60).
PlanIsTransparent == Answered("pdsch") => answer.out.planned = answer.out.fused

\* Of all tail-biting codewords none agrees better with the soft bits than the
\* one decoded, whatever the ties, and the kernels decode the same word
\* (pdcch_tail_biting_decoder.cpp:97, mmse_cuda_runtime.cu:796).
DecoderIsMaximumLikelihood ==
  Answered("word") =>
    LET llrs == answer.in
        found == answer.out.host.bits
        best == Correlation(Encode(found), llrs)
    IN  /\ answer.out.host.status = "kOk"
        /\ \A word \in [1 .. Len(llrs) \div 3 -> {0, 1}] : Correlation(Encode(word), llrs) <= best
        /\ answer.out.device = found

\* Rate recovery undoes the rate matching of 36.212, 5.1.4.2: a coded bit gets
\* the sum of the soft bits it was sent as, none when it was not sent, on host
\* and device (pdcch_module_api.h:1010, mmse_cuda_runtime.cu:764).
RecoveryInvertsRateMatching ==
  Answered("rate") =>
    LET in == answer.in
        order == Rate!SentOrder(in.payload_bits + 16)
        sum(bit, stream) ==
          LET k == CHOOSE j \in DOMAIN order : order[j] = <<bit, stream>>
              times == (Len(in.llrs) - k) \div Len(order) + 1
          IN  Total([r \in 1 .. times |-> in.llrs[k + (r - 1) * Len(order)]])
    IN  /\ answer.out.host.status = "kOk"
        /\ \A k \in DOMAIN answer.out.host.llrs :
             answer.out.host.llrs[k] = sum((k - 1) \div 3, (k - 1) % 3)
        /\ in.payload_bits = 28 => answer.out.device = answer.out.host.llrs

\* A word is accepted for the RNTI it carries and no other, on host and device,
\* and each field is read where the format puts it: FDD, TDD, with a carrier
\* indicator, for system information and as a random-access order
\* (36.212, 5.3.3.1.3). An allocation is read back as it was written: every run
\* of blocks of a band, the wrapped ones included (36.213, 7.1.6.3;
\* pdcch_module_api.h:1104, :1205, :1265).
DciRoundTrip ==
  /\ Answered("run") =>
       answer.out = [status |-> "kOk", run |-> [start |-> answer.in.start, length |-> answer.in.length]]
  /\ Answered("dci") =>
       LET in == answer.in
           dci == answer.out.parsed.dci
           field == in.field
           width == WidthsOf(in.config).riv
       IN  /\ answer.out.parsed.status = "kOk" /\ answer.out.parsed.matched
           /\ ~answer.out.other.matched
           /\ answer.out.device.matches_expected_rnti
           /\ dci.rnti = in.rnti /\ dci.cif_present = in.config.cif_enabled
           /\ dci.is_pdcch_order <=> field.riv = 2^width - 1
           /\ ~dci.is_pdcch_order =>
                /\ dci.carrier_indicator = field.cif /\ dci.mcs_tbs_index = field.mcs
                /\ dci.harq_process = field.harq /\ dci.redundancy_version = field.rv
                /\ dci.downlink_assignment_index = field.dai
                /\ EncodeRiv(dci.start_prb, dci.n_prb, in.config.n_prb) = field.riv
                /\ IF in.rnti = kSiRnti THEN dci.n_prb_1a = 2 + field.tpc
                   ELSE dci.transmit_power_control = field.tpc /\ dci.new_data_indicator = field.ndi

\* Both symbols come back exactly when there is no noise; with noise each is
\* unbiased, and the ratio reported is that of its power to what is left of
\* the other symbol and of the noise (mmse_equalizer_cpu.cpp:947, :1168).
TrueSymbols(in, out) ==
  \A k \in 1 .. 2 :
    /\ Equals(out.exact[k].xhat, in.symbols[k])
    /\ Equals(out.alone[k][k].xhat, in.symbols[k])
    /\ TrueRatio(out.alone[k][k].xhat.num, out.alone[3 - k][k].xhat.num,
                 [j \in DOMAIN out.noise |-> out.noise[j][k].xhat.num], in.sigma2, out.alone[k][k].gamma)

SymbolsAndRatiosAreTrue ==
  /\ Answered("diversity") => TrueSymbols(answer.in, answer.out)
  /\ Answered("layers") => /\ TrueSymbols(answer.in, answer.out)
                           /\ Equals(answer.out.single.xhat, answer.in.symbols[1])

\* Channels that are affine in time and frequency are estimated exactly at
\* every element, past the outermost pilots included, and leave no residual;
\* ports 2 and 3 hold their first pilots' estimate before it. The residual of
\* noise alone is its power on average (mmse_equalizer_cpu.cpp:763,
\* mmse_cuda_runtime.cu:115).
EstimateIsExact ==
  /\ Answered("estimate") =>
       /\ \A tx \in DOMAIN answer.out.h : \A at \in answer.in.elements :
            LET symbol == IF tx >= 3 THEN Max({at[1], 1}) ELSE at[1]
            IN  Equals(answer.out.h[tx][at], Affine(answer.in.channels[tx], symbol, at[2]))
       /\ answer.out.residual.num = 0
  /\ Answered("noise") => 4 * answer.out.num = answer.out.den

\* 36.211, 6.10.1.2: the elements of the reference signals of some ports; the
\* two of a symbol share one comb of every third tone.
Pilots(cell_id, n_tx_ports, symbol) ==
  CASE n_tx_ports = 1 /\ symbol \in {0, 7}  -> {sc \in 0 .. 1199 : sc % 6 = cell_id % 6}
    [] n_tx_ports = 1 /\ symbol \in {4, 11} -> {sc \in 0 .. 1199 : sc % 6 = (cell_id + 3) % 6}
    [] n_tx_ports > 1 /\ symbol \in {0, 4, 7, 11} -> {sc \in 0 .. 1199 : sc % 3 = cell_id % 3}
    [] n_tx_ports > 2 /\ symbol \in {1, 8} -> {sc \in 0 .. 1199 : sc % 3 = cell_id % 3}
    [] OTHER -> {}

\* 36.211, 6.7.4: the PCFICH's tones in symbol 0.
PcfichTones(cell_id, n_prb) ==
  UNION {LET first == (6 * (cell_id % (2 * n_prb)) + 6 * ((i * n_prb) \div 2)) % (12 * n_prb)
         IN  {t \in first .. first + 5 : t % 3 # cell_id % 3} : i \in 0 .. 3}

\* 36.213, 9.1.2: the uplink subframes of a TDD configuration, and how many
\* subframes later each is acknowledged.
TddUplink == << <<2, 3, 4, 7, 8, 9>>, <<2, 3, 7, 8>>, <<2, 7>>, <<2, 3, 4>>, <<2, 3>>, <<2>>,
                <<2, 3, 4, 7, 8>> >>
kPHICH == << <<4, 7, 6, 4, 7, 6>>, <<4, 6, 4, 6>>, <<6, 6>>, <<6, 6, 6>>, <<6, 6>>, <<6>>,
             <<4, 6, 6, 4, 7>> >>

\* How many uplink subframes a subframe acknowledges.
Acknowledged(context) ==
  LET row == context.ul_dl_config + 1
  IN  IF context.duplex_mode = "fdd" THEN 1
      ELSE Cardinality({k \in DOMAIN TddUplink[row] :
             (TddUplink[row][k] + kPHICH[row][k]) % 10 = context.subframe})

\* 36.211, 6.9: PHICH groups of three REGs, and the REGs there are to share.
NeededGroups(desc, geometry) ==
  LET per_unit == geometry.phich_resource
  IN  ((desc.n_prb + per_unit - 1) \div per_unit) * Acknowledged(geometry.context)

UsableRegs(desc) ==
  LET crs(symbol) == symbol = 0 \/ (symbol = 1 /\ desc.n_tx_ports = 4)
  IN  desc.n_prb * (3 * desc.control_symbol_count
                    - Cardinality({l \in 0 .. desc.control_symbol_count - 1 : crs(l)}))

\* The elements delivered are those of the channel, each once: a PDSCH has its
\* blocks from the first data symbol on without the pilots of the cell's ports,
\* a PBCH its 240 elements beside the pilots of four ports, the PCFICH its four
\* groups, and the PDCCH keeps off these and off the pilots, and off as many
\* PHICH groups as the subframe needs to acknowledge the uplink. All lie in the
\* grid given, and a transmit-diversity PDSCH always falls into pairs of one
\* symbol (mmse_equalizer_cpu.cpp:488, :623, :665, :1554, pdcch_module_api.h:161).
LayoutsCarryTheChannels ==
  Answered("layout") =>
    LET desc == answer.in.desc
        layout == answer.out
        n_prb == IF desc.channel_type = "kPdcch" THEN desc.n_prb ELSE 100
        tones(symbol) == {sc \in 0 .. 12 * n_prb - 1 : sc \div 12 \in desc.prbs}
        elements_of(symbols, ports) ==
          UNION {{1200 * symbol + sc : sc \in tones(symbol) \ Pilots(desc.cell_id, ports, symbol)} :
                 symbol \in symbols}
    IN  /\ IsInjective(layout)
        /\ Range(layout) \subseteq 0 .. answer.in.grid.n_symbols * answer.in.grid.n_subcarriers - 1
        /\ is_pdsch_transmit_diversity_descriptor(desc) =>
             /\ Len(layout) % 2 = 0
             /\ pairs_stay_in_one_symbol(build_transmit_diversity_re_pairs(layout),
                                         answer.in.grid.n_subcarriers)
        /\ desc.channel_type = "kPdsch" =>
             Range(layout) = elements_of(desc.start_symbol .. 13, desc.n_tx_ports)
        /\ desc.channel_type = "kPbch" => Range(layout) = elements_of(7 .. 10, 4) /\ Len(layout) = 240
        /\ desc.channel_type = "kPcfich" => Range(layout) = PcfichTones(desc.cell_id, n_prb)
        /\ desc.channel_type = "kPdcch" =>
             /\ Len(layout) % 36 = 0
             /\ Range(layout) \cap PcfichTones(desc.cell_id, n_prb) = {}
             /\ Range(layout) \cap Pilots(desc.cell_id, 2, 0) \cap 0 .. 12 * n_prb - 1 = {}
             /\ build_pdcch_control_region(layout, desc.control_symbol_count, desc.n_prb) =
                  [status |-> "kOk",
                   n_cce |-> (UsableRegs(desc) - 4 - 3 * NeededGroups(desc, answer.in.geometry)) \div 9]

\* 36.213, 7.1.7.1: modulation order and TBS index of an MCS below 29.
Mcs(mcs) ==
  IF mcs <= 9 THEN <<2, mcs>> ELSE IF mcs <= 16 THEN <<4, mcs - 1>> ELSE <<6, mcs - 2>>

\* A localised assignment over the full band that was sent gets the PDSCH it
\* describes, in a form the equaliser accepts; what gets none is an order, a
\* distributed or a reserved assignment (pdcch_pdsch_handoff.h:72, :174).
GrantsReachTheEqualiser ==
  Answered("grant") =>
    LET hit_ == answer.in.hit
        made == answer.out.made
        desc == answer.out.described.descriptor
        sent == CHOOSE s \in search.air : Reports(hit_, s)
        si == sent.rnti = kSiRnti
    IN  IF \/ ~IsAssignment(sent) \/ sent.field.distributed = 1
           \/ sent.field.mcs > (IF si THEN 26 ELSE 28) \/ search.request.n_prb # 100
        THEN made.status # "kOk" /\ made.grant = NoGrant
        ELSE /\ made.status = "kOk" /\ answer.out.described.status = "kOk"
             /\ descriptor_supported(desc)
             /\ desc.prbs = sent.run.start .. sent.run.start + sent.run.length - 1
             /\ desc.cell_id = search.request.cell_id /\ desc.sfn_subframe = search.request.sfn_subframe
             /\ desc.mod_order = (IF si THEN 2 ELSE Mcs(sent.field.mcs)[1])
             /\ made.grant.tbs_index = (IF si THEN sent.field.mcs ELSE Mcs(sent.field.mcs)[2])
             /\ made.grant.tbs_prb_count = (IF si THEN 2 + (sent.field.tpc % 2) ELSE sent.run.length)

\* A DCI that is encoded, rate-matched, scrambled and sent over any channels of
\* one, two or four ports is read from its CCEs with every field it was sent
\* with (README.md:98; pdcch_module_api.h:1416).
DciSurvivesTheChain ==
  Answered("candidate") =>
    LET verdict == answer.out.verdict
        field == answer.in.field
    IN  /\ answer.out.order = answer.in.layout
        /\ verdict.status = "kOk" /\ verdict.matched
        /\ EncodeRiv(verdict.dci.start_prb, verdict.dci.n_prb, answer.in.config.n_prb) = field.riv
        /\ verdict.dci.mcs_tbs_index = field.mcs /\ verdict.dci.harq_process = field.harq
        /\ verdict.dci.redundancy_version = field.rv

=============================================================================
