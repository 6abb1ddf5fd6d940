------------------------------ MODULE DciFormat1A ------------------------------
(***************************************************************************)
(* CRC, RNTI and the fields of DCI format 1A:                              *)
(* src/include/mmse/pdcch_module_api.h, the CRC kernel of                  *)
(* src/src/mmse_cuda_runtime.cu and the MCS table of lte_pdsch_transport.h.*)
(* Words are sequences of bits.  A config is [n_prb, tdd, cif_enabled].    *)
(***************************************************************************)
EXTENDS Integers, Sequences, SequencesExt

kSiRnti == 65535
kCrcBits == 16
SupportedBandwidths == {6, 15, 25, 50, 75, 100}

\* The number written by bits, the first one highest.
Value(bits) == FoldLeft(LAMBDA v, b : 2 * v + b, 0, bits)

\* The width lowest bits of a number, the highest first.
BitsOf(value, width) == [k \in 1 .. width |-> (value \div 2^(width - k)) % 2]

Xor(a, b) == [k \in DOMAIN a |-> (a[k] + b[k]) % 2]

\* One bit through the register of 0x1021; crc is the register, highest bit first.
crc_step(crc, bit) ==
  LET shifted == Append(Tail(crc), 0)
  IN  IF (crc[1] + bit) % 2 = 1 THEN Xor(shifted, BitsOf(4129, kCrcBits)) ELSE shifted

calculate_pdcch_crc16(bits) == FoldLeft(crc_step, BitsOf(0, kCrcBits), bits)

check_pdcch_crc_rnti(decoded, expected_rnti) ==
  LET payload     == SubSeq(decoded, 1, Len(decoded) - kCrcBits)
      transmitted == SubSeq(decoded, Len(decoded) - kCrcBits + 1, Len(decoded))
      calculated  == calculate_pdcch_crc16(payload)
      unmasked    == Value(Xor(transmitted, calculated))
  IN  [transmitted_crc |-> Value(transmitted), calculated_crc |-> Value(calculated),
       unmasked_rnti |-> unmasked, matches_expected_rnti |-> unmasked = expected_rnti]

\* The CRC kernel, after its traceback: 28 payload bits, the CRC behind them.
pdcch_crc_kernel(decoded, expected_rnti) ==
  LET transmitted == SubSeq(decoded, 29, 44)
      calculated  == calculate_pdcch_crc16(SubSeq(decoded, 1, 28))
      unmasked    == Value(Xor(transmitted, calculated))
  IN  [transmitted_crc |-> Value(transmitted), calculated_crc |-> Value(calculated),
       unmasked_rnti |-> unmasked, matches_expected_rnti |-> unmasked = expected_rnti]

bit_width[n \in Nat] == IF n = 0 THEN 0 ELSE 1 + bit_width[n \div 2]

pdcch_dci_riv_bit_count(n_prb) == bit_width[(n_prb * (n_prb + 1)) \div 2 - 1]

kFddPayloadBits == [n_prb \in SupportedBandwidths |->
  CASE n_prb = 6 -> 21 [] n_prb = 15 -> 22 [] n_prb = 25 -> 25
    [] n_prb = 50 -> 27 [] n_prb = 75 -> 27 [] n_prb = 100 -> 28]

\* Zero: not supported.
pdcch_dci_format1a_payload_bit_count(config) ==
  LET widths == (IF config.cif_enabled THEN 3 ELSE 0) + 2 + pdcch_dci_riv_bit_count(config.n_prb)
                  + 5 + (IF config.tdd THEN 4 ELSE 3) + 5 + (IF config.tdd THEN 2 ELSE 0)
  IN  CASE \/ config.n_prb \notin SupportedBandwidths
           \/ (config.tdd \/ config.cif_enabled) /\ config.n_prb # 100 -> 0
        [] config.n_prb = 100 /\ (config.tdd \/ config.cif_enabled) -> widths
        [] OTHER -> kFddPayloadBits[config.n_prb]

NoAllocation == [start |-> 0, length |-> 0]

\* Mutant: wrapped only when the run leaves the band by more than one block.
decode_pdcch_type2_riv_late_wrap(riv, n_prb) ==
  LET length == riv \div n_prb + 1
      start  == riv % n_prb
      run == IF length > n_prb - start + 1
             THEN [start |-> n_prb - start - 1, length |-> n_prb - riv \div n_prb + 1]
             ELSE [start |-> start, length |-> length]
  IN  IF \/ n_prb \notin SupportedBandwidths
         \/ riv >= (n_prb * (n_prb + 1)) \div 2
         \/ run.length = 0 \/ run.start + run.length > n_prb
      THEN [status |-> "kInvalidArgument", run |-> NoAllocation]
      ELSE [status |-> "kOk", run |-> run]

\* A run of blocks; one that would leave the band is the wrapped form of another.
decode_pdcch_type2_riv(riv, n_prb) ==
  LET length == riv \div n_prb + 1
      start  == riv % n_prb
      run == IF length > n_prb - start
             THEN [start |-> n_prb - start - 1, length |-> n_prb - riv \div n_prb + 1]
             ELSE [start |-> start, length |-> length]
  IN  IF \/ n_prb \notin SupportedBandwidths
         \/ riv >= (n_prb * (n_prb + 1)) \div 2
         \/ run.length = 0 \/ run.start + run.length > n_prb
      THEN [status |-> "kInvalidArgument", run |-> NoAllocation]
      ELSE [status |-> "kOk", run |-> run]

kPdschTbsIndexByMcs == << 0, 1, 2, 3, 4, 5, 6, 7, 8, 9, 9, 10, 11, 12, 13,
                          14, 15, 15, 16, 17, 18, 19, 20, 21, 22, 23, 24, 25, 26 >>

pdsch_mcs_parameters(mcs) ==
  IF mcs >= Len(kPdschTbsIndexByMcs) THEN [valid |-> FALSE, modulation_order |-> 0, tbs_index |-> 0]
  ELSE [valid |-> TRUE,
        modulation_order |-> IF mcs < 10 THEN 2 ELSE IF mcs < 17 THEN 4 ELSE 6,
        tbs_index |-> kPdschTbsIndexByMcs[mcs + 1]]

\* Fields a format does not carry keep these values.
DefaultDci ==
  [is_pdcch_order |-> FALSE, preamble_index |-> 0, prach_mask_index |-> 0, rnti |-> 0,
   downlink_bandwidth_prb |-> 0, cif_present |-> FALSE, carrier_indicator |-> 0,
   distributed |-> FALSE, riv |-> 0, mcs_tbs_index |-> 0, tbs_index |-> 0,
   tbs_index_valid |-> FALSE, mcs_valid |-> FALSE, harq_process |-> 0, n_gap_is_two |-> FALSE,
   new_data_indicator |-> 0, new_data_indicator_valid |-> FALSE, redundancy_version |-> 0,
   n_prb_1a |-> 0, n_prb_1a_valid |-> FALSE, transmit_power_control |-> 0,
   transmit_power_control_valid |-> FALSE, downlink_assignment_index |-> 0,
   start_prb |-> 0, n_prb |-> 0]

Parsed(status, dci) == [status |-> status, dci |-> dci]

\* The reader takes the fields one after the other, in this order.
FieldOrder == <<"cif", "format", "distributed", "riv", "mcs", "harq", "ndi", "rv", "tpc", "dai">>

WidthsOf(config) ==
  [cif |-> IF config.cif_enabled THEN 3 ELSE 0, format |-> 1, distributed |-> 1,
   riv |-> pdcch_dci_riv_bit_count(config.n_prb), mcs |-> 5,
   harq |-> IF config.tdd THEN 4 ELSE 3, ndi |-> 1, rv |-> 2, tpc |-> 2,
   dai |-> IF config.tdd THEN 2 ELSE 0]

\* Where the k-th field begins.
OffsetOf(widths, k) == FoldLeft(LAMBDA n, name : n + widths[name], 0, SubSeq(FieldOrder, 1, k - 1))

NumberAt(payload, offset, width) == Value(SubSeq(payload, offset + 1, offset + width))

ZeroFrom(payload, offset) == \A k \in offset + 1 .. Len(payload) : payload[k] = 0

\* A random-access order: localised, with every RIV bit set.
parse_pdcch_order(payload, offset, rnti, config) ==
  IF ~ZeroFrom(payload, offset + 10) THEN Parsed("kInvalidArgument", DefaultDci)
  ELSE Parsed("kOk", [DefaultDci EXCEPT
         !.rnti = rnti, !.downlink_bandwidth_prb = config.n_prb, !.is_pdcch_order = TRUE,
         !.cif_present = config.cif_enabled, !.preamble_index = NumberAt(payload, offset, 6),
         !.prach_mask_index = NumberAt(payload, offset + 6, 4)])

parse_pdcch_assignment(payload, field, rnti, config) ==
  LET si   == rnti = kSiRnti
      mcs  == pdsch_mcs_parameters(field.mcs)
      distributed == field.distributed = 1
      decoded == decode_pdcch_type2_riv(field.riv, config.n_prb)
      common == [DefaultDci EXCEPT
        !.rnti = rnti, !.downlink_bandwidth_prb = config.n_prb, !.cif_present = config.cif_enabled,
        !.carrier_indicator = field.cif, !.distributed = distributed, !.riv = field.riv,
        !.mcs_tbs_index = field.mcs, !.harq_process = field.harq,
        !.redundancy_version = field.rv, !.downlink_assignment_index = field.dai,
        !.start_prb = decoded.run.start, !.n_prb = decoded.run.length]
      system_information == [common EXCEPT
        !.tbs_index = field.mcs, !.tbs_index_valid = field.mcs <= 26,
        !.n_gap_is_two = distributed /\ config.n_prb >= 50 /\ field.ndi = 1,
        !.n_prb_1a = IF field.tpc % 2 = 1 THEN 3 ELSE 2, !.n_prb_1a_valid = TRUE]
      dedicated == [common EXCEPT
        !.tbs_index = mcs.tbs_index, !.tbs_index_valid = mcs.valid, !.mcs_valid = mcs.valid,
        !.new_data_indicator = field.ndi, !.new_data_indicator_valid = TRUE,
        !.transmit_power_control = field.tpc, !.transmit_power_control_valid = TRUE]
  IN  IF si /\ field.tpc >= 2 THEN Parsed("kInvalidArgument", DefaultDci)
      ELSE Parsed(decoded.status, IF si THEN system_information ELSE dedicated)

parse_pdcch_dci_format1a(payload, rnti, config) ==
  LET widths == WidthsOf(config)
      at(k)  == OffsetOf(widths, k)
      field  == [name \in Range(FieldOrder) |->
                   LET k == CHOOSE j \in DOMAIN FieldOrder : FieldOrder[j] = name
                   IN  NumberAt(payload, at(k), widths[name])]
      count  == pdcch_dci_format1a_payload_bit_count(config)
  IN  IF count = 0 \/ Len(payload) # count THEN Parsed("kInvalidArgument", DefaultDci)
      ELSE IF field.format # 1 THEN Parsed("kUnsupportedConfig", DefaultDci)
      ELSE IF field.distributed = 0 /\ field.riv = 2^widths.riv - 1
           THEN parse_pdcch_order(payload, at(5), rnti, config)
      ELSE IF ~ZeroFrom(payload, at(11)) THEN Parsed("kInvalidArgument", DefaultDci)
      ELSE parse_pdcch_assignment(payload, field, rnti, config)

Unmatched(status) == [status |-> status, matched |-> FALSE, dci |-> DefaultDci]

validate_and_parse_pdcch_dci_format1a(decoded, expected_rnti, config) ==
  LET payload_bit_count == pdcch_dci_format1a_payload_bit_count(config)
      parsed == parse_pdcch_dci_format1a(SubSeq(decoded, 1, payload_bit_count), expected_rnti, config)
  IN  IF payload_bit_count = 0 \/ Len(decoded) # payload_bit_count + kCrcBits
      THEN Unmatched("kInvalidArgument")
      ELSE IF ~check_pdcch_crc_rnti(decoded, expected_rnti).matches_expected_rnti
           THEN Unmatched("kOk")
      ELSE IF parsed.status # "kOk" THEN Unmatched(parsed.status)
      ELSE [status |-> "kOk", matched |-> TRUE, dci |-> parsed.dci]

-----------------------------------------------------------------------------
(* A transmitter's side, to compare with. *)

\* The type 2 allocation of 36.213, 7.1.6.3.
EncodeRiv(start, length, n_prb) ==
  IF length - 1 <= n_prb \div 2 THEN n_prb * (length - 1) + start
  ELSE n_prb * (n_prb - length + 1) + (n_prb - 1 - start)

\* A DCI of 36.212, 5.3.3.1.3, padded with zeros.
EncodeDci(field, config) ==
  LET widths == WidthsOf(config)
      bits == FlattenSeq([k \in DOMAIN FieldOrder |->
                BitsOf(field[FieldOrder[k]], widths[FieldOrder[k]])])
      padding == pdcch_dci_format1a_payload_bit_count(config) - Len(bits)
  IN  bits \o [k \in 1 .. padding |-> 0]

\* The remainder of payload * x^16 by x^16 + x^12 + x^5 + 1, by long division.
Remainder(payload) ==
  LET n == Len(payload)
      subtract(w, k) ==
        IF w[k] = 0 THEN w
        ELSE SubSeq([j \in 1 .. n + 16 |-> IF j - k \in {0, 4, 11, 16} THEN 1 - w[j] ELSE w[j]], 1, n + 16)
  IN  SubSeq(FoldLeft(subtract, payload \o [k \in 1 .. 16 |-> 0], [k \in 1 .. n |-> k]), n + 1, n + 16)

\* The parity bits of 36.212, 5.3.3.2, masked with the RNTI.
WithCrc(payload, rnti) == payload \o Xor(Remainder(payload), BitsOf(rnti, 16))

=============================================================================
