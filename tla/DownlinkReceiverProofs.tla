------------------------- MODULE DownlinkReceiverProofs -------------------------
(***************************************************************************)
(* Proofs about DownlinkReceiver and the modules it is made of.            *)
(*                                                                         *)
(* The handoff: resource allocations are read back as they were written,   *)
(* and a grant that is made can be extracted.  Soft demodulation: the      *)
(* shortcuts for QPSK, 16QAM and 64QAM give the max-log LLRs of the        *)
(* definition.  Descrambling: the sequence in blocks is the sequence       *)
(* sample by sample, which is that of the standard; the soft bits of every *)
(* channel are those of the definition, and a plan kept from call to call  *)
(* is never seen in an answer.  The search: the counters a UE-specific     *)
(* search reports account for every candidate, whatever is on the air and  *)
(* whatever the decoder makes of it.  Equalisation: the symbols come back  *)
(* and the ratios are the true ones, for transmit diversity on any number  *)
(* of antennas and for two layers.  The channel estimate: exact for every  *)
(* channel that is affine in time and frequency, and the residual is the   *)
(* power of the noise.  DCI: the register of the checksum is the remainder *)
(* of a long division, a word shows the RNTI it was masked with, and every *)
(* field is read back.                                                     *)
(***************************************************************************)
EXTENDS DownlinkReceiver, Induction, SequenceTheorems, FiniteSetTheorems

-----------------------------------------------------------------------------
(* The handoff: DciFormat1A and PdschGrant. *)

\* Writing a run of blocks: the quotient and the rest of its number.
LEMMA QuotientAndRest ==
  ASSUME NEW n \in {6, 15, 25, 50, 75, 100}, NEW q \in Nat, NEW r \in 0 .. n - 1
  PROVE  (n * q + r) \div n = q /\ (n * q + r) % n = r
<1>1. CASE n = 6   BY <1>1
<1>2. CASE n = 15  BY <1>2
<1>3. CASE n = 25  BY <1>3
<1>4. CASE n = 50  BY <1>4
<1>5. CASE n = 75  BY <1>5
<1>6. CASE n = 100 BY <1>6
<1> QED
  BY <1>1, <1>2, <1>3, <1>4, <1>5, <1>6

\* What a number that is in range is read as: the run itself, or the wrapped one.
LEMMA RunOfNumber ==
  ASSUME NEW n \in SupportedBandwidths, NEW riv \in Nat, NEW q \in Nat, NEW r \in 0 .. n - 1,
         riv \div n = q, riv % n = r, riv < (n * (n + 1)) \div 2
  PROVE  /\ q + 1 + r <= n =>
              decode_pdcch_type2_riv(riv, n) =
                [status |-> "kOk", run |-> [start |-> r, length |-> q + 1]]
         /\ q + 1 + r > n /\ q <= n /\ 2 * n - r - q <= n =>
              decode_pdcch_type2_riv(riv, n) =
                [status |-> "kOk", run |-> [start |-> n - r - 1, length |-> n - q + 1]]
<1>1. n \in Int /\ r \in Int /\ ~(riv >= (n * (n + 1)) \div 2)
  BY DEF SupportedBandwidths
<1>2. ASSUME q + 1 + r <= n
      PROVE  decode_pdcch_type2_riv(riv, n) =
               [status |-> "kOk", run |-> [start |-> r, length |-> q + 1]]
  <2>1. ~(q + 1 > n - r) /\ q + 1 # 0 /\ ~(r + (q + 1) > n)
    BY <1>1, <1>2
  <2> QED
    BY <1>1, <2>1 DEF decode_pdcch_type2_riv
<1>3. ASSUME q + 1 + r > n, q <= n, 2 * n - r - q <= n
      PROVE  decode_pdcch_type2_riv(riv, n) =
               [status |-> "kOk", run |-> [start |-> n - r - 1, length |-> n - q + 1]]
  <2>1. q + 1 > n - r /\ n - q + 1 # 0 /\ ~((n - r - 1) + (n - q + 1) > n)
    BY <1>1, <1>3
  <2> QED
    BY <1>1, <2>1 DEF decode_pdcch_type2_riv
<1> QED
  BY <1>2, <1>3

\* The numbers of both halves lie below n * (n + 1) / 2.
LEMMA NumbersInRange ==
  ASSUME NEW n \in {6, 15, 25, 50, 75, 100}, NEW start \in Nat, NEW length \in Nat,
         length >= 1, start + length <= n
  PROVE  /\ length - 1 <= n \div 2 => n * (length - 1) + start < (n * (n + 1)) \div 2
         /\ length - 1 > n \div 2 =>
              n * (n - length + 1) + (n - 1 - start) < (n * (n + 1)) \div 2
<1>1. CASE n = 6   BY <1>1
<1>2. CASE n = 15  BY <1>2
<1>3. CASE n = 25  BY <1>3
<1>4. CASE n = 50  BY <1>4
<1>5. CASE n = 75  BY <1>5
<1>6. CASE n = 100 BY <1>6
<1> QED
  BY <1>1, <1>2, <1>3, <1>4, <1>5, <1>6

\* Every run of blocks of every bandwidth is read back, wrapped or not
\* (pdcch_module_api.h:1205).
THEOREM AllocationsAreReadBack ==
  ASSUME NEW n \in SupportedBandwidths, NEW start \in Nat, NEW length \in Nat,
         length >= 1, start + length <= n
  PROVE  decode_pdcch_type2_riv(EncodeRiv(start, length, n), n) =
           [status |-> "kOk", run |-> [start |-> start, length |-> length]]
<1>1. /\ n \in {6, 15, 25, 50, 75, 100} /\ n \in Nat /\ n \div 2 \in Nat /\ n <= 2 * (n \div 2) + 1
      /\ start \in 0 .. n - 1 /\ n - 1 - start \in 0 .. n - 1
      /\ length - 1 \in Nat /\ n - length + 1 \in Nat
  BY DEF SupportedBandwidths
<1>2. CASE length - 1 <= n \div 2
  <2> DEFINE q == length - 1
             riv == n * q + start
  <2>1. EncodeRiv(start, length, n) = riv
    BY <1>2 DEF EncodeRiv
  <2>2. q \in Nat
    BY <1>1
  <2>3. riv < (n * (n + 1)) \div 2 /\ riv \in Nat
    BY <1>1, <1>2, NumbersInRange
  <2>4. q + 1 + start <= n /\ q + 1 = length /\ start \in 0 .. n - 1
    BY <1>1
  <2> HIDE DEF q
  <2>5. riv \div n = q /\ riv % n = start
    BY <1>1, <2>2, QuotientAndRest
  <2> HIDE DEF riv
  <2>6. decode_pdcch_type2_riv(riv, n) =
          [status |-> "kOk", run |-> [start |-> start, length |-> q + 1]]
    BY <2>2, <2>3, <2>4, <2>5, RunOfNumber
  <2> QED
    BY <2>1, <2>4, <2>6
<1>3. CASE length - 1 > n \div 2
  <2> DEFINE riv == n * (n - length + 1) + (n - 1 - start)
             q == n - length + 1
             r == n - 1 - start
  <2>1. EncodeRiv(start, length, n) = riv
    BY <1>1, <1>3 DEF EncodeRiv
  <2>2. riv \div n = q /\ riv % n = r
    BY <1>1, QuotientAndRest
  <2>3. riv < (n * (n + 1)) \div 2 /\ riv \in Nat
    BY <1>1, <1>3, NumbersInRange
  <2>4. /\ q \in Nat /\ r \in 0 .. n - 1
        /\ q + 1 + r > n /\ q <= n /\ 2 * n - r - q <= n
        /\ n - r - 1 = start /\ n - q + 1 = length
    BY <1>1, <1>3
  <2> HIDE DEF riv, q, r
  <2>5. decode_pdcch_type2_riv(riv, n) =
          [status |-> "kOk", run |-> [start |-> n - r - 1, length |-> n - q + 1]]
    BY <2>2, <2>3, <2>4, RunOfNumber
  <2> QED
    BY <2>1, <2>4, <2>5
<1> QED
  BY <1>1, <1>2, <1>3

-----------------------------------------------------------------------------
\* An MCS that counts has one of the three modulations.
LEMMA ModulationsOfMcs ==
  ASSUME NEW mcs, pdsch_mcs_parameters(mcs).valid
  PROVE  pdsch_mcs_parameters(mcs).modulation_order \in {2, 4, 6}
BY DEF pdsch_mcs_parameters

\* A grant that is made can be turned into a descriptor for one or two
\* antennas, and the equaliser supports it (pdcch_pdsch_handoff.h:72, :174,
\* mmse_equalizer_cpu.cpp:165).
THEOREM GrantsAreExtracted ==
  ASSUME NEW found, NEW config, NEW n_rx_ant \in {1, 2},
         found.cell_id \in Nat, found.dci.start_prb \in Nat, found.dci.n_prb \in Nat,
         make_pdsch_grant_v1(found, config).status = "kOk"
  PROVE  LET grant == make_pdsch_grant_v1(found, config).grant
             described == make_pdsch_extract_descriptor_v1(grant, n_rx_ant)
         IN  described.status = "kOk" /\ descriptor_supported(described.descriptor)
<1> DEFINE grant == GrantOf(found, config)
           desc == DescriptorOf(grant, n_rx_ant)
           transport == TransportParameters(found.dci)
           first == found.dci.start_prb
           last == found.dci.start_prb + found.dci.n_prb - 1
<1>1. /\ WellFormedHit(found) /\ SupportedByHandoff(found.dci, config) /\ transport.status = "kOk"
      /\ make_pdsch_grant_v1(found, config).grant = grant
  BY DEF make_pdsch_grant_v1
<1>2. transport.modulation_order \in {2, 4, 6}
  BY <1>1, ModulationsOfMcs DEF TransportParameters
<1>3. /\ found.dci.downlink_bandwidth_prb = 100 /\ first + found.dci.n_prb <= 100
      /\ found.dci.n_prb # 0 /\ found.cell_id < 504
  BY <1>1 DEF WellFormedHit, SupportedByHandoff, kLteNumPrb20MHz, kLteNumCellIds
<1>4. /\ config.start_symbol \in 1 .. 3 /\ config.n_layers = 1 /\ config.codeword = 0
      /\ config.codeword_count = 1 /\ config.pmi = -1
      /\ OnePortOrTwo(config.n_tx_ports, config.transmission_mode)
  BY <1>1 DEF SupportedByHandoff, kLteMaxControlSymbolsNormalCp
<1>5. /\ grant.schema_version = 1 /\ grant.physical_cell_id = found.cell_id
      /\ grant.downlink_bandwidth_prb = 100 /\ grant.start_prb = first
      /\ grant.n_prb = found.dci.n_prb /\ grant.prbs = first .. last
      /\ grant.start_symbol = config.start_symbol
      /\ grant.modulation_order = transport.modulation_order
      /\ grant.n_tx_ports = config.n_tx_ports /\ grant.n_layers = 1
      /\ grant.transmission_mode = config.transmission_mode /\ grant.pmi = -1
      /\ grant.codeword = 0 /\ grant.codeword_count = 1
  BY <1>3, <1>4 DEF GrantOf, kPdschGrantSchemaVersionV1
<1> HIDE DEF grant, transport
<1>6. UsableGrant(grant, n_rx_ant)
  <2>1. \A prb \in 0 .. 99 : prb \in first .. last <=> first <= prb /\ prb < first + found.dci.n_prb
    OBVIOUS
  <2>2. \A prb \in 0 .. 99 : prb \in grant.prbs
                              <=> grant.start_prb <= prb /\ prb < grant.start_prb + grant.n_prb
    <3>1. grant.prbs = first .. last /\ grant.start_prb = first /\ grant.n_prb = found.dci.n_prb
      BY <1>5
    <3> HIDE DEF first, last
    <3> QED
      BY <2>1, <3>1
  <2> QED
    BY <1>2, <1>3, <1>4, <1>5, <2>2
    DEF UsableGrant, kPdschGrantSchemaVersionV1, kLteNumCellIds, kMmseV1MaxNumRxAntennas,
        kLteNumPrb20MHz, kLteMaxControlSymbolsNormalCp
<1>7. make_pdsch_extract_descriptor_v1(grant, n_rx_ant) = [status |-> "kOk", descriptor |-> desc]
  BY <1>6 DEF make_pdsch_extract_descriptor_v1
<1>8. /\ desc.cell_id = found.cell_id /\ desc.n_rx_ant = n_rx_ant /\ desc.n_layers = 1
      /\ desc.n_tx_ports = config.n_tx_ports /\ desc.tx_mode = config.transmission_mode
      /\ desc.pmi = -1 /\ desc.mod_order = transport.modulation_order
      /\ desc.n_prb = found.dci.n_prb /\ desc.prbs = first .. last
      /\ desc.channel_type = "kPdsch"
      /\ desc.start_symbol = config.start_symbol /\ desc.control_symbol_count = config.start_symbol
  BY <1>5 DEF DescriptorOf
<1> HIDE DEF desc
<1>9. Cardinality(desc.prbs) = desc.n_prb
  <2>1. first \in Int /\ last \in Int /\ first <= last /\ last - first + 1 = found.dci.n_prb
    BY <1>3
  <2> HIDE DEF first, last
  <2>2. Cardinality(first .. last) = last - first + 1
    BY <2>1, FS_Interval
  <2> QED
    BY <1>8, <2>1, <2>2
<1>10. desc.n_tx_ports \in {1, 2} /\ desc.tx_mode = desc.n_tx_ports
  BY <1>4, <1>8 DEF OnePortOrTwo
<1>11. PdschSupported(desc)
  BY <1>4, <1>8, <1>10 DEF PdschSupported, kLteNumSymbolsNormalCp, kLteMaxControlSymbolsNormalCp
<1>12. descriptor_supported(desc)
  <2>1. desc.n_prb \in 1 .. kLteNumPrb20MHz
    <3> DEFINE n == found.dci.n_prb
    <3>1. first \in Nat /\ n \in Nat /\ n # 0 /\ first + n <= 100
      BY <1>3
    <3> HIDE DEF first, n
    <3>2. n \in 1 .. 100
      BY <3>1
    <3>3. desc.n_prb = n
      BY <1>8 DEF n
    <3> QED
      BY <3>2, <3>3 DEF kLteNumPrb20MHz
  <2>2. /\ desc.n_tx_ports \in 1 .. kMmseV1MaxNumCrsTxPorts
        /\ desc.n_rx_ant \in 1 .. kMmseV1MaxNumRxAntennas
        /\ desc.n_layers <= desc.n_tx_ports /\ desc.n_layers <= desc.n_rx_ant
    BY <1>8, <1>10 DEF kMmseV1MaxNumRxAntennas, kMmseV1MaxNumCrsTxPorts
  <2>3. desc.mod_order \in {2, 4, 6, 8}
    BY <1>2, <1>8
  <2>4. /\ desc.cell_id < kLteNumCellIds /\ desc.n_layers \in {1, 2} /\ desc.pmi = -1
    BY <1>3, <1>8 DEF kLteNumCellIds
  <2> QED
    BY <1>8, <1>9, <1>11, <2>1, <2>2, <2>3, <2>4 DEF descriptor_supported
<1> QED
  BY <1>1, <1>7, <1>12

-----------------------------------------------------------------------------
(* Soft demodulation: SoftDemod. *)

\* The distances to the points of an axis whose bit has a value.
Distances(x, gamma, axis_bits, bit, value) ==
  { sq_dist(x, axis_level_from_gray(gray, axis_bits), gamma) :
      gray \in { g \in 0 .. two[axis_bits + 1] - 1 : gray_bit(g, axis_bits, bit) = value } }

-----------------------------------------------------------------------------
\* The smallest element of a set is its minimum.
LEMMA MinIsLeast ==
  ASSUME NEW S \in SUBSET Int, NEW m \in S, \A y \in S : m <= y
  PROVE  Min(S) = m
<1>1. \E n \in S : \A y \in S : n <= y
  OBVIOUS
<1>2. Min(S) \in S /\ \A y \in S : Min(S) <= y
  BY <1>1 DEF Min
<1>3. Min(S) \in Int /\ m \in Int /\ Min(S) <= m /\ m <= Min(S)
  BY <1>2
<1> QED
  BY <1>3

\* A distance is an integer, and a nearer level has the smaller one.
LEMMA NearerLevel ==
  ASSUME NEW x \in Int, NEW gamma \in Nat, NEW l \in Int, NEW m \in Int,
         (x - l) * (x - l) <= (x - m) * (x - m)
  PROVE  /\ sq_dist(x, l, gamma) \in Int /\ sq_dist(x, m, gamma) \in Int
         /\ sq_dist(x, l, gamma) <= sq_dist(x, m, gamma)
<1> DEFINE p == (x - l) * (x - l)
           q == (x - m) * (x - m)
<1>1. p \in Int /\ q \in Int /\ q - p \in Nat
  OBVIOUS
<1>2. sq_dist(x, l, gamma) = gamma * p /\ sq_dist(x, m, gamma) = gamma * q
  BY DEF sq_dist
<1> HIDE DEF p, q
<1>3. gamma * (q - p) \in Nat
  BY <1>1
<1>4. gamma * q - gamma * p = gamma * (q - p)
  BY <1>1
<1> QED
  BY <1>1, <1>2, <1>3, <1>4

\* The other side of an axis is its mirror image.
LEMMA Mirrored ==
  ASSUME NEW x \in Int, NEW gamma \in Nat, NEW l \in Int
  PROVE  sq_dist(-x, -l, gamma) = sq_dist(x, l, gamma)
<1>1. -x - (-l) = -(x - l)
  OBVIOUS
<1>2. (-(x - l)) * (-(x - l)) = (x - l) * (x - l)
  OBVIOUS
<1> QED
  BY <1>1, <1>2 DEF sq_dist

-----------------------------------------------------------------------------
\* The points of an axis of 16QAM and of 64QAM, bit by bit (lte_soft_demod.h:51-73).
LEMMA Powers == two[2 + 1] = 4 /\ two[3 + 1] = 8 /\ two[2] = 2 /\ two[1] = 1 /\ two[3] = 4
BY DEF two

LEMMA Levels16 ==
  /\ axis_level_from_gray(0, 2) = 3 /\ axis_level_from_gray(1, 2) = 1
  /\ axis_level_from_gray(2, 2) = -3 /\ axis_level_from_gray(3, 2) = -1
BY Powers DEF axis_level_from_gray, gray_to_binary

LEMMA Bits16 ==
  /\ { g \in 0 .. 3 : gray_bit(g, 2, 0) = 0 } = {0, 1}
  /\ { g \in 0 .. 3 : gray_bit(g, 2, 0) = 1 } = {2, 3}
  /\ { g \in 0 .. 3 : gray_bit(g, 2, 1) = 0 } = {0, 2}
  /\ { g \in 0 .. 3 : gray_bit(g, 2, 1) = 1 } = {1, 3}
<1>1. \A g \in 0 .. 3 : gray_bit(g, 2, 0) = (g \div 2) % 2 /\ gray_bit(g, 2, 1) = g % 2
  BY Powers DEF gray_bit
<1> HIDE DEF gray_bit
<1>2. 0 .. 3 = {0, 1, 2, 3}
  OBVIOUS
<1> QED
  BY <1>1, <1>2

LEMMA Levels64 ==
  /\ axis_level_from_gray(0, 3) = 7 /\ axis_level_from_gray(1, 3) = 5
  /\ axis_level_from_gray(2, 3) = 1 /\ axis_level_from_gray(3, 3) = 3
  /\ axis_level_from_gray(4, 3) = -7 /\ axis_level_from_gray(5, 3) = -5
  /\ axis_level_from_gray(6, 3) = -1 /\ axis_level_from_gray(7, 3) = -3
BY Powers DEF axis_level_from_gray, gray_to_binary

LEMMA Bits64 ==
  /\ { g \in 0 .. 7 : gray_bit(g, 3, 0) = 0 } = {0, 1, 2, 3}
  /\ { g \in 0 .. 7 : gray_bit(g, 3, 0) = 1 } = {4, 5, 6, 7}
  /\ { g \in 0 .. 7 : gray_bit(g, 3, 1) = 0 } = {0, 1, 4, 5}
  /\ { g \in 0 .. 7 : gray_bit(g, 3, 1) = 1 } = {2, 3, 6, 7}
  /\ { g \in 0 .. 7 : gray_bit(g, 3, 2) = 0 } = {0, 2, 4, 6}
  /\ { g \in 0 .. 7 : gray_bit(g, 3, 2) = 1 } = {1, 3, 5, 7}
<1>1. \A g \in 0 .. 7 : /\ gray_bit(g, 3, 0) = (g \div 4) % 2
                        /\ gray_bit(g, 3, 1) = (g \div 2) % 2
                        /\ gray_bit(g, 3, 2) = g % 2
  BY Powers DEF gray_bit
<1>2. 0 .. 7 = {0, 1, 2, 3, 4, 5, 6, 7}
  OBVIOUS
<1> QED
  BY <1>1, <1>2

\* The definition, by the sets of distances.
LEMMA MaxLogByDistances ==
  ASSUME NEW x \in Int, NEW gamma \in Nat, NEW axis_bits \in Nat
  PROVE  max_log_axis_llrs(x, gamma, axis_bits) =
           [b \in 1 .. axis_bits |-> Min(Distances(x, gamma, axis_bits, b - 1, 0))
                                     - Min(Distances(x, gamma, axis_bits, b - 1, 1))]
BY DEF max_log_axis_llrs, Distances

LEMMA Distances16 ==
  ASSUME NEW x \in Int, NEW gamma \in Nat
  PROVE  LET d(l) == sq_dist(x, l, gamma)
         IN  /\ Distances(x, gamma, 2, 0, 0) = {d(3), d(1)}
             /\ Distances(x, gamma, 2, 0, 1) = {d(-3), d(-1)}
             /\ Distances(x, gamma, 2, 1, 0) = {d(3), d(-3)}
             /\ Distances(x, gamma, 2, 1, 1) = {d(1), d(-1)}
<1>1. two[2 + 1] - 1 = 3
  BY Powers
<1> QED
  BY <1>1, Levels16, Bits16 DEF Distances

LEMMA Distances64 ==
  ASSUME NEW x \in Int, NEW gamma \in Nat
  PROVE  LET d(l) == sq_dist(x, l, gamma)
         IN  /\ Distances(x, gamma, 3, 0, 0) = {d(7), d(5), d(1), d(3)}
             /\ Distances(x, gamma, 3, 0, 1) = {d(-7), d(-5), d(-1), d(-3)}
             /\ Distances(x, gamma, 3, 1, 0) = {d(7), d(5), d(-7), d(-5)}
             /\ Distances(x, gamma, 3, 1, 1) = {d(1), d(3), d(-1), d(-3)}
             /\ Distances(x, gamma, 3, 2, 0) = {d(7), d(1), d(-7), d(-1)}
             /\ Distances(x, gamma, 3, 2, 1) = {d(5), d(3), d(-5), d(-3)}
<1>1. two[3 + 1] - 1 = 7
  BY Powers
<1> QED
  BY <1>1, Levels64, Bits64 DEF Distances

-----------------------------------------------------------------------------
\* On the positive side of an axis every level is nearer than its mirror image.
LEMMA OwnSideIsNearer ==
  ASSUME NEW a \in Nat, NEW gamma \in Nat
  PROVE  LET d(l) == sq_dist(a, l, gamma)
         IN  /\ \A l \in {1, 3, 5, 7, -1, -3, -5, -7} : d(l) \in Int
             /\ d(1) <= d(-1) /\ d(3) <= d(-3) /\ d(5) <= d(-5) /\ d(7) <= d(-7)
             /\ d(-1) <= d(-3) /\ d(-1) <= d(-5) /\ d(-1) <= d(-7)
<1> DEFINE sq(l) == (a - l) * (a - l)
<1>1. /\ sq(1) <= sq(-1) /\ sq(3) <= sq(-3) /\ sq(5) <= sq(-5) /\ sq(7) <= sq(-7)
      /\ sq(-1) <= sq(-3) /\ sq(-1) <= sq(-5) /\ sq(-1) <= sq(-7)
  <2>1. /\ sq(1) = a * a - 2 * a + 1 /\ sq(-1) = a * a + 2 * a + 1
        /\ sq(3) = a * a - 6 * a + 9 /\ sq(-3) = a * a + 6 * a + 9
        /\ sq(5) = a * a - 10 * a + 25 /\ sq(-5) = a * a + 10 * a + 25
        /\ sq(7) = a * a - 14 * a + 49 /\ sq(-7) = a * a + 14 * a + 49
    OBVIOUS
  <2>2. a * a \in Int
    OBVIOUS
  <2> HIDE DEF sq
  <2> QED
    BY <2>1, <2>2
<1>2. \A l \in Int, m \in Int : sq(l) <= sq(m) =>
        /\ sq_dist(a, l, gamma) \in Int /\ sq_dist(a, m, gamma) \in Int
        /\ sq_dist(a, l, gamma) <= sq_dist(a, m, gamma)
  <2> SUFFICES ASSUME NEW l \in Int, NEW m \in Int, (a - l) * (a - l) <= (a - m) * (a - m)
               PROVE  /\ sq_dist(a, l, gamma) \in Int /\ sq_dist(a, m, gamma) \in Int
                      /\ sq_dist(a, l, gamma) <= sq_dist(a, m, gamma)
    OBVIOUS
  <2>1. a \in Int
    OBVIOUS
  <2> QED
    BY <2>1, NearerLevel
<1> HIDE DEF sq
<1> QED
  BY <1>1, <1>2

LEMMA MinOfTwo ==
  ASSUME NEW p \in Int, NEW q \in Int
  PROVE  Min({p, q}) = min2(p, q) /\ Min({q, p}) = min2(p, q)
<1> DEFINE m == min2(p, q)
<1>1. m \in {p, q} /\ \A y \in {p, q} : m <= y
  BY DEF min2
<1>2. {q, p} = {p, q} /\ {p, q} \in SUBSET Int
  OBVIOUS
<1> HIDE DEF m
<1>3. Min({p, q}) = m
  BY <1>1, <1>2, MinIsLeast
<1> QED
  BY <1>2, <1>3 DEF m

\* Of two levels and two that are farther the first two count.
LEMMA MinOfFour ==
  ASSUME NEW p \in Int, NEW q \in Int, NEW r \in Int, NEW s \in Int, p <= r, q <= s,
         NEW S \in SUBSET Int, S = {p, q, r, s}
  PROVE  Min(S) = min2(p, q)
<1> DEFINE m == min2(p, q)
<1>1. m \in S /\ \A y \in S : m <= y
  BY DEF min2
<1> HIDE DEF m
<1>2. Min(S) = m
  BY <1>1, MinIsLeast
<1> QED
  BY <1>2 DEF m

-----------------------------------------------------------------------------
\* 16QAM: the shortcut is the definition, for every symbol and ratio
\* (lte_soft_demod.h:87 against :497).
THEOREM SixteenQamIsMaxLog ==
  ASSUME NEW x \in Int, NEW gamma \in Nat
  PROVE  build_axis_llrs_16qam(x, gamma) = max_log_axis_llrs(x, gamma, 2)
<1> DEFINE M(b, v) == Min(Distances(x, gamma, 2, b, v))
           d(l) == sq_dist(Abs(x), l, gamma)
<1>1. max_log_axis_llrs(x, gamma, 2) = << M(0, 0) - M(0, 1), M(1, 0) - M(1, 1) >>
  <2>1. max_log_axis_llrs(x, gamma, 2) = [b \in 1 .. 2 |-> M(b - 1, 0) - M(b - 1, 1)]
    BY MaxLogByDistances
  <2> HIDE DEF M
  <2> QED
    BY <2>1
<1>2. Abs(x) \in Nat
  BY DEF Abs
<1>3. /\ \A l \in {1, 3, -1, -3} : d(l) \in Int
      /\ d(1) <= d(-1) /\ d(3) <= d(-3) /\ d(-1) <= d(-3)
  BY <1>2, OwnSideIsNearer
<1>4. /\ Min({d(3), d(1)}) = min2(d(1), d(3)) /\ Min({d(1), d(3)}) = min2(d(1), d(3))
      /\ Min({d(-3), d(-1)}) = d(-1) /\ Min({d(-1), d(-3)}) = d(-1)
      /\ Min({d(3), d(-3)}) = d(3) /\ Min({d(-3), d(3)}) = d(3)
      /\ Min({d(1), d(-1)}) = d(1) /\ Min({d(-1), d(1)}) = d(1)
  <2> HIDE DEF d
  <2> QED
    BY <1>3, MinOfTwo DEF min2
<1>5. CASE x >= 0
  <2>1. Abs(x) = x
    BY <1>5 DEF Abs
  <2>2. /\ M(0, 0) = min2(d(1), d(3)) /\ M(0, 1) = d(-1) /\ M(1, 0) = d(3) /\ M(1, 1) = d(1)
    BY <1>4, <2>1, Distances16
  <2> HIDE DEF M
  <2> QED
    BY <1>1, <1>5, <2>2 DEF build_axis_llrs_16qam, SignLlr
<1>6. CASE x < 0
  <2>1. Abs(x) = -x
    BY <1>6 DEF Abs
  <2>2. /\ sq_dist(x, 1, gamma) = d(-1) /\ sq_dist(x, -1, gamma) = d(1)
        /\ sq_dist(x, 3, gamma) = d(-3) /\ sq_dist(x, -3, gamma) = d(3)
    BY <2>1, Mirrored
  <2>3. /\ M(0, 0) = d(-1) /\ M(0, 1) = min2(d(1), d(3)) /\ M(1, 0) = d(3) /\ M(1, 1) = d(1)
    BY <1>4, <2>2, Distances16
  <2> HIDE DEF M
  <2> QED
    BY <1>1, <1>6, <2>3 DEF build_axis_llrs_16qam, SignLlr
<1> QED
  BY <1>5, <1>6

\* 64QAM likewise (lte_soft_demod.h:99).
THEOREM SixtyFourQamIsMaxLog ==
  ASSUME NEW x \in Int, NEW gamma \in Nat
  PROVE  build_axis_llrs_64qam(x, gamma) = max_log_axis_llrs(x, gamma, 3)
<1> DEFINE M(b, v) == Min(Distances(x, gamma, 3, b, v))
           d(l) == sq_dist(Abs(x), l, gamma)
           own == min2(min2(d(1), d(3)), min2(d(5), d(7)))
<1>1. max_log_axis_llrs(x, gamma, 3) =
        << M(0, 0) - M(0, 1), M(1, 0) - M(1, 1), M(2, 0) - M(2, 1) >>
  <2>1. max_log_axis_llrs(x, gamma, 3) = [b \in 1 .. 3 |-> M(b - 1, 0) - M(b - 1, 1)]
    BY MaxLogByDistances
  <2> HIDE DEF M
  <2> QED
    BY <2>1
<1>2. Abs(x) \in Nat
  BY DEF Abs
<1>3. /\ \A l \in {1, 3, 5, 7, -1, -3, -5, -7} : d(l) \in Int
      /\ d(1) <= d(-1) /\ d(3) <= d(-3) /\ d(5) <= d(-5) /\ d(7) <= d(-7)
      /\ d(-1) <= d(-3) /\ d(-1) <= d(-5) /\ d(-1) <= d(-7)
  BY <1>2, OwnSideIsNearer
\* The six minima, however the four distances are listed.
<1>4. /\ \A S \in SUBSET Int : S = {d(1), d(3), d(5), d(7)} => Min(S) = own
      /\ \A S \in SUBSET Int : S = {d(-1), d(-3), d(-5), d(-7)} => Min(S) = d(-1)
      /\ \A S \in SUBSET Int : S = {d(5), d(7), d(-5), d(-7)} => Min(S) = min2(d(5), d(7))
      /\ \A S \in SUBSET Int : S = {d(1), d(3), d(-1), d(-3)} => Min(S) = min2(d(1), d(3))
      /\ \A S \in SUBSET Int : S = {d(1), d(7), d(-1), d(-7)} => Min(S) = min2(d(1), d(7))
      /\ \A S \in SUBSET Int : S = {d(3), d(5), d(-3), d(-5)} => Min(S) = min2(d(3), d(5))
  <2>1. own \in {d(1), d(3), d(5), d(7)} /\ \A y \in {d(1), d(3), d(5), d(7)} : own <= y
    <3> HIDE DEF d
    <3> QED
      BY <1>3 DEF min2
  <2> HIDE DEF d, own
  <2>2. \A S \in SUBSET Int : S = {d(1), d(3), d(5), d(7)} => Min(S) = own
    BY <2>1, MinIsLeast
  <2>3. \A S \in SUBSET Int : S = {d(-1), d(-3), d(-5), d(-7)} => Min(S) = d(-1)
    <3>1. \A y \in {d(-1), d(-3), d(-5), d(-7)} : d(-1) <= y
      BY <1>3
    <3>2. d(-1) \in {d(-1), d(-3), d(-5), d(-7)}
      OBVIOUS
    <3> QED
      BY <3>1, <3>2, MinIsLeast
  <2> QED
    BY <1>3, <2>2, <2>3, MinOfFour
<1>5. /\ {d(1), d(3), d(5), d(7)} \in SUBSET Int
      /\ {d(-1), d(-3), d(-5), d(-7)} \in SUBSET Int
  <2> HIDE DEF d
  <2> QED
    BY <1>3
<1>6. CASE x >= 0
  <2>1. Abs(x) = x
    BY <1>6 DEF Abs
  <2>2. /\ Distances(x, gamma, 3, 0, 0) = {d(1), d(3), d(5), d(7)}
        /\ Distances(x, gamma, 3, 0, 1) = {d(-1), d(-3), d(-5), d(-7)}
        /\ Distances(x, gamma, 3, 1, 0) = {d(5), d(7), d(-5), d(-7)}
        /\ Distances(x, gamma, 3, 1, 1) = {d(1), d(3), d(-1), d(-3)}
        /\ Distances(x, gamma, 3, 2, 0) = {d(1), d(7), d(-1), d(-7)}
        /\ Distances(x, gamma, 3, 2, 1) = {d(3), d(5), d(-3), d(-5)}
    BY <2>1, Distances64
  <2> HIDE DEF d
  <2>3. /\ M(0, 0) = own /\ M(0, 1) = d(-1)
        /\ M(1, 0) = min2(d(5), d(7)) /\ M(1, 1) = min2(d(1), d(3))
        /\ M(2, 0) = min2(d(1), d(7)) /\ M(2, 1) = min2(d(3), d(5))
    BY <1>3, <1>4, <1>5, <2>2
  <2> HIDE DEF M
  <2> QED
    BY <1>1, <1>6, <2>3 DEF build_axis_llrs_64qam, SignLlr, d
<1>7. CASE x < 0
  <2>1. Abs(x) = -x
    BY <1>7 DEF Abs
  <2>2. \A l \in {1, 3, 5, 7, -1, -3, -5, -7} : sq_dist(x, l, gamma) = d(-l)
    BY <2>1, Mirrored
  <2>3. /\ Distances(x, gamma, 3, 0, 0) = {d(-1), d(-3), d(-5), d(-7)}
        /\ Distances(x, gamma, 3, 0, 1) = {d(1), d(3), d(5), d(7)}
        /\ Distances(x, gamma, 3, 1, 0) = {d(5), d(7), d(-5), d(-7)}
        /\ Distances(x, gamma, 3, 1, 1) = {d(1), d(3), d(-1), d(-3)}
        /\ Distances(x, gamma, 3, 2, 0) = {d(1), d(7), d(-1), d(-7)}
        /\ Distances(x, gamma, 3, 2, 1) = {d(3), d(5), d(-3), d(-5)}
    BY <2>2, Distances64
  <2> HIDE DEF d
  <2>4. /\ M(0, 0) = d(-1) /\ M(0, 1) = own
        /\ M(1, 0) = min2(d(5), d(7)) /\ M(1, 1) = min2(d(1), d(3))
        /\ M(2, 0) = min2(d(1), d(7)) /\ M(2, 1) = min2(d(3), d(5))
    BY <1>3, <1>4, <1>5, <2>3
  <2> HIDE DEF M
  <2> QED
    BY <1>1, <1>7, <2>4 DEF build_axis_llrs_64qam, SignLlr, d
<1> QED
  BY <1>6, <1>7

\* QPSK: one level on each side of the axis.
LEMMA QpskIsMaxLog ==
  ASSUME NEW x \in Int, NEW gamma \in Nat
  PROVE  << -4 * gamma * x >> = max_log_axis_llrs(x, gamma, 1)
<1> DEFINE M(b, v) == Min(Distances(x, gamma, 1, b, v))
<1>1. max_log_axis_llrs(x, gamma, 1) = << M(0, 0) - M(0, 1) >>
  <2>1. max_log_axis_llrs(x, gamma, 1) = [b \in 1 .. 1 |-> M(b - 1, 0) - M(b - 1, 1)]
    BY MaxLogByDistances
  <2> HIDE DEF M
  <2> QED
    BY <2>1
<1>2. two[1 + 1] - 1 = 1 /\ two[1 - 0] = 1
  BY DEF two
<1>3. axis_level_from_gray(0, 1) = 1 /\ axis_level_from_gray(1, 1) = -1
  BY <1>2 DEF axis_level_from_gray, gray_to_binary
<1>4. \A g \in 0 .. 1 : gray_bit(g, 1, 0) = g
  BY <1>2 DEF gray_bit
<1>5. /\ Distances(x, gamma, 1, 0, 0) = {sq_dist(x, 1, gamma)}
      /\ Distances(x, gamma, 1, 0, 1) = {sq_dist(x, -1, gamma)}
  <2>1. { g \in 0 .. 1 : gray_bit(g, 1, 0) = 0 } = {0} /\ { g \in 0 .. 1 : gray_bit(g, 1, 0) = 1 } = {1}
    BY <1>4
  <2> QED
    BY <1>2, <1>3, <2>1 DEF Distances
<1>6. \A m \in Int : Min({m}) = m
  BY MinIsLeast
<1>7. sq_dist(x, 1, gamma) \in Int /\ sq_dist(x, -1, gamma) \in Int
  BY DEF sq_dist
<1>8. sq_dist(x, 1, gamma) - sq_dist(x, -1, gamma) = -4 * gamma * x
  BY DEF sq_dist
<1>9. M(0, 0) - M(0, 1) = -4 * gamma * x
  BY <1>5, <1>6, <1>7, <1>8
<1> QED
  BY <1>1, <1>9

\* Every modulation's shortcut.
LEMMA ShortcutsAreMaxLog ==
  ASSUME NEW x \in Int, NEW gamma \in Nat, NEW mod_order \in {2, 4, 6, 8}
  PROVE  axis_llrs(x, gamma, mod_order) = max_log_axis_llrs(x, gamma, mod_order \div 2)
<1>1. CASE mod_order = 2
  <2>1. 2 \div 2 = 1
    OBVIOUS
  <2> QED
    BY <1>1, <2>1, QpskIsMaxLog DEF axis_llrs
<1>2. CASE mod_order = 4
  <2>1. 4 \div 2 = 2
    OBVIOUS
  <2> QED
    BY <1>2, <2>1, SixteenQamIsMaxLog DEF axis_llrs
<1>3. CASE mod_order = 6
  <2>1. 6 \div 2 = 3
    OBVIOUS
  <2> QED
    BY <1>3, <2>1, SixtyFourQamIsMaxLog DEF axis_llrs
<1>4. CASE mod_order = 8
  BY <1>4 DEF axis_llrs
<1> QED
  BY <1>1, <1>2, <1>3, <1>4

-----------------------------------------------------------------------------
(* The scrambling sequence: Gold. *)

\* The equations of the three recursive functions; a function that satisfies
\* one shows that it has a solution.
SteppedEquation(g) ==
  g = [n \in Nat |->
        [r \in Registers |-> IF n = 0 THEN <<>> ELSE <<gold_bit(r)>> \o g[n - 1][advance[1][r]]]]

UnrolledEquation(g) ==
  g = [n \in Nat |->
        [r \in Registers |-> IF n < 8 THEN stepped[n][r]
                             ELSE stepped[8][r] \o g[n - 8][advance[8][r]]]]

LEMMA GoldTyped ==
  ASSUME NEW r \in Registers
  PROVE  gold_step(r) \in Registers /\ gold_bit(r) \in Bits
BY DEF gold_step, gold_bit, Registers, Bit, Bits

\* A jump of n steps, by halves, is n single steps.
LEMMA AdvanceSteps ==
  /\ \A n \in Nat : \A r \in Registers : advance[n][r] \in Registers
  /\ \A r \in Registers : advance[0][r] = r
  /\ \A n \in Nat : \A r \in Registers : advance[n + 1][r] = gold_step(advance[n][r])
  /\ \A m, n \in Nat : \A r \in Registers : advance[m + n][r] = advance[m][advance[n][r]]
<1> DEFINE step == [r \in Registers |-> gold_step(r)]
<1>1. step \in [Registers -> Registers] /\ \A r \in Registers : step[r] = gold_step(r)
  BY GoldTyped
<1>2. advance = CHOOSE g : HalvesEquation(g, Registers, step)
  BY DEF advance, HalvesEquation
<1> HIDE DEF step
<1>3. Repeats(advance, Registers, step)
  BY <1>1, <1>2, ByHalves
<1> QED
  BY <1>1, <1>3 DEF Repeats

\* The sequence sample by sample.
LEMMA SteppedSamples ==
  /\ stepped = [n \in Nat |-> [r \in Registers |-> stepped[n][r]]]
  /\ \A r \in Registers : stepped[0][r] = <<>>
  /\ \A n \in Nat : \A r \in Registers :
       stepped[n + 1][r] = <<gold_bit(r)>> \o stepped[n][advance[1][r]]
  /\ \A n \in Nat : \A r \in Registers : stepped[n][r] \in Seq(Bits) /\ Len(stepped[n][r]) = n
<1> DEFINE S == [Registers -> Seq(Bits)]
           none == [r \in Registers |-> <<>>]
           step == [n \in Nat |-> [h \in S |->
                     [r \in Registers |-> <<gold_bit(r)>> \o h[advance[1][r]]]]]
<1>1. none \in S
  OBVIOUS
<1>2. step \in [Nat -> [S -> S]]
  <2>1. ASSUME NEW h \in S, NEW r \in Registers
        PROVE  <<gold_bit(r)>> \o h[advance[1][r]] \in Seq(Bits)
    <3>1. h[advance[1][r]] \in Seq(Bits)
      BY AdvanceSteps
    <3>2. <<gold_bit(r)>> \in Seq(Bits)
      BY GoldTyped
    <3> QED
      BY <3>1, <3>2
  <2> QED
    BY <2>1
<1>3. \A n \in Nat, h \in S : \A r \in Registers :
        step[n][h][r] = <<gold_bit(r)>> \o h[advance[1][r]]
  OBVIOUS
<1>4. \A r \in Registers : none[r] = <<>>
  OBVIOUS
<1> HIDE DEF step, S, none
<1>5. PICK st \in [Nat -> S] : st[0] = none /\ \A n \in Nat : st[n + 1] = step[n][st[n]]
  <2>1. \E st \in [Nat -> S] : IsIteration(st, none, step)
    BY <1>1, <1>2, StepByStep
  <2> QED
    BY <2>1 DEF IsIteration
<1>6. SteppedEquation(st)
  <2>1. ASSUME NEW n \in Nat, NEW r \in Registers
        PROVE  st[n][r] = IF n = 0 THEN <<>> ELSE <<gold_bit(r)>> \o st[n - 1][advance[1][r]]
    <3>1. CASE n = 0
      BY <1>4, <1>5, <3>1
    <3>2. CASE n # 0
      <4>1. n - 1 \in Nat /\ (n - 1) + 1 = n
        BY <3>2
      <4>2. st[n - 1] \in S /\ st[n] = step[n - 1][st[n - 1]]
        BY <1>5, <4>1
      <4> QED
        BY <1>3, <3>2, <4>1, <4>2
    <3> QED
      BY <3>1, <3>2
  <2>2. st = [n \in Nat |-> [r \in Registers |-> st[n][r]]]
    BY DEF S
  <2> QED
    BY <2>1, <2>2 DEF SteppedEquation
<1>7. SteppedEquation(stepped)
  BY <1>6 DEF SteppedEquation, stepped
<1>8. \A n \in Nat : \A r \in Registers :
        stepped[n][r] = IF n = 0 THEN <<>> ELSE <<gold_bit(r)>> \o stepped[n - 1][advance[1][r]]
  <2> DEFINE F(n, r) == IF n = 0 THEN <<>> ELSE <<gold_bit(r)>> \o stepped[n - 1][advance[1][r]]
  <2>1. stepped = [n \in Nat |-> [r \in Registers |-> F(n, r)]]
    BY <1>7 DEF SteppedEquation
  <2> HIDE DEF F
  <2>2. \A n \in Nat : \A r \in Registers : stepped[n][r] = F(n, r)
    BY <2>1
  <2> QED
    BY <2>2 DEF F
<1>9. stepped = [n \in Nat |-> [r \in Registers |-> stepped[n][r]]]
  <2> DEFINE F(n, r) == IF n = 0 THEN <<>> ELSE <<gold_bit(r)>> \o stepped[n - 1][advance[1][r]]
  <2>1. stepped = [n \in Nat |-> [r \in Registers |-> F(n, r)]]
    BY <1>7 DEF SteppedEquation
  <2> HIDE DEF F
  <2> QED
    BY <2>1
<1>10. \A r \in Registers : stepped[0][r] = <<>>
  BY <1>8
<1>11. \A n \in Nat : \A r \in Registers :
         stepped[n + 1][r] = <<gold_bit(r)>> \o stepped[n][advance[1][r]]
  <2> SUFFICES ASSUME NEW n \in Nat, NEW r \in Registers
               PROVE  stepped[n + 1][r] = <<gold_bit(r)>> \o stepped[n][advance[1][r]]
    OBVIOUS
  <2>1. PICK m \in Nat : m = n + 1
    OBVIOUS
  <2>2. m # 0 /\ m - 1 = n
    BY <2>1
  <2>3. stepped[m][r] = <<gold_bit(r)>> \o stepped[m - 1][advance[1][r]]
    BY <1>8, <2>2, Zenon
  <2> QED
    BY <2>1, <2>2, <2>3, Zenon
<1>12. \A n \in Nat : \A r \in Registers : stepped[n][r] \in Seq(Bits) /\ Len(stepped[n][r]) = n
  <2> DEFINE T == {n \in Nat : \A r \in Registers : stepped[n][r] \in Seq(Bits) /\ Len(stepped[n][r]) = n}
  <2>1. 0 \in T
    <3>1. \A r \in Registers : stepped[0][r] \in Seq(Bits) /\ Len(stepped[0][r]) = 0
      <4>1. <<>> \in Seq(Bits) /\ Len(<<>>) = 0
        OBVIOUS
      <4> QED
        BY <1>10, <4>1, Zenon
    <3> QED
      BY <3>1
  <2>2. ASSUME NEW n \in Nat, n \in T
        PROVE  n + 1 \in T
    <3> SUFFICES ASSUME NEW r \in Registers
                 PROVE  stepped[n + 1][r] \in Seq(Bits) /\ Len(stepped[n + 1][r]) = n + 1
      OBVIOUS
    <3> DEFINE rest == stepped[n][advance[1][r]]
    <3>1. stepped[n + 1][r] = <<gold_bit(r)>> \o rest
      BY <1>11
    <3>2. rest \in Seq(Bits) /\ Len(rest) = n
      BY <2>2, AdvanceSteps
    <3>3. <<gold_bit(r)>> \in Seq(Bits) /\ Len(<<gold_bit(r)>>) = 1
      BY GoldTyped
    <3> HIDE DEF rest
    <3> QED
      BY <3>1, <3>2, <3>3
  <2> HIDE DEF T
  <2>3. \A n \in Nat : n \in T
    BY <2>1, <2>2, NumberByNumber
  <2> QED
    BY <2>3 DEF T
<1> QED
  BY <1>12, <1>9, <1>10, <1>11

\* The samples of m + n steps are those of m and, from there, those of n.
LEMMA SteppedInTwo ==
  \A m \in Nat : \A n \in Nat : \A r \in Registers :
    stepped[m + n][r] = stepped[m][r] \o stepped[n][advance[m][r]]
<1> DEFINE T == {m \in Nat : \A n \in Nat : \A r \in Registers :
                   stepped[m + n][r] = stepped[m][r] \o stepped[n][advance[m][r]]}
<1>1. 0 \in T
  <2> SUFFICES ASSUME NEW n \in Nat, NEW r \in Registers
               PROVE  stepped[0 + n][r] = stepped[0][r] \o stepped[n][advance[0][r]]
    OBVIOUS
  <2>1. stepped[0][r] = <<>> /\ advance[0][r] = r /\ stepped[n][r] \in Seq(Bits)
    BY SteppedSamples, AdvanceSteps
  <2> QED
    BY <2>1
<1>2. ASSUME NEW m \in Nat, m \in T
      PROVE  m + 1 \in T
  <2> SUFFICES ASSUME NEW n \in Nat, NEW r \in Registers
               PROVE  stepped[(m + 1) + n][r] = stepped[m + 1][r] \o stepped[n][advance[m + 1][r]]
    <3>1. PICK j \in Nat : j = m + 1
      OBVIOUS
    <3>2. \A n \in Nat : \A r \in Registers :
            stepped[j + n][r] = stepped[j][r] \o stepped[n][advance[j][r]]
      BY <3>1, Zenon
    <3> QED
      BY <3>1, <3>2, Zenon
  <2> DEFINE next == advance[1][r]
             bit == <<gold_bit(r)>>
             middle == stepped[m][next]
             last == stepped[n][advance[m][next]]
  <2>1. next \in Registers /\ advance[m][next] \in Registers
    BY AdvanceSteps
  <2>2. bit \in Seq(Bits) /\ middle \in Seq(Bits) /\ last \in Seq(Bits)
    BY <2>1, SteppedSamples, GoldTyped
  <2>3. stepped[(m + 1) + n][r] = bit \o stepped[m + n][next]
    <3>1. PICK k \in Nat : k = m + n
      OBVIOUS
    <3>2. (m + 1) + n = k + 1
      BY <3>1
    <3>3. stepped[k + 1][r] = bit \o stepped[k][next]
      BY SteppedSamples, Zenon
    <3> QED
      BY <3>1, <3>2, <3>3, Zenon
  <2>4. stepped[m + n][next] = middle \o last
    BY <1>2, <2>1
  <2>5. stepped[m + 1][r] = bit \o middle
    BY SteppedSamples, Zenon
  <2>6. advance[m + 1][r] = advance[m][next]
    BY AdvanceSteps
  <2> HIDE DEF bit, middle, last
  <2>7. bit \o (middle \o last) = (bit \o middle) \o last
    BY <2>2
  <2> QED
    BY <2>3, <2>4, <2>5, <2>6, <2>7 DEF last
<1> HIDE DEF T
<1>3. \A m \in Nat : m \in T
  BY <1>1, <1>2, NumberByNumber
<1> QED
  BY <1>3 DEF T

\* The sequence in blocks of eight is the sequence sample by sample, whatever
\* the length and the seed (lte_descrambling.h:66).
THEOREM UnrolledIsStepped ==
  ASSUME NEW n \in Nat, NEW r \in Registers
  PROVE  unrolled[n][r] = stepped[n][r] /\ Len(unrolled[n][r]) = n
<1>1. ASSUME NEW k \in Nat, NEW s \in Registers, ~(k < 8)
      PROVE  stepped[k][s] = stepped[8][s] \o stepped[k - 8][advance[8][s]]
  <2>1. PICK j \in Nat : j = k - 8 /\ 8 + j = k /\ 8 \in Nat
    BY <1>1
  <2>2. stepped[8 + j][s] = stepped[8][s] \o stepped[j][advance[8][s]]
    BY <2>1, SteppedInTwo, Zenon
  <2> QED
    BY <2>1, <2>2, Zenon
<1>2. UnrolledEquation(stepped)
  <2>1. stepped = [k \in Nat |-> [s \in Registers |-> stepped[k][s]]]
    BY SteppedSamples
  <2> QED
    BY <1>1, <2>1 DEF UnrolledEquation
<1>3. UnrolledEquation(unrolled)
  BY <1>2 DEF UnrolledEquation, unrolled
<1>4. \A k \in Nat : \A s \in Registers :
        unrolled[k][s] = IF k < 8 THEN stepped[k][s]
                         ELSE stepped[8][s] \o unrolled[k - 8][advance[8][s]]
  <2> DEFINE F(k, s) == IF k < 8 THEN stepped[k][s]
                        ELSE stepped[8][s] \o unrolled[k - 8][advance[8][s]]
  <2>1. unrolled = [k \in Nat |-> [s \in Registers |-> F(k, s)]]
    BY <1>3 DEF UnrolledEquation
  <2> HIDE DEF F
  <2>2. \A k \in Nat : \A s \in Registers : unrolled[k][s] = F(k, s)
    BY <2>1
  <2> QED
    BY <2>2 DEF F
<1> DEFINE T == {k \in Nat : \A s \in Registers : unrolled[k][s] = stepped[k][s]}
<1>5. ASSUME NEW k \in Nat, \A m \in Nat : m < k => m \in T
      PROVE  k \in T
  <2> SUFFICES ASSUME NEW s \in Registers PROVE unrolled[k][s] = stepped[k][s]
    OBVIOUS
  <2>1. CASE k < 8
    BY <1>4, <2>1
  <2>2. CASE ~(k < 8)
    <3>1. k - 8 \in Nat /\ 8 + (k - 8) = k /\ k - 8 < k
      BY <2>2
    <3>2. advance[8][s] \in Registers
      BY AdvanceSteps
    <3>3. unrolled[k - 8][advance[8][s]] = stepped[k - 8][advance[8][s]]
      BY <1>5, <3>1, <3>2
    <3>4. unrolled[k][s] = stepped[8][s] \o unrolled[k - 8][advance[8][s]]
      BY <1>4, <2>2
    <3>5. stepped[k][s] = stepped[8][s] \o stepped[k - 8][advance[8][s]]
      BY <1>1, <2>2
    <3> QED
      BY <3>3, <3>4, <3>5
  <2> QED
    BY <2>1, <2>2
<1> HIDE DEF T
<1>6. \A k \in Nat : k \in T
  BY <1>5, ByPredecessors
<1>7. unrolled[n][r] = stepped[n][r]
  BY <1>6 DEF T
<1> QED
  BY <1>7, SteppedSamples

-----------------------------------------------------------------------------
(* The sequence of the standard: 36.211, 7.2. *)

LEMMA SeedTyped ==
  ASSUME NEW c_init \in Nat
  PROVE  init_gold(c_init) \in Registers
<1>1. [x1 |-> 1, x2 |-> c_init] \in Registers /\ kDescramblingNc \in Nat
  BY DEF Registers, kDescramblingNc
<1> QED
  BY <1>1, AdvanceSteps DEF init_gold

\* The samples of the standard, grown by halves, are grown one by one.
LEMMA NextTyped ==
  ASSUME NEW s \in Beginnings
  PROVE  NextSamples(s) \in Beginnings
BY DEF NextSamples, Beginnings, Known, Bits

LEMMA GrownSamples ==
  /\ \A n \in Nat : \A s \in Beginnings : grown[n][s] \in Beginnings
  /\ \A s \in Beginnings : grown[0][s] = s
  /\ \A n \in Nat : \A s \in Beginnings : grown[n + 1][s] = NextSamples(grown[n][s])
<1> DEFINE step == [s \in Beginnings |-> NextSamples(s)]
<1>1. step \in [Beginnings -> Beginnings] /\ \A s \in Beginnings : step[s] = NextSamples(s)
  BY NextTyped
<1>2. grown = CHOOSE g : HalvesEquation(g, Beginnings, step)
  BY DEF grown, HalvesEquation
<1> HIDE DEF step
<1>3. Repeats(grown, Beginnings, step)
  BY <1>1, <1>2, ByHalves
<1> QED
  BY <1>1, <1>3 DEF Repeats

-----------------------------------------------------------------------------
(* Bits of registers. *)

\* The powers of two of a register.
LEMMA Doubling ==
  ASSUME NEW k \in 0 .. 29
  PROVE  /\ 2^k \in Nat \ {0} /\ 2^(k + 1) = 2 * 2^k
<1>1. /\ (k = 0 => 2^k = 2^0) /\ (k = 1 => 2^k = 2^1) /\ (k = 2 => 2^k = 2^2)
      /\ (k = 3 => 2^k = 2^3) /\ (k = 4 => 2^k = 2^4) /\ (k = 5 => 2^k = 2^5)
      /\ (k = 6 => 2^k = 2^6) /\ (k = 7 => 2^k = 2^7) /\ (k = 8 => 2^k = 2^8)
      /\ (k = 9 => 2^k = 2^9) /\ (k = 10 => 2^k = 2^10) /\ (k = 11 => 2^k = 2^11)
      /\ (k = 12 => 2^k = 2^12) /\ (k = 13 => 2^k = 2^13) /\ (k = 14 => 2^k = 2^14)
      /\ (k = 15 => 2^k = 2^15) /\ (k = 16 => 2^k = 2^16) /\ (k = 17 => 2^k = 2^17)
      /\ (k = 18 => 2^k = 2^18) /\ (k = 19 => 2^k = 2^19) /\ (k = 20 => 2^k = 2^20)
      /\ (k = 21 => 2^k = 2^21) /\ (k = 22 => 2^k = 2^22) /\ (k = 23 => 2^k = 2^23)
      /\ (k = 24 => 2^k = 2^24) /\ (k = 25 => 2^k = 2^25) /\ (k = 26 => 2^k = 2^26)
      /\ (k = 27 => 2^k = 2^27) /\ (k = 28 => 2^k = 2^28) /\ (k = 29 => 2^k = 2^29)
  BY Zenon
<1>2. /\ (k = 0 => 2^(k + 1) = 2^(0 + 1)) /\ (k = 1 => 2^(k + 1) = 2^(1 + 1)) /\ (k = 2 => 2^(k + 1) = 2^(2 + 1))
      /\ (k = 3 => 2^(k + 1) = 2^(3 + 1)) /\ (k = 4 => 2^(k + 1) = 2^(4 + 1)) /\ (k = 5 => 2^(k + 1) = 2^(5 + 1))
      /\ (k = 6 => 2^(k + 1) = 2^(6 + 1)) /\ (k = 7 => 2^(k + 1) = 2^(7 + 1)) /\ (k = 8 => 2^(k + 1) = 2^(8 + 1))
      /\ (k = 9 => 2^(k + 1) = 2^(9 + 1)) /\ (k = 10 => 2^(k + 1) = 2^(10 + 1)) /\ (k = 11 => 2^(k + 1) = 2^(11 + 1))
      /\ (k = 12 => 2^(k + 1) = 2^(12 + 1)) /\ (k = 13 => 2^(k + 1) = 2^(13 + 1)) /\ (k = 14 => 2^(k + 1) = 2^(14 + 1))
      /\ (k = 15 => 2^(k + 1) = 2^(15 + 1)) /\ (k = 16 => 2^(k + 1) = 2^(16 + 1)) /\ (k = 17 => 2^(k + 1) = 2^(17 + 1))
      /\ (k = 18 => 2^(k + 1) = 2^(18 + 1)) /\ (k = 19 => 2^(k + 1) = 2^(19 + 1)) /\ (k = 20 => 2^(k + 1) = 2^(20 + 1))
      /\ (k = 21 => 2^(k + 1) = 2^(21 + 1)) /\ (k = 22 => 2^(k + 1) = 2^(22 + 1)) /\ (k = 23 => 2^(k + 1) = 2^(23 + 1))
      /\ (k = 24 => 2^(k + 1) = 2^(24 + 1)) /\ (k = 25 => 2^(k + 1) = 2^(25 + 1)) /\ (k = 26 => 2^(k + 1) = 2^(26 + 1))
      /\ (k = 27 => 2^(k + 1) = 2^(27 + 1)) /\ (k = 28 => 2^(k + 1) = 2^(28 + 1)) /\ (k = 29 => 2^(k + 1) = 2^(29 + 1))
  BY Zenon
<1>3. 2^k \in Nat \ {0}
  BY <1>1
<1>4. 2^(k + 1) = 2 * 2^k
  BY <1>1, <1>2
<1> QED
  BY <1>3, <1>4

LEMMA HalfOfSum ==
  ASSUME NEW w \in Nat, NEW e \in Nat
  PROVE  (w + 2 * e) \div 2 = w \div 2 + e
OBVIOUS

\* A register that has been shifted has the bits of before one place lower,
\* and the new one on top.
LEMMA ShiftedBits ==
  ASSUME NEW x \in Nat, x < 2^31, NEW f \in Bits, NEW y, y = x \div 2 + f * 2^30
  PROVE  /\ y \in Nat /\ y < 2^31 /\ Bit(y, 30) = f
         /\ \A k \in 0 .. 29 : Bit(y, k) = Bit(x, k + 1)
<1>1. y \in Nat /\ y < 2^31 /\ Bit(y, 30) = f
  BY DEF Bit, Bits
<1> DEFINE T == {k \in Nat : k <= 29 => y \div 2^k = x \div 2^(k + 1) + f * 2^(30 - k)}
<1>2. 0 \in T
  BY DEF Bits
<1>3. ASSUME NEW k \in Nat, k \in T
      PROVE  k + 1 \in T
  <2> SUFFICES ASSUME k + 1 <= 29
               PROVE  y \div 2^(k + 1) = x \div 2^((k + 1) + 1) + f * 2^(30 - (k + 1))
    OBVIOUS
  <2>1. k \in 0 .. 29 /\ k + 1 \in 0 .. 29 /\ 29 - k \in 0 .. 29 /\ 30 - (k + 1) = 29 - k
        /\ (29 - k) + 1 = 30 - k
    OBVIOUS
  <2>2. PICK p \in Nat \ {0}, q \in Nat :
          /\ 2^k = p /\ 2^(k + 1) = 2 * p /\ 2^((k + 1) + 1) = 2 * (2 * p)
          /\ 2^(29 - k) = q /\ 2^(30 - k) = 2 * q
    <3>1. 2^k \in Nat \ {0} /\ 2^(k + 1) = 2 * 2^k /\ 2^((k + 1) + 1) = 2 * 2^(k + 1)
      BY <2>1, Doubling
    <3>2. 2^(29 - k) \in Nat /\ 2^((29 - k) + 1) = 2 * 2^(29 - k)
      BY <2>1, Doubling
    <3>3. 2^(30 - k) = 2 * 2^(29 - k)
      BY <2>1, <3>2, Zenon
    <3> QED
      BY <3>1, <3>2, <3>3
  <2>3. y \div p = x \div (2 * p) + f * (2 * q)
    BY <1>3, <2>1, <2>2
  <2>4. PICK w \in Nat : w = x \div (2 * p)
    BY <2>2
  <2>5. w \div 2 = x \div (2 * (2 * p)) /\ y \div (2 * p) = (y \div p) \div 2
    BY <1>1, <2>2, <2>4
  <2>6. (w + f * (2 * q)) \div 2 = w \div 2 + f * q
    <3>1. PICK e \in Nat : e = f * q /\ f * (2 * q) = 2 * e
      BY <2>2 DEF Bits
    <3>2. (w + 2 * e) \div 2 = w \div 2 + e
      BY <2>4, <3>1, HalfOfSum
    <3> QED
      BY <3>1, <3>2
  <2>7. y \div (2 * p) = x \div (2 * (2 * p)) + f * q
    BY <2>3, <2>4, <2>5, <2>6
  <2> QED
    BY <2>1, <2>2, <2>7
<1> HIDE DEF T
<1>4. \A k \in Nat : k \in T
  BY <1>2, <1>3, NumberByNumber
<1>5. ASSUME NEW k \in 0 .. 29
      PROVE  Bit(y, k) = Bit(x, k + 1)
  <2>1. y \div 2^k = x \div 2^(k + 1) + f * 2^(30 - k)
    BY <1>4 DEF T
  <2>2. 29 - k \in 0 .. 29 /\ (29 - k) + 1 = 30 - k
    OBVIOUS
  <2>3. PICK q \in Nat : 2^(30 - k) = 2 * q
    BY <2>2, Doubling
  <2>4. PICK w \in Nat : w = x \div 2^(k + 1)
    <3>1. PICK p \in Nat \ {0} : 2^(k + 1) = 2 * p
      BY Doubling
    <3> QED
      BY <3>1
  <2>5. (w + f * (2 * q)) % 2 = w % 2
    BY <2>3, <2>4 DEF Bits
  <2> QED
    BY <2>1, <2>3, <2>4, <2>5 DEF Bit
<1> QED
  BY <1>1, <1>5

-----------------------------------------------------------------------------
\* One entry more, in front and at the end.
LEMMA OneAhead ==
  ASSUME NEW S, NEW a \in S, NEW q \in Seq(S), NEW n \in Nat, Len(q) = n
  PROVE  (<<a>> \o q)[1] = a /\ \A j \in 1 .. n : (<<a>> \o q)[j + 1] = q[j]
OBVIOUS

LEMMA OneBehind ==
  ASSUME NEW S, NEW q \in Seq(S), NEW a \in S, NEW n \in Nat, Len(q) = n
  PROVE  /\ Append(q, a) \in Seq(S) /\ Len(Append(q, a)) = n + 1 /\ Append(q, a)[n + 1] = a
         /\ \A i \in 1 .. n : Append(q, a)[i] = q[i]
OBVIOUS

\* The i-th sample is what the registers show after i - 1 steps.
LEMMA SteppedBits ==
  \A n \in Nat : \A r \in Registers : \A i \in 1 .. n :
    stepped[n][r][i] = gold_bit(advance[i - 1][r])
<1> DEFINE T == {n \in Nat : \A r \in Registers : \A i \in 1 .. n :
                   stepped[n][r][i] = gold_bit(advance[i - 1][r])}
<1>1. 0 \in T
  OBVIOUS
<1>2. ASSUME NEW n \in Nat, n \in T
      PROVE  n + 1 \in T
  <2> SUFFICES ASSUME NEW r \in Registers, NEW i \in 1 .. n + 1
               PROVE  stepped[n + 1][r][i] = gold_bit(advance[i - 1][r])
    OBVIOUS
  <2> DEFINE next == advance[1][r]
             rest == stepped[n][next]
  <2>1. next \in Registers
    BY AdvanceSteps
  <2>2. rest \in Seq(Bits) /\ Len(rest) = n
    BY <2>1, SteppedSamples
  <2>3. stepped[n + 1][r] = <<gold_bit(r)>> \o rest
    BY SteppedSamples
  <2>4. /\ (<<gold_bit(r)>> \o rest)[1] = gold_bit(r)
        /\ \A j \in 1 .. n : (<<gold_bit(r)>> \o rest)[j + 1] = rest[j]
    <3>1. gold_bit(r) \in Bits
      BY GoldTyped
    <3> HIDE DEF rest
    <3> QED
      BY <2>2, <3>1, OneAhead
  <2>5. CASE i = 1
    <3>1. advance[0][r] = r
      BY AdvanceSteps
    <3> QED
      BY <2>3, <2>4, <2>5, <3>1
  <2>6. CASE i # 1
    <3>1. PICK j \in 1 .. n : i = j + 1 /\ i - 1 = j /\ (j - 1) + 1 = j /\ j - 1 \in Nat
      <4>1. i - 1 \in 1 .. n
        BY <2>6
      <4> QED
        BY <4>1
    <3>2. rest[j] = gold_bit(advance[j - 1][next])
      BY <1>2, <2>1
    <3>3. advance[j - 1][next] = advance[j][r]
      <4>1. advance[(j - 1) + 1][r] = advance[j - 1][advance[1][r]]
        BY <3>1, AdvanceSteps
      <4> QED
        BY <3>1, <4>1
    <3> QED
      BY <2>3, <2>4, <3>1, <3>2, <3>3
  <2> QED
    BY <2>5, <2>6
<1> HIDE DEF T
<1>3. \A n \in Nat : n \in T
  BY <1>1, <1>2, NumberByNumber
<1> QED
  BY <1>3 DEF T

\* Register x holds the last 31 samples of s, the oldest lowest.
Shows(x, s) ==
  /\ x \in Nat /\ x < 2^31 /\ s \in Seq(Bits)
  /\ \E t \in Nat : Len(s) = 31 + t /\ \A k \in 0 .. 30 : Bit(x, k) = s[t + 1 + k]

\* Shifting a new sample into the register is one sample more of the sequence.
LEMMA ShowsNext ==
  ASSUME NEW x, NEW s, Shows(x, s), NEW f \in Bits
  PROVE  Shows(x \div 2 + f * 2^30, Append(s, f))
<1>1. PICK t \in Nat : Len(s) = 31 + t /\ \A k \in 0 .. 30 : Bit(x, k) = s[t + 1 + k]
  BY DEF Shows
<1>2. x \in Nat /\ x < 2^31 /\ s \in Seq(Bits)
  BY DEF Shows
<1> DEFINE y == x \div 2 + f * 2^30
           w == Append(s, f)
<1>3. /\ y \in Nat /\ y < 2^31 /\ Bit(y, 30) = f
      /\ \A k \in 0 .. 29 : Bit(y, k) = Bit(x, k + 1)
  BY <1>2, ShiftedBits
<1>4. /\ w \in Seq(Bits) /\ Len(w) = 31 + (t + 1)
      /\ w[31 + (t + 1)] = f /\ \A i \in 1 .. 31 + t : w[i] = s[i]
  <2>1. PICK m \in Nat : m = 31 + t /\ m + 1 = 31 + (t + 1)
    OBVIOUS
  <2>2. Len(s) = m
    BY <1>1, <2>1
  <2>3. w \in Seq(Bits) /\ Len(w) = m + 1 /\ w[m + 1] = f /\ \A i \in 1 .. m : w[i] = s[i]
    BY <1>2, <2>2, OneBehind
  <2> HIDE DEF w
  <2> QED
    BY <2>1, <2>3, Zenon
<1> HIDE DEF y, w
<1>5. ASSUME NEW k \in 0 .. 30
      PROVE  Bit(y, k) = w[(t + 1) + 1 + k]
  <2>1. CASE k = 30
    BY <1>3, <1>4, <2>1
  <2>2. CASE k # 30
    <3>1. k \in 0 .. 29 /\ k + 1 \in 0 .. 30 /\ t + 1 + (k + 1) = (t + 1) + 1 + k
          /\ t + 1 + (k + 1) \in 1 .. 31 + t
      BY <2>2
    <3>2. Bit(y, k) = s[t + 1 + (k + 1)]
      BY <1>1, <1>3, <3>1
    <3> QED
      BY <1>4, <3>1, <3>2
  <2> QED
    BY <2>1, <2>2
<1>6. Shows(y, w)
  BY <1>3, <1>4, <1>5 DEF Shows
<1> QED
  BY <1>6 DEF y, w

BothShow(r, s) == Shows(r.x1, s.x1) /\ Shows(r.x2, s.x2)

\* One step of the registers is one sample more.
LEMMA OneSampleMore ==
  ASSUME NEW r \in Registers, NEW s \in Beginnings, BothShow(r, s)
  PROVE  /\ BothShow(gold_step(r), NextSamples(s))
         /\ \A i \in 1 .. Len(s.x1) : NextSamples(s).x1[i] = s.x1[i]
         /\ \A i \in 1 .. Len(s.x2) : NextSamples(s).x2[i] = s.x2[i]
         /\ Len(NextSamples(s).x1) = Len(s.x1) + 1 /\ Len(NextSamples(s).x2) = Len(s.x2) + 1
<1>1. PICK t \in Nat : Len(s.x1) = 31 + t /\ \A k \in 0 .. 30 : Bit(r.x1, k) = s.x1[t + 1 + k]
  BY DEF BothShow, Shows
<1>2. PICK u \in Nat : Len(s.x2) = 31 + u /\ \A k \in 0 .. 30 : Bit(r.x2, k) = s.x2[u + 1 + k]
  BY DEF BothShow, Shows
<1> DEFINE f == (Bit(r.x1, 3) + Bit(r.x1, 0)) % 2
           g == (Bit(r.x2, 3) + Bit(r.x2, 2) + Bit(r.x2, 1) + Bit(r.x2, 0)) % 2
<1>3. /\ gold_step(r).x1 = r.x1 \div 2 + f * 2^30
      /\ gold_step(r).x2 = r.x2 \div 2 + g * 2^30
  BY DEF gold_step
<1>4. f \in Bits /\ g \in Bits
  <2>1. \A x \in Nat : \A k \in {0, 1, 2, 3} : Bit(x, k) \in Nat
    BY DEF Bit
  <2>2. PICK a, b, c, d, e, h \in Nat :
          /\ a = Bit(r.x1, 3) /\ b = Bit(r.x1, 0) /\ c = Bit(r.x2, 3) /\ d = Bit(r.x2, 2)
          /\ e = Bit(r.x2, 1) /\ h = Bit(r.x2, 0)
    BY <2>1 DEF Registers
  <2>3. (a + b) % 2 \in Bits /\ (c + d + e + h) % 2 \in Bits
    BY DEF Bits
  <2> QED
    BY <2>2, <2>3
<1>5. Bit(r.x1, 3) = s.x1[t + 1 + 3] /\ Bit(r.x1, 0) = s.x1[t + 1]
  BY <1>1
<1>6. /\ Bit(r.x2, 3) = s.x2[u + 1 + 3] /\ Bit(r.x2, 2) = s.x2[u + 1 + 2]
      /\ Bit(r.x2, 1) = s.x2[u + 1 + 1] /\ Bit(r.x2, 0) = s.x2[u + 1]
  BY <1>2
<1>7. NextSamples(s).x1 = Append(s.x1, f)
  <2>1. Len(s.x1) - 30 = t + 1
    <3>1. \A l : l = 31 + t => l - 30 = t + 1
      OBVIOUS
    <3> QED
      BY <1>1, <3>1
  <2> QED
    BY <1>5, <2>1 DEF NextSamples
<1>8. NextSamples(s).x2 = Append(s.x2, g)
  <2>1. Len(s.x2) - 30 = u + 1
    <3>1. \A l : l = 31 + u => l - 30 = u + 1
      OBVIOUS
    <3> QED
      BY <1>2, <3>1
  <2> QED
    BY <1>6, <2>1 DEF NextSamples
<1> HIDE DEF f, g
<1>9. BothShow(gold_step(r), NextSamples(s))
  BY <1>3, <1>4, <1>7, <1>8, ShowsNext DEF BothShow
<1>10. s.x1 \in Seq(Bits) /\ s.x2 \in Seq(Bits)
  BY DEF Beginnings, Known
<1> QED
  BY <1>4, <1>7, <1>8, <1>9, <1>10

\* The registers of a seed, and the samples 36.211 begins with.
LEMMA SeedShown ==
  ASSUME NEW c_init \in Nat, c_init < 2^31
  PROVE  /\ [x1 |-> 1, x2 |-> c_init] \in Registers
         /\ FirstSamples(c_init) \in Beginnings
         /\ BothShow([x1 |-> 1, x2 |-> c_init], FirstSamples(c_init))
         /\ Len(FirstSamples(c_init).x1) = 31 /\ Len(FirstSamples(c_init).x2) = 31
<1> DEFINE first == [i \in 1 .. 31 |-> IF i = 1 THEN 1 ELSE 0]
           second == [i \in 1 .. 31 |-> Bit(c_init, i - 1)]
<1>1. FirstSamples(c_init) = [x1 |-> first, x2 |-> second]
  BY DEF FirstSamples
<1>2. first \in Seq(Bits) /\ Len(first) = 31
  BY DEF Bits
<1>3. ASSUME NEW k \in 0 .. 30
      PROVE  Bit(c_init, k) \in Bits /\ Bit(1, k) = IF k = 0 THEN 1 ELSE 0
  <2>1. CASE k = 0
    BY <2>1 DEF Bit, Bits
  <2>2. CASE k # 0
    <3>1. PICK j \in 0 .. 29 : j + 1 = k
      <4>1. k - 1 \in 0 .. 29 /\ (k - 1) + 1 = k
        BY <2>2
      <4> QED
        BY <4>1
    <3>2. PICK p \in Nat \ {0} : 2^k = 2 * p
      BY <3>1, Doubling
    <3>3. 1 \div (2 * p) = 0 /\ c_init \div (2 * p) \in Nat
      BY <3>2
    <3> QED
      BY <2>2, <3>2, <3>3 DEF Bit, Bits
  <2> QED
    BY <2>1, <2>2
<1>4. second \in Seq(Bits) /\ Len(second) = 31
  <2>1. \A i \in 1 .. 31 : i - 1 \in 0 .. 30
    OBVIOUS
  <2>2. \A i \in 1 .. 31 : Bit(c_init, i - 1) \in Bits
    BY <1>3, <2>1
  <2> QED
    BY <2>2
<1>5. Shows(1, first)
  <2>1. \A k \in 0 .. 30 : Bit(1, k) = first[0 + 1 + k]
    BY <1>3
  <2> HIDE DEF first
  <2>2. Len(first) = 31 + 0
    BY <1>2
  <2> QED
    BY <1>2, <2>1, <2>2 DEF Shows
<1>6. Shows(c_init, second)
  <2>1. \A k \in 0 .. 30 : Bit(c_init, k) = second[0 + 1 + k]
    <3> SUFFICES ASSUME NEW k \in 0 .. 30 PROVE Bit(c_init, k) = second[0 + 1 + k]
      OBVIOUS
    <3>1. 0 + 1 + k \in 1 .. 31 /\ (0 + 1 + k) - 1 = k
      OBVIOUS
    <3> QED
      BY <3>1
  <2> HIDE DEF second
  <2> QED
    BY <1>4, <2>1 DEF Shows
<1> HIDE DEF first, second
<1>7. FirstSamples(c_init).x1 = first /\ FirstSamples(c_init).x2 = second
  BY <1>1
<1>8. FirstSamples(c_init) \in Beginnings
  <2>1. 31 >= 31
    OBVIOUS
  <2>2. first \in Known /\ second \in Known
    BY <1>2, <1>4, <2>1 DEF Known
  <2> QED
    BY <1>1, <2>2 DEF Beginnings
<1>9. BothShow([x1 |-> 1, x2 |-> c_init], FirstSamples(c_init))
  BY <1>5, <1>6, <1>7, Zenon DEF BothShow
<1> QED
  BY <1>2, <1>4, <1>7, <1>8, <1>9 DEF Registers

\* The lowest bits of the registers are the samples that come next.
LEMMA ShownBit ==
  ASSUME NEW r \in Registers, NEW s \in Beginnings, BothShow(r, s), NEW n \in Nat,
         Len(s.x1) = 31 + n, Len(s.x2) = 31 + n
  PROVE  (s.x1[n + 1] + s.x2[n + 1]) % 2 = gold_bit(r)
<1>1. PICK t \in Nat : Len(s.x1) = 31 + t /\ \A k \in 0 .. 30 : Bit(r.x1, k) = s.x1[t + 1 + k]
  BY DEF BothShow, Shows
<1>2. PICK u \in Nat : Len(s.x2) = 31 + u /\ \A k \in 0 .. 30 : Bit(r.x2, k) = s.x2[u + 1 + k]
  BY DEF BothShow, Shows
<1>3. t = n /\ u = n
  <2>1. \A l : l = 31 + n /\ l = 31 + t => t = n
    OBVIOUS
  <2>2. \A l : l = 31 + n /\ l = 31 + u => u = n
    OBVIOUS
  <2> QED
    BY <1>1, <1>2, <2>1, <2>2
<1>4. 0 \in 0 .. 30 /\ n + 1 + 0 = n + 1
  OBVIOUS
<1>5. Bit(r.x1, 0) = s.x1[n + 1] /\ Bit(r.x2, 0) = s.x2[n + 1]
  BY <1>1, <1>2, <1>3, <1>4
<1> QED
  BY <1>5 DEF gold_bit

\* After n steps the registers show the end of the sequences, whose samples
\* are the ones the registers showed on the way.
LEMMA SequencesShown ==
  ASSUME NEW c_init \in Nat, c_init < 2^31, NEW n \in Nat
  PROVE  \A i \in 1 .. n + 1 :
           (grown[n][FirstSamples(c_init)].x1[i] + grown[n][FirstSamples(c_init)].x2[i]) % 2
             = gold_bit(advance[i - 1][[x1 |-> 1, x2 |-> c_init]])
<1> DEFINE seed == [x1 |-> 1, x2 |-> c_init]
           first == FirstSamples(c_init)
           Ends(m) == /\ BothShow(advance[m][seed], grown[m][first])
                      /\ Len(grown[m][first].x1) = 31 + m /\ Len(grown[m][first].x2) = 31 + m
           Sampled(m) == \A i \in 1 .. m + 1 :
                           (grown[m][first].x1[i] + grown[m][first].x2[i]) % 2
                             = gold_bit(advance[i - 1][seed])
           T == {m \in Nat : Ends(m) /\ Sampled(m)}
<1>1. /\ seed \in Registers /\ first \in Beginnings /\ BothShow(seed, first)
      /\ Len(first.x1) = 31 /\ Len(first.x2) = 31
  BY SeedShown
<1> HIDE DEF seed, first
<1>2. ASSUME NEW m \in Nat
      PROVE  /\ advance[m][seed] \in Registers /\ grown[m][first] \in Beginnings
             /\ advance[m + 1][seed] = gold_step(advance[m][seed])
             /\ grown[m + 1][first] = NextSamples(grown[m][first])
  <2>1. seed \in Registers /\ first \in Beginnings
    BY <1>1
  <2>2. advance[m][seed] \in Registers
    BY <2>1, AdvanceSteps, Zenon
  <2>3. advance[m + 1][seed] = gold_step(advance[m][seed])
    BY <2>1, AdvanceSteps, Zenon
  <2>4. grown[m][first] \in Beginnings
    BY <2>1, GrownSamples, Zenon
  <2>5. grown[m + 1][first] = NextSamples(grown[m][first])
    BY <2>1, GrownSamples, Zenon
  <2> QED
    BY <2>2, <2>3, <2>4, <2>5
<1>3. ASSUME NEW m \in Nat, Ends(m)
      PROVE  (grown[m][first].x1[m + 1] + grown[m][first].x2[m + 1]) % 2 = gold_bit(advance[m][seed])
  BY <1>2, <1>3, ShownBit
<1>4. 0 \in T
  <2>1. advance[0][seed] = seed /\ grown[0][first] = first
    BY <1>1, AdvanceSteps, GrownSamples
  <2>2. Ends(0)
    BY <1>1, <2>1
  <2> HIDE DEF Ends
  <2>3. Sampled(0)
    <3> SUFFICES ASSUME NEW i \in 1 .. 0 + 1
                 PROVE  (grown[0][first].x1[i] + grown[0][first].x2[i]) % 2
                          = gold_bit(advance[i - 1][seed])
      OBVIOUS
    <3>1. i = 0 + 1 /\ i - 1 = 0
      OBVIOUS
    <3>2. (grown[0][first].x1[0 + 1] + grown[0][first].x2[0 + 1]) % 2 = gold_bit(advance[0][seed])
      BY <1>3, <2>2
    <3> QED
      BY <3>1, <3>2
  <2> HIDE DEF Sampled
  <2> QED
    BY <2>2, <2>3
<1>5. ASSUME NEW m \in Nat, m \in T
      PROVE  m + 1 \in T
  <2> DEFINE s == grown[m][first]
             r == advance[m][seed]
  <2>1. BothShow(r, s) /\ Len(s.x1) = 31 + m /\ Len(s.x2) = 31 + m
    BY <1>5
  <2>2. s \in Beginnings /\ r \in Registers
    BY <1>2
  <2>3. Sampled(m)
    BY <1>5
  <2> HIDE DEF s, r
  <2>4. /\ BothShow(gold_step(r), NextSamples(s))
        /\ \A i \in 1 .. Len(s.x1) : NextSamples(s).x1[i] = s.x1[i]
        /\ \A i \in 1 .. Len(s.x2) : NextSamples(s).x2[i] = s.x2[i]
        /\ Len(NextSamples(s).x1) = Len(s.x1) + 1 /\ Len(NextSamples(s).x2) = Len(s.x2) + 1
    BY <2>1, <2>2, OneSampleMore
  <2>5. advance[m + 1][seed] = gold_step(r) /\ grown[m + 1][first] = NextSamples(s)
    BY <1>2 DEF r, s
  <2>6. Ends(m + 1)
    <3>1. \A l : l = 31 + m => l + 1 = 31 + (m + 1)
      OBVIOUS
    <3>2. Len(NextSamples(s).x1) = 31 + (m + 1) /\ Len(NextSamples(s).x2) = 31 + (m + 1)
      BY <2>1, <2>4, <3>1
    <3> QED
      BY <2>4, <2>5, <3>2
  <2> HIDE DEF Ends
  <2>7. Sampled(m + 1)
    <3> SUFFICES ASSUME NEW i \in 1 .. (m + 1) + 1
                 PROVE  (grown[m + 1][first].x1[i] + grown[m + 1][first].x2[i]) % 2
                          = gold_bit(advance[i - 1][seed])
      OBVIOUS
    <3>1. CASE i = (m + 1) + 1
      <4>1. m + 1 \in Nat /\ i - 1 = m + 1
        BY <3>1
      <4>2. (grown[m + 1][first].x1[(m + 1) + 1] + grown[m + 1][first].x2[(m + 1) + 1]) % 2
              = gold_bit(advance[m + 1][seed])
        BY <1>3, <2>6, <4>1
      <4> QED
        BY <3>1, <4>1, <4>2
    <3>2. CASE i # (m + 1) + 1
      <4>1. i \in 1 .. m + 1 /\ i \in 1 .. 31 + m
        BY <3>2
      <4>2. NextSamples(s).x1[i] = s.x1[i] /\ NextSamples(s).x2[i] = s.x2[i]
        BY <2>1, <2>4, <4>1
      <4>3. (s.x1[i] + s.x2[i]) % 2 = gold_bit(advance[i - 1][seed])
        BY <2>3, <4>1 DEF s
      <4> QED
        BY <2>5, <4>2, <4>3
    <3> QED
      BY <3>1, <3>2
  <2> HIDE DEF Sampled
  <2> QED
    BY <2>6, <2>7
<1> HIDE DEF T
<1>6. \A m \in Nat : m \in T
  BY <1>4, <1>5, NumberByNumber
<1>7. Sampled(n)
  BY <1>6 DEF T
<1> QED
  BY <1>7 DEF seed, first

\* The scrambling bits the code generates are the ones of 36.211, whatever the
\* seed and their number.
THEOREM ScramblingFollowsTheStandard ==
  ASSUME NEW c_init \in Nat, c_init < 2^31, NEW count \in Nat
  PROVE  generate_scrambling_bits(c_init, count) = StandardBits(c_init, count)
<1> DEFINE seed == [x1 |-> 1, x2 |-> c_init]
           r == init_gold(c_init)
           x == grown[kDescramblingNc + count][FirstSamples(c_init)]
<1>1. r \in Registers /\ seed \in Registers /\ r = advance[kDescramblingNc][seed]
  BY SeedTyped, SeedShown DEF init_gold
<1>2. generate_scrambling_bits(c_init, count) = stepped[count][r] /\ Len(stepped[count][r]) = count
  BY <1>1, UnrolledIsStepped, SteppedSamples DEF generate_scrambling_bits
<1>3. stepped[count][r] \in Seq(Bits)
  BY <1>1, SteppedSamples
<1>4. ASSUME NEW i \in 1 .. count
      PROVE  stepped[count][r][i] = (x.x1[kDescramblingNc + i] + x.x2[kDescramblingNc + i]) % 2
  <2>1. stepped[count][r][i] = gold_bit(advance[i - 1][r])
    BY <1>1, SteppedBits
  <2>2. PICK j \in Nat : j = i - 1
    OBVIOUS
  <2>3. /\ kDescramblingNc \in Nat /\ kDescramblingNc + count \in Nat
        /\ kDescramblingNc + i \in 1 .. (kDescramblingNc + count) + 1
        /\ (kDescramblingNc + i) - 1 = j + kDescramblingNc
    BY <2>2 DEF kDescramblingNc
  <2>4. advance[j + kDescramblingNc][seed] = advance[j][advance[kDescramblingNc][seed]]
    BY <1>1, <2>3, AdvanceSteps
  <2>5. (x.x1[kDescramblingNc + i] + x.x2[kDescramblingNc + i]) % 2
          = gold_bit(advance[(kDescramblingNc + i) - 1][seed])
    BY <2>3, SequencesShown
  <2> HIDE DEF r, seed, x
  <2> QED
    BY <1>1, <2>1, <2>2, <2>3, <2>4, <2>5
<1>5. StandardBits(c_init, count)
        = [i \in 1 .. count |-> (x.x1[kDescramblingNc + i] + x.x2[kDescramblingNc + i]) % 2]
  BY DEF StandardBits
<1> HIDE DEF r, x
<1>6. stepped[count][r] = [i \in 1 .. count |-> stepped[count][r][i]]
  BY <1>2, <1>3
<1> QED
  BY <1>2, <1>4, <1>5, <1>6

-----------------------------------------------------------------------------
(* Soft bits with and without a plan: SoftDemod. *)

ViewTyped(out) == out.n_layers \in Nat /\ out.n_re \in Nat /\ out.mod_order \in Nat

\* The places elements may have.
Places(out) == {(p[1] - 1) * out.capacity + p[2] : p \in (1 .. out.n_layers) \X (1 .. out.n_re)}

\* Element `re` of a layer, the layers one after the other.
LEMMA WhereElementsLie ==
  ASSUME NEW out, ViewTyped(out)
  PROVE  /\ elements(out) \in Seq(Places(out)) /\ Len(elements(out)) = out.n_layers * out.n_re
         /\ \A layer \in 1 .. out.n_layers : \A re \in 1 .. out.n_re :
              elements(out)[(layer - 1) * out.n_re + re] = (layer - 1) * out.capacity + re
<1> DEFINE place(layer, re) == (layer - 1) * out.capacity + re
           rows == [layer \in 1 .. out.n_layers |-> [re \in 1 .. out.n_re |-> place(layer, re)]]
<1>1. out.n_layers \in Nat /\ out.n_re \in Nat
  BY DEF ViewTyped
<1>2. elements(out) = FlattenSeq(rows)
  BY DEF elements
<1>3. ASSUME NEW layer \in 1 .. out.n_layers
      PROVE  rows[layer] \in Seq(Places(out)) /\ Len(rows[layer]) = out.n_re
  <2>1. \A re \in 1 .. out.n_re : place(layer, re) \in Places(out)
    <3> SUFFICES ASSUME NEW re \in 1 .. out.n_re PROVE place(layer, re) \in Places(out)
      OBVIOUS
    <3>1. <<layer, re>> \in (1 .. out.n_layers) \X (1 .. out.n_re)
      OBVIOUS
    <3> QED
      BY <3>1 DEF Places
  <2> HIDE DEF place
  <2> QED
    BY <1>1, <2>1
<1>4. rows \in Seq(Seq(Places(out))) /\ Len(rows) = out.n_layers
  <2>1. \A layer \in 1 .. out.n_layers : rows[layer] \in Seq(Places(out))
    BY <1>3
  <2>2. rows = [layer \in 1 .. out.n_layers |-> rows[layer]]
    OBVIOUS
  <2> HIDE DEF rows
  <2> QED
    BY <1>1, <2>1, <2>2
<1>5. \A layer \in 1 .. out.n_layers : \A re \in 1 .. out.n_re : rows[layer][re] = place(layer, re)
  OBVIOUS
<1> HIDE DEF rows
<1>6. \A i \in 1 .. Len(rows) : Len(rows[i]) = out.n_re
  BY <1>3, <1>4
<1>7. /\ FlattenSeq(rows) \in Seq(Places(out)) /\ Len(FlattenSeq(rows)) = Len(rows) * out.n_re
      /\ \A i \in 1 .. Len(rows) : \A j \in 1 .. out.n_re :
           FlattenSeq(rows)[(i - 1) * out.n_re + j] = rows[i][j]
  BY <1>1, <1>4, <1>6, FlattenedParts
<1> QED
  BY <1>2, <1>4, <1>5, <1>7

\* As many soft bits as a view's layers, elements and bits make, the bits of an
\* element behind those of the elements before it.
LEMMA PlainParts ==
  ASSUME NEW out, ViewTyped(out), AcceptedView(out)
  PROVE  LET plain == build_max_log_llrs(out)
         IN  /\ plain.status = kOk
             /\ \E S : plain.llrs \in Seq(S)
             /\ Len(plain.llrs) = total_llr_count(out)
             /\ total_llr_count(out) = Len(elements(out)) * out.mod_order
             /\ total_llr_count(out) \in Nat
             /\ \A k \in 1 .. Len(elements(out)) : \A j \in 1 .. out.mod_order :
                  plain.llrs[(k - 1) * out.mod_order + j] = ElementLlrs(out, elements(out)[k])[j]
<1> DEFINE at == elements(out)
           parts == [k \in DOMAIN at |-> ElementLlrs(out, at[k])]
           Values == {parts[p[1]][p[2]] : p \in (DOMAIN at) \X (1 .. out.mod_order)}
<1>1. out.n_layers \in Nat /\ out.n_re \in Nat /\ out.mod_order \in Nat
  BY DEF ViewTyped
<1>2. at \in Seq(Places(out)) /\ Len(at) = out.n_layers * out.n_re
  BY WhereElementsLie
<1> HIDE DEF at
<1>3. DOMAIN at = 1 .. Len(at) /\ Len(at) \in Nat
  BY <1>2
<1>4. ASSUME NEW k \in DOMAIN at
      PROVE  parts[k] \in Seq(Values) /\ Len(parts[k]) = out.mod_order
  <2>1. \A j \in 1 .. out.mod_order : parts[k][j] \in Values
    <3> SUFFICES ASSUME NEW j \in 1 .. out.mod_order PROVE parts[k][j] \in Values
      OBVIOUS
    <3>1. <<k, j>> \in (DOMAIN at) \X (1 .. out.mod_order)
      OBVIOUS
    <3> HIDE DEF parts
    <3> QED
      BY <3>1
  <2>2. parts[k] = [j \in 1 .. out.mod_order |-> parts[k][j]]
    BY DEF ElementLlrs
  <2> HIDE DEF parts, Values
  <2> QED
    BY <1>1, <2>1, <2>2
<1>5. parts \in Seq(Seq(Values)) /\ Len(parts) = Len(at)
  <2>1. parts = [k \in 1 .. Len(at) |-> parts[k]]
    BY <1>3
  <2> HIDE DEF parts, Values
  <2> QED
    BY <1>3, <1>4, <2>1
<1>6. build_max_log_llrs(out) = [status |-> kOk, llrs |-> FlattenSeq(parts)]
  BY DEF build_max_log_llrs, at
<1>7. \A k \in 1 .. Len(at) : parts[k] = ElementLlrs(out, at[k])
  BY <1>3
<1> HIDE DEF parts, Values
<1>8. \A i \in 1 .. Len(parts) : Len(parts[i]) = out.mod_order
  BY <1>3, <1>4, <1>5
<1>9. /\ FlattenSeq(parts) \in Seq(Values) /\ Len(FlattenSeq(parts)) = Len(at) * out.mod_order
      /\ \A k \in 1 .. Len(at) : \A j \in 1 .. out.mod_order :
           FlattenSeq(parts)[(k - 1) * out.mod_order + j] = parts[k][j]
  <2>1. /\ FlattenSeq(parts) \in Seq(Values)
        /\ Len(FlattenSeq(parts)) = Len(parts) * out.mod_order
        /\ \A i \in 1 .. Len(parts) : \A j \in 1 .. out.mod_order :
             FlattenSeq(parts)[(i - 1) * out.mod_order + j] = parts[i][j]
    BY <1>1, <1>5, <1>8, FlattenedParts
  <2> QED
    BY <1>5, <2>1
<1>10. total_llr_count(out) = Len(at) * out.mod_order
  BY <1>1, <1>2 DEF total_llr_count
<1>11. Len(FlattenSeq(parts)) \in Nat
  BY <1>9
<1> QED
  BY <1>6, <1>7, <1>9, <1>10, <1>11 DEF at

LEMMA RatioCounted ==
  ASSUME NEW s \in Int
  PROVE  Max({s, 0}) \in Nat
<1>1. \E m \in {s, 0} : \A y \in {s, 0} : m >= y
  OBVIOUS
<1>2. Max({s, 0}) \in {s, 0} /\ \A y \in {s, 0} : Max({s, 0}) >= y
  BY <1>1 DEF Max
<1> QED
  BY <1>2

\* Every element of an accepted view lies in its arrays.
LEMMA ElementsAreRead ==
  ASSUME NEW out, Readable(out), AcceptedView(out), NEW e \in Places(out)
  PROVE  out.x_hat_re[e] \in Int /\ out.x_hat_im[e] \in Int /\ Max({out.sinr[e], 0}) \in Nat
<1>1. /\ out.n_layers \in Nat /\ out.n_re \in Nat /\ out.capacity \in Nat
      /\ out.capacity >= out.n_re
  BY DEF Readable, Views, AcceptedView
<1>2. PICK layer \in 1 .. out.n_layers, re \in 1 .. out.n_re : e = (layer - 1) * out.capacity + re
  BY DEF Places
<1>3. e \in 1 .. out.n_layers * out.capacity
  <2>1. PICK d \in Nat : out.n_layers = layer + d
    <3>1. out.n_layers - layer \in Nat /\ out.n_layers = layer + (out.n_layers - layer)
      BY <1>1
    <3> QED
      BY <3>1
  <2>2. PICK c \in Nat : c = out.capacity /\ re \in 1 .. c
    BY <1>1
  <2>3. PICK j \in Nat : layer = j + 1
    <3>1. layer - 1 \in Nat /\ layer = (layer - 1) + 1
      OBVIOUS
    <3> QED
      BY <3>1
  <2>4. (j + 1 + d) * c = j * c + c + d * c /\ j * c \in Nat /\ d * c \in Nat
    OBVIOUS
  <2>5. PICK p \in Nat, q \in Nat : p = j * c /\ q = d * c
    BY <2>4
  <2>6. p + re \in 1 .. p + c + q
    BY <2>2
  <2>7. layer - 1 = j
    BY <2>3
  <2> QED
    BY <1>2, <2>1, <2>2, <2>3, <2>4, <2>5, <2>6, <2>7
<1>4. ASSUME NEW s \in Seq(Int), Len(s) >= out.n_layers * out.capacity
      PROVE  s[e] \in Int
  <2>1. out.n_layers * out.capacity \in Nat /\ Len(s) \in Nat
    BY <1>1
  <2>2. e \in 1 .. Len(s)
    BY <1>3, <1>4, <2>1
  <2> QED
    BY <2>2
<1>5. out.x_hat_re[e] \in Int /\ out.x_hat_im[e] \in Int /\ out.sinr[e] \in Int
  BY <1>4 DEF Readable, Views
<1> QED
  BY <1>5, RatioCounted

\* The soft bits one by one.
PlainLlr(out, i) ==
  LET k == ((i - 1) % out.mod_order) + 1
      e == elements(out)[((i - 1) \div out.mod_order) + 1]
      x == IF k % 2 = 1 THEN out.x_hat_re[e] ELSE out.x_hat_im[e]
  IN  max_log_axis_llrs(x, Max({out.sinr[e], 0}), out.mod_order \div 2)[(k + 1) \div 2]

\* The soft bits are the max-log ones.
LEMMA PlainLlrsAreMaxLog ==
  ASSUME NEW out, Readable(out), AcceptedView(out)
  PROVE  build_max_log_llrs(out).llrs = [i \in 1 .. total_llr_count(out) |-> PlainLlr(out, i)]
<1> DEFINE llrs == build_max_log_llrs(out).llrs
           at == elements(out)
           mod == out.mod_order
<1>1. /\ \E S : llrs \in Seq(S)
      /\ Len(llrs) = total_llr_count(out)
      /\ total_llr_count(out) = Len(at) * mod /\ total_llr_count(out) \in Nat
      /\ \A k \in 1 .. Len(at) : \A j \in 1 .. mod :
           llrs[(k - 1) * mod + j] = ElementLlrs(out, at[k])[j]
  BY PlainParts DEF Readable, Views, ViewTyped
<1>2. at \in Seq(Places(out))
  BY WhereElementsLie DEF Readable, Views, ViewTyped
<1>3. mod \in {2, 4, 6, 8}
  BY DEF AcceptedView, supported_mod_order
<1> HIDE DEF llrs, at, mod
<1>4. ASSUME NEW i \in 1 .. total_llr_count(out)
      PROVE  llrs[i] = PlainLlr(out, i)
  <2>1. /\ (i - 1) \div mod + 1 \in 1 .. Len(at) /\ ((i - 1) % mod) + 1 \in 1 .. mod
        /\ i = (((i - 1) \div mod + 1) - 1) * mod + (((i - 1) % mod) + 1)
    <3>1. Len(at) \in Nat /\ mod \in Nat /\ i \in 1 .. Len(at) * mod
      BY <1>1, <1>2, <1>3
    <3> QED
      BY <3>1, PlaceInParts
  <2>2. PICK p \in 1 .. Len(at), k \in 1 .. mod :
          p = (i - 1) \div mod + 1 /\ k = ((i - 1) % mod) + 1 /\ i = (p - 1) * mod + k
    BY <2>1
  <2>3. PICK e \in Places(out) : e = at[p]
    BY <1>2
  <2>4. llrs[i] = ElementLlrs(out, e)[k]
    BY <1>1, <2>2, <2>3
  <2>5. /\ out.x_hat_re[e] \in Int /\ out.x_hat_im[e] \in Int /\ Max({out.sinr[e], 0}) \in Nat
    BY ElementsAreRead
  <2> DEFINE gamma == Max({out.sinr[e], 0})
             li == axis_llrs(out.x_hat_re[e], gamma, mod)
             lq == axis_llrs(out.x_hat_im[e], gamma, mod)
  <2>6. /\ li = max_log_axis_llrs(out.x_hat_re[e], gamma, mod \div 2)
        /\ lq = max_log_axis_llrs(out.x_hat_im[e], gamma, mod \div 2)
    BY <1>3, <2>5, ShortcutsAreMaxLog
  <2>7. ElementLlrs(out, e)[k] = IF k % 2 = 1 THEN li[(k + 1) \div 2] ELSE lq[k \div 2]
    BY DEF ElementLlrs, mod
  <2>8. k % 2 # 1 => k \div 2 = (k + 1) \div 2
    BY <1>3
  <2>9. PlainLlr(out, i) = IF k % 2 = 1
          THEN max_log_axis_llrs(out.x_hat_re[e], gamma, mod \div 2)[(k + 1) \div 2]
          ELSE max_log_axis_llrs(out.x_hat_im[e], gamma, mod \div 2)[(k + 1) \div 2]
    BY <2>2, <2>3, Zenon DEF PlainLlr, at, mod
  <2> HIDE DEF gamma, li, lq
  <2> QED
    BY <2>4, <2>6, <2>7, <2>8, <2>9
<1>5. llrs = [i \in 1 .. total_llr_count(out) |-> llrs[i]]
  BY <1>1
<1> QED
  BY <1>4, <1>5 DEF llrs

\* With the bits made beforehand the soft bits and the refusals are those of
\* the loop that makes them on the way.
LEMMA PlannedIsFused ==
  ASSUME NEW out, ViewTyped(out), NEW c_init \in Nat, NEW capacity,
         NEW bits, bits = generate_scrambling_bits(c_init, total_llr_count(out))
  PROVE  build_with_cached_bits(out, bits, capacity) =
           build_max_log_descrambled_llrs(out, c_init, capacity)
<1>1. CASE ~AcceptedView(out)
  BY <1>1 DEF build_with_cached_bits, build_max_log_descrambled_llrs
<1>2. CASE AcceptedView(out)
  <2> DEFINE plain == build_max_log_llrs(out).llrs
             n == total_llr_count(out)
             r == init_gold(c_init)
  <2>1. n \in Nat /\ Len(plain) = n /\ \E S : plain \in Seq(S)
    BY <1>2, PlainParts
  <2>2. DOMAIN plain = 1 .. n
    BY <2>1
  <2>3. r \in Registers
    BY SeedTyped
  <2> HIDE DEF r, n
  <2>4. bits = unrolled[n][r]
    BY DEF generate_scrambling_bits, n, r
  <2>5. bits = stepped[n][r] /\ Len(bits) = n
    BY <2>1, <2>3, <2>4, UnrolledIsStepped
  <2>6. bits \in Seq(Bits)
    BY <2>1, <2>3, <2>5, SteppedSamples
  <2>7. DOMAIN bits = 1 .. n
    BY <2>5, <2>6
  <2>8. descramble_llrs_inplace(plain, c_init) =
          [i \in DOMAIN plain |-> xor_sign_mask(plain[i], bits[i])]
    BY <2>1, <2>4 DEF descramble_llrs_inplace, generate_scrambling_bits, r
  <2>9. CASE capacity < n
    BY <1>2, <2>9 DEF build_with_cached_bits, build_max_log_descrambled_llrs, n
  <2>10. CASE ~(capacity < n)
    <3>1. ~(Len(bits) < n)
      BY <2>1, <2>5
    <3>2. build_with_cached_bits(out, bits, capacity) =
            [status |-> kOk, llrs |-> [i \in DOMAIN plain |-> xor_sign_mask(plain[i], bits[i])]]
      BY <1>2, <2>10, <3>1 DEF build_with_cached_bits, n
    <3>3. bits = stepped[Len(plain)][r]
      BY <2>1, <2>5
    <3>4. build_max_log_descrambled_llrs(out, c_init, capacity) =
            [status |-> kOk,
             llrs |-> IF out.mod_order = 8 THEN descramble_llrs_inplace(plain, c_init)
                      ELSE [i \in DOMAIN bits |-> xor_sign_mask(plain[i], bits[i])]]
      BY <1>2, <2>10, <3>3 DEF build_max_log_descrambled_llrs, n, r
    <3> QED
      BY <2>2, <2>7, <2>8, <3>2, <3>4
  <2> QED
    BY <2>9, <2>10
<1> QED
  BY <1>1, <1>2

-----------------------------------------------------------------------------
(* The search: PdcchSearch. *)

\* The form of a search and of its result: EXCEPT then changes a field.
SearchForm ==
  /\ DOMAIN search = {"kind", "request", "air", "n_cce", "candidates", "next", "failures"}
  /\ search.next \in Nat

IsSequence(s) == \E S : s \in Seq(S)

ResultForm(r) ==
  /\ DOMAIN r = {"candidate_count", "decoded_candidate_count", "crc_rnti_miss_count",
                 "semantic_reject_count", "hits"}
  /\ r.decoded_candidate_count \in Nat /\ r.crc_rnti_miss_count \in Nat
  /\ r.semantic_reject_count \in Nat /\ IsSequence(r.hits)

\* Each decoded candidate of a UE-specific search is counted once; it returns
\* when there are no more.
Counted ==
  search.kind = "ue" /\ returned \in {"none", "kOk"} =>
    /\ result.candidate_count = Len(search.candidates)
    /\ result.decoded_candidate_count = search.next - 1
    /\ result.decoded_candidate_count =
         result.crc_rnti_miss_count + result.semantic_reject_count + Len(result.hits)
    /\ returned = "kOk" => search.next - 1 = Len(search.candidates)

CInv ==
  /\ SearchForm /\ ResultForm(result) /\ Counted
  /\ search.kind = "none" => returned = "none"
  /\ returned \notin {"none", "kOk"} => result = NoResult

LEMMA Appended ==
  ASSUME NEW s, NEW e, IsSequence(s)
  PROVE  IsSequence(Append(s, e)) /\ Len(s) \in Nat /\ Len(Append(s, e)) = Len(s) + 1
<1>1. PICK S : s \in Seq(S)
  BY DEF IsSequence
<1> DEFINE T == S \cup {e}
<1>2. s \in Seq(T) /\ e \in T
  BY <1>1
<1> HIDE DEF T
<1> QED
  BY <1>2, AppendProperties DEF IsSequence

LEMMA EmptyForm ==
  ASSUME NEW n
  PROVE  ResultForm(NoResult) /\ ResultForm([NoResult EXCEPT !.candidate_count = n])
<1>1. IsSequence(<<>>)
  <2>1. <<>> \in Seq({})
    OBVIOUS
  <2> QED
    BY <2>1 DEF IsSequence
<1> QED
  BY <1>1 DEF ResultForm, NoResult

LEMMA EmptySearchForm == ASSUME search = NoSearch PROVE SearchForm /\ search.kind = "none"
BY DEF SearchForm, NoSearch

LEMMA CountersInit == Init => CInv
<1> SUFFICES ASSUME Init PROVE CInv
  OBVIOUS
<1>1. search = NoSearch /\ result = NoResult /\ returned = "none"
  BY DEF Init, SearchInit
<1>2. ResultForm(result)
  BY <1>1, EmptyForm
<1> QED
  BY <1>1, <1>2, EmptySearchForm DEF CInv, Counted

LEMMA BeginsCounted == ASSUME CInv, NEW s \in Searches, Begin(s) PROVE CInv'
<1>1. result' = [NoResult EXCEPT !.candidate_count = result'.candidate_count]
  BY DEF Begin, NoResult
<1>2. /\ result'.candidate_count = Len(search'.candidates)
      /\ search'.next = 1 /\ returned' = "none" /\ search'.kind = s.request.kind
  BY DEF Begin, NoResult, CInv
<1>3. SearchForm'
  BY DEF Begin, SearchForm
<1>4. ResultForm(result)'
  BY <1>1, EmptyForm
<1>5. Counted'
  BY <1>1, <1>2 DEF Counted, NoResult
<1> QED
  BY <1>2, <1>3, <1>4, <1>5, SearchKindsAssumption DEF CInv

LEMMA RefusalsCounted == ASSUME CInv, NEW s \in Searches, Refuse(s) PROVE CInv'
<1>1. /\ search'.kind = s.request.kind /\ search'.next = 1
      /\ result' = NoResult /\ returned' = "kInvalidArgument"
  BY DEF Refuse, NoSearch
<1>2. SearchForm'
  BY DEF Refuse, NoSearch, SearchForm
<1> QED
  BY <1>1, <1>2, EmptyForm, SearchKindsAssumption DEF CInv, Counted

\* The next candidate: the search keeps its form.
LEMMA Advances ==
  ASSUME CInv, Advance
  PROVE  /\ SearchForm' /\ search'.kind = search.kind /\ search'.next = search.next + 1
         /\ search'.candidates = search.candidates /\ returned' = returned
BY DEF CInv, SearchForm, Advance

LEMMA AbortsCounted ==
  ASSUME CInv, NEW status, Abort(status), search.kind # "none",
         search.kind = "ue" => status \notin {"none", "kOk"}
  PROVE  CInv'
<1>1. SearchForm' /\ search'.kind = search.kind /\ returned' = status /\ result' = NoResult
  BY DEF CInv, SearchForm, Abort
<1> QED
  BY <1>1, EmptyForm DEF CInv, Counted

\* A candidate that counts once keeps the balance.
LEMMA OneMoreCounted ==
  ASSUME CInv, Searching, Advance, ResultForm(result)',
         search.kind = "ue" =>
           /\ result'.candidate_count = result.candidate_count
           /\ result'.decoded_candidate_count = result.decoded_candidate_count + 1
           /\ result'.crc_rnti_miss_count + result'.semantic_reject_count + Len(result'.hits) =
                result.crc_rnti_miss_count + result.semantic_reject_count + Len(result.hits) + 1
  PROVE  CInv'
<1>1. /\ SearchForm' /\ search'.kind = search.kind /\ search'.next = search.next + 1
      /\ search'.candidates = search.candidates /\ returned' = "none" /\ search.kind # "none"
  BY Advances DEF Searching
<1>2. Counted'
  <2> SUFFICES ASSUME search.kind = "ue"
               PROVE  Counted'
    BY <1>1 DEF Counted
  <2>1. /\ result.candidate_count = Len(search.candidates)
        /\ result.decoded_candidate_count = search.next - 1
        /\ result.decoded_candidate_count =
             result.crc_rnti_miss_count + result.semantic_reject_count + Len(result.hits)
    BY DEF CInv, Counted, Searching
  <2>2. search.next \in Nat
    BY DEF CInv, SearchForm
  <2>3. result'.decoded_candidate_count = search'.next - 1
    BY <1>1, <2>1, <2>2
  <2>4. result'.decoded_candidate_count =
          result'.crc_rnti_miss_count + result'.semantic_reject_count + Len(result'.hits)
    BY <2>1
  <2>5. result'.candidate_count = Len(search'.candidates)
    BY <1>1, <2>1
  <2> QED
    BY <1>1, <2>3, <2>4, <2>5 DEF Counted
<1> QED
  BY <1>1, <1>2 DEF CInv

\* The counters are numbers.
LEMMA Numbers ==
  ASSUME CInv
  PROVE  /\ result.decoded_candidate_count \in Nat /\ result.crc_rnti_miss_count \in Nat
         /\ result.semantic_reject_count \in Nat /\ Len(result.hits) \in Nat
BY Appended DEF CInv, ResultForm

LEMMA MissesCounted == ASSUME CInv, Searching, miss PROVE CInv'
<1>1. Advance
  BY DEF miss
<1>2. CASE search.kind = "ue"
  <2>1. result' = [result EXCEPT !.decoded_candidate_count = @ + 1, !.crc_rnti_miss_count = @ + 1]
    BY <1>2 DEF miss
  <2>2. /\ ResultForm(result)' /\ result'.candidate_count = result.candidate_count
        /\ result'.decoded_candidate_count = result.decoded_candidate_count + 1
        /\ result'.crc_rnti_miss_count = result.crc_rnti_miss_count + 1
        /\ result'.semantic_reject_count = result.semantic_reject_count /\ result'.hits = result.hits
    BY <2>1 DEF CInv, ResultForm
  <2>3. result'.crc_rnti_miss_count + result'.semantic_reject_count + Len(result'.hits) =
          result.crc_rnti_miss_count + result.semantic_reject_count + Len(result.hits) + 1
    BY <2>2, Numbers
  <2> QED
    BY <1>1, <2>2, <2>3, OneMoreCounted
<1>3. CASE search.kind # "ue"
  <2>1. result' = result
    BY <1>3 DEF miss
  <2>2. ResultForm(result)'
    BY <2>1 DEF CInv, ResultForm
  <2> QED
    BY <1>1, <1>3, <2>2, OneMoreCounted
<1> QED
  BY <1>2, <1>3

LEMMA RejectsCounted ==
  ASSUME CInv, Searching, NEW status, reject(status)
  PROVE  CInv'
<1>1. CASE search.kind = "ue"
  <2>1. /\ result' = [result EXCEPT !.decoded_candidate_count = @ + 1, !.semantic_reject_count = @ + 1]
        /\ Advance
    BY <1>1 DEF reject
  <2>2. /\ ResultForm(result)' /\ result'.candidate_count = result.candidate_count
        /\ result'.decoded_candidate_count = result.decoded_candidate_count + 1
        /\ result'.crc_rnti_miss_count = result.crc_rnti_miss_count
        /\ result'.semantic_reject_count = result.semantic_reject_count + 1
        /\ result'.hits = result.hits
    BY <2>1 DEF CInv, ResultForm
  <2>3. result'.crc_rnti_miss_count + result'.semantic_reject_count + Len(result'.hits) =
          result.crc_rnti_miss_count + result.semantic_reject_count + Len(result.hits) + 1
    BY <2>2, Numbers
  <2> QED
    BY <2>1, <2>2, <2>3, OneMoreCounted
<1>2. CASE search.kind = "si"
  <2>1. Advance /\ result' = result
    BY <1>2 DEF reject
  <2>2. ResultForm(result)'
    BY <2>1 DEF CInv, ResultForm
  <2> QED
    BY <1>2, <2>1, <2>2, OneMoreCounted
<1>3. CASE search.kind \notin {"ue", "si"}
  <2>1. Abort(status)
    BY <1>3 DEF reject
  <2>2. search.kind # "none" /\ search.kind # "ue"
    BY <1>3 DEF Searching
  <2> QED
    BY <2>1, <2>2, AbortsCounted
<1> QED
  BY <1>1, <1>2, <1>3

LEMMA HitsCounted == ASSUME CInv, Searching, NEW h, hit(h) PROVE CInv'
<1>1. /\ IsSequence(Append(result.hits, h)) /\ Len(result.hits) \in Nat
      /\ Len(Append(result.hits, h)) = Len(result.hits) + 1
  BY Appended DEF CInv, ResultForm
<1>2. /\ ResultForm(result)' /\ result'.candidate_count = result.candidate_count
      /\ result'.crc_rnti_miss_count = result.crc_rnti_miss_count
      /\ result'.semantic_reject_count = result.semantic_reject_count
      /\ result'.hits = Append(result.hits, h)
      /\ search.kind = "ue" => result'.decoded_candidate_count = result.decoded_candidate_count + 1
  BY <1>1 DEF hit, CInv, ResultForm
<1>3. result'.crc_rnti_miss_count + result'.semantic_reject_count + Len(result'.hits) =
        result.crc_rnti_miss_count + result.semantic_reject_count + Len(result.hits) + 1
  BY <1>1, <1>2, Numbers
<1>4. Advance
  BY DEF hit
<1> QED
  BY <1>2, <1>3, <1>4, OneMoreCounted

LEMMA FailuresCounted == ASSUME CInv, DecoderFails PROVE CInv'
<1>1. PICK status \in DecoderFailures :
        IF search.kind = "si" /\ status = "kUnsupportedConfig"
        THEN /\ search' = [search EXCEPT !.next = @ + 1, !.failures = @ + 1]
             /\ UNCHANGED <<result, returned>>
        ELSE Abort(status)
  BY DEF DecoderFails
<1>2. Searching /\ status \notin {"none", "kOk"} /\ search.kind # "none"
  BY DEF DecoderFails, DecoderFailures, Searching
<1>3. CASE search.kind = "si" /\ status = "kUnsupportedConfig"
  <2>1. search' = [search EXCEPT !.next = @ + 1, !.failures = @ + 1]
    BY <1>1, <1>3
  <2>2. DOMAIN search' = DOMAIN search /\ search'.kind = search.kind /\ search'.next = search.next + 1
    BY <2>1 DEF CInv, SearchForm
  <2>3. SearchForm' /\ search'.kind = "si"
    BY <1>3, <2>2 DEF CInv, SearchForm
  <2> QED
    BY <1>1, <1>2, <1>3, <2>3 DEF CInv, Counted, Searching
<1>4. CASE ~(search.kind = "si" /\ status = "kUnsupportedConfig")
  BY <1>1, <1>2, <1>4, AbortsCounted
<1> QED
  BY <1>3, <1>4

LEMMA CandidatesCounted == ASSUME CInv, DecodeCandidate PROVE CInv'
<1> DEFINE candidate == search.candidates[search.next]
<1>1. PICK word \in Words(candidate) :
        LET verdict == Verdict(candidate, word)
        IN  \/ verdict.status # "kOk" /\ reject(verdict.status)
            \/ verdict.status = "kOk" /\ ~verdict.matched /\ miss
            \/ /\ verdict.matched
               /\ IF search.kind = "si" /\ ~SiUsable(verdict.dci) THEN Advance /\ UNCHANGED result
                  ELSE hit(HitOf(candidate, word, verdict))
  BY DEF DecodeCandidate
<1>2. Searching /\ returned = "none" /\ search.kind # "none"
  BY DEF DecodeCandidate, Searching
<1>3. ASSUME search.kind = "si", Advance, UNCHANGED result PROVE CInv'
  <2>1. ResultForm(result)'
    BY <1>3 DEF CInv, ResultForm
  <2> QED
    BY <1>2, <1>3, <2>1, OneMoreCounted
<1> QED
  BY <1>1, <1>2, <1>3, MissesCounted, RejectsCounted, HitsCounted

LEMMA FinishCounted == ASSUME CInv, Finish PROVE CInv'
BY DEF Finish, CInv, SearchForm, ResultForm, Counted

LEMMA SearchStepsCounted == ASSUME CInv, SearchNext PROVE CInv'
<1>1. ASSUME NEW s \in Searches, Begin(s) PROVE CInv'
  BY <1>1, BeginsCounted
<1>2. ASSUME NEW s \in Searches, Refuse(s) PROVE CInv'
  BY <1>2, RefusalsCounted
<1> QED
  BY <1>1, <1>2, FailuresCounted, CandidatesCounted, FinishCounted DEF SearchNext

-----------------------------------------------------------------------------
\* Every other question leaves the search as it is.
LEMMA QuestionsKeepTheSearch ==
  ASSUME \/ HandOver \/ PdschLlrs \/ ControlLlrs \/ DecodeWord \/ RecoverRate
         \/ DecodeAllocation \/ ParseDci \/ BuildLayout \/ EstimateChannel \/ EstimateNoise
         \/ EqualiseDiversity \/ EqualiseLayers \/ ReceiveDci
  PROVE  UNCHANGED searchVars
<1>1. CASE HandOver BY <1>1 DEF HandOver
<1>2. CASE PdschLlrs BY <1>2 DEF PdschLlrs
<1>3. CASE ControlLlrs BY <1>3 DEF ControlLlrs, Ask
<1>4. CASE DecodeWord BY <1>4 DEF DecodeWord, Ask
<1>5. CASE RecoverRate BY <1>5 DEF RecoverRate, Ask
<1>6. CASE DecodeAllocation BY <1>6 DEF DecodeAllocation, Ask
<1>7. CASE ParseDci BY <1>7 DEF ParseDci, Ask
<1>8. CASE BuildLayout BY <1>8 DEF BuildLayout, Ask
<1>9. CASE EstimateChannel BY <1>9 DEF EstimateChannel, Ask
<1>10. CASE EstimateNoise BY <1>10 DEF EstimateNoise, Ask
<1>11. CASE EqualiseDiversity BY <1>11 DEF EqualiseDiversity, Ask
<1>12. CASE EqualiseLayers BY <1>12 DEF EqualiseLayers, Ask
<1>13. CASE ReceiveDci BY <1>13 DEF ReceiveDci, Ask
<1> QED
  BY <1>1, <1>2, <1>3, <1>4, <1>5, <1>6, <1>7, <1>8, <1>9, <1>10, <1>11, <1>12, <1>13

LEMMA StepsCounted == CInv /\ [Next]_receiverVars => CInv'
<1> SUFFICES ASSUME CInv, [Next]_receiverVars PROVE CInv'
  OBVIOUS
<1>1. ASSUME UNCHANGED searchVars PROVE CInv'
  BY <1>1 DEF searchVars, CInv, SearchForm, ResultForm, Counted
<1>2. CASE Search
  BY <1>2, SearchStepsCounted DEF Search
<1>3. CASE NewReceiver
  <2>1. search' = NoSearch /\ result' = NoResult /\ returned' = "none"
    BY <1>3 DEF NewReceiver
  <2>2. ResultForm(result)'
    BY <2>1, EmptyForm
  <2>3. SearchForm' /\ search'.kind = "none"
    BY <2>1 DEF SearchForm, NoSearch
  <2> QED
    BY <2>1, <2>2, <2>3 DEF CInv, Counted
<1> QED
  BY <1>1, <1>2, <1>3, QuestionsKeepTheSearch DEF Next, receiverVars

\* In every UE-specific search, of whatever candidates and whatever is decoded
\* at them, each decoded candidate is a hit, a miss or a reject, and a search
\* that fails reports nothing (pdcch_module_api.h:1593).
THEOREM CandidatesAreAccountedFor == Spec => []SearchCountersAddUp
<1>1. CInv => SearchCountersAddUp
  BY DEF CInv, Counted, SearchCountersAddUp
<1> QED
  BY <1>1, CountersInit, StepsCounted, PTL DEF Spec

-----------------------------------------------------------------------------
(* PDSCH soft bits, call after call on one plan: DownlinkReceiver. *)

\* The bits of a plan are those of its seed and of its length, whatever calls
\* it has been prepared for.
PlanKept == plan.valid => plan.bits = generate_scrambling_bits(plan.c_init, plan.llr_count)

PlanInv == PlanKept /\ PlanIsTransparent

\* A prepared plan has the bits the call asks for, kept or made anew.
LEMMA PreparedForTheCall ==
  ASSUME NEW call, NEW kept,
         kept.valid => kept.bits = generate_scrambling_bits(kept.c_init, kept.llr_count)
  PROVE  LET prepared == prepare_pdsch_descrambling_plan(call, kept)
             bits == generate_scrambling_bits(pdsch_call_c_init(call), total_llr_count(call.out))
         IN  /\ prepared.bits = bits
             /\ prepared.bits = generate_scrambling_bits(prepared.c_init, prepared.llr_count)
BY DEF prepare_pdsch_descrambling_plan

\* The seed of a call is a number.
LEMMA SeedOfTheCall ==
  ASSUME NEW call \in Inputs.pdsch
  PROVE  /\ Readable(call.out) /\ ViewTyped(call.out)
         /\ pdsch_call_c_init(call) \in Nat /\ pdsch_call_c_init(call) < 2^31
<1>1. /\ Readable(call.out)
      /\ call.cell_id \in Nat /\ call.cell_id < 2^16 /\ call.rnti \in Nat /\ call.rnti < 2^16
      /\ call.sfn_subframe \in Nat /\ call.codeword \in Nat /\ call.codeword < 2^8
  BY PdschInputsAssumption
<1>2. ViewTyped(call.out)
  BY <1>1 DEF ViewTyped, Readable, Views
<1>3. call.sfn_subframe % 10 \in 0 .. 9
  BY <1>1
<1>4. 2^16 = 65536 /\ 2^8 = 256 /\ 2^14 = 16384 /\ 2^13 = 8192 /\ 2^9 = 512 /\ 2^31 = 2147483648
  OBVIOUS
<1> QED
  BY <1>1, <1>2, <1>3, <1>4 DEF pdsch_call_c_init, pdsch_c_init

LEMMA PdschCallsKeepThePlan == ASSUME PlanInv, PdschLlrs PROVE PlanInv'
<1>1. PICK call \in Inputs.pdsch :
        /\ plan' = prepare_pdsch_descrambling_plan(call, plan)
        /\ answer' = [kind |-> "pdsch", in |-> call,
                      out |-> [planned |-> build_backend_pdsch_llr_result_with_plan(call, plan),
                               fused |-> build_backend_pdsch_descrambled_llr_result(call)]]
  BY DEF PdschLlrs
<1> DEFINE bits == generate_scrambling_bits(pdsch_call_c_init(call), total_llr_count(call.out))
<1>2. /\ prepare_pdsch_descrambling_plan(call, plan).bits = bits
      /\ plan'.bits = generate_scrambling_bits(plan'.c_init, plan'.llr_count)
  BY <1>1, PreparedForTheCall DEF PlanInv, PlanKept
<1>3. build_with_cached_bits(call.out, bits, call.llr_capacity) =
        build_max_log_descrambled_llrs(call.out, pdsch_call_c_init(call), call.llr_capacity)
  BY SeedOfTheCall, PlannedIsFused
<1> HIDE DEF bits
<1>4. answer'.out.planned = answer'.out.fused
  BY <1>1, <1>2, <1>3
  DEF build_backend_pdsch_llr_result_with_plan, build_backend_pdsch_descrambled_llr_result
<1> QED
  BY <1>2, <1>4 DEF PlanInv, PlanKept, PlanIsTransparent

\* The other questions leave the plan alone and have answers of another kind.
LEMMA OtherQuestions ==
  ASSUME \/ HandOver \/ ControlLlrs \/ DecodeWord \/ RecoverRate
         \/ DecodeAllocation \/ ParseDci \/ BuildLayout \/ EstimateChannel \/ EstimateNoise
         \/ EqualiseDiversity \/ EqualiseLayers \/ ReceiveDci
  PROVE  plan' = plan /\ answer'.kind # "pdsch"
<1>1. CASE HandOver BY <1>1 DEF HandOver
<1>2. CASE ControlLlrs BY <1>2 DEF ControlLlrs, Ask
<1>3. CASE DecodeWord BY <1>3 DEF DecodeWord, Ask
<1>4. CASE RecoverRate BY <1>4 DEF RecoverRate, Ask
<1>5. CASE DecodeAllocation BY <1>5 DEF DecodeAllocation, Ask
<1>6. CASE ParseDci BY <1>6 DEF ParseDci, Ask
<1>7. CASE BuildLayout BY <1>7 DEF BuildLayout, Ask
<1>8. CASE EstimateChannel BY <1>8 DEF EstimateChannel, Ask
<1>9. CASE EstimateNoise BY <1>9 DEF EstimateNoise, Ask
<1>10. CASE EqualiseDiversity BY <1>10 DEF EqualiseDiversity, Ask
<1>11. CASE EqualiseLayers BY <1>11 DEF EqualiseLayers, Ask
<1>12. CASE ReceiveDci
  <2>1. \E in, out : Ask("candidate", in, out)
    BY <1>12, Zenon DEF ReceiveDci
  <2> QED
    BY <2>1 DEF Ask
<1> QED
  BY <1>1, <1>2, <1>3, <1>4, <1>5, <1>6, <1>7, <1>8, <1>9, <1>10, <1>11, <1>12

LEMMA StepsKeepThePlan == PlanInv /\ [Next]_receiverVars => PlanInv'
<1> SUFFICES ASSUME PlanInv, [Next]_receiverVars PROVE PlanInv'
  OBVIOUS
<1>1. CASE PdschLlrs
  BY <1>1, PdschCallsKeepThePlan
<1>2. CASE Search \/ UNCHANGED receiverVars
  <2>1. UNCHANGED <<plan, answer>>
    BY <1>2 DEF Search, receiverVars
  <2> QED
    BY <2>1 DEF PlanInv, PlanKept, PlanIsTransparent, Answered
<1>3. CASE NewReceiver
  <2>1. ~plan'.valid /\ answer'.kind # "pdsch"
    BY <1>3 DEF NewReceiver, NoPlan, NoAnswer
  <2> QED
    BY <2>1 DEF PlanInv, PlanKept, PlanIsTransparent, Answered
<1>4. CASE plan' = plan /\ answer'.kind # "pdsch"
  BY <1>4 DEF PlanInv, PlanKept, PlanIsTransparent, Answered
<1> QED
  BY <1>1, <1>2, <1>3, <1>4, OtherQuestions DEF Next

\* Whatever calls a plan has been prepared for before, a call gets the soft
\* bits, or the refusal, it would get without one (pdsch_module_api.h:10, :60).
THEOREM PlansAreTransparent == Spec => []PlanIsTransparent
<1>1. Init => PlanInv
  BY DEF Init, PlanInv, PlanKept, PlanIsTransparent, Answered, NoPlan, NoAnswer
<1>2. PlanInv => PlanIsTransparent
  BY DEF PlanInv
<1> QED
  BY <1>1, <1>2, StepsKeepThePlan, PTL DEF Spec

-----------------------------------------------------------------------------
(* Soft bits against their definition. *)

\* The definition, soft bit by soft bit.
LEMMA ReferenceByPlain ==
  ASSUME NEW out, NEW c_init
  PROVE  ReferenceLlrs(out, c_init) =
           [i \in 1 .. total_llr_count(out) |->
              IF StandardBits(c_init, total_llr_count(out))[i] = 1 THEN -PlainLlr(out, i)
              ELSE PlainLlr(out, i)]
BY Zenon DEF ReferenceLlrs, PlainLlr

\* The soft bits of an accepted view, turned by the bits the code steps through
\* or has made beforehand.
LEMMA TurnedLlrs ==
  ASSUME NEW out, Readable(out), AcceptedView(out), NEW c_init \in Nat, c_init < 2^31
  PROVE  LET plain == build_max_log_llrs(out).llrs
             bits == stepped[Len(plain)][init_gold(c_init)]
         IN  /\ ReferenceLlrs(out, c_init) = [i \in DOMAIN bits |-> xor_sign_mask(plain[i], bits[i])]
             /\ ReferenceLlrs(out, c_init) = descramble_llrs_inplace(plain, c_init)
             /\ bits = StandardBits(c_init, total_llr_count(out))
<1> DEFINE plain == build_max_log_llrs(out).llrs
           n == total_llr_count(out)
           bits == stepped[Len(plain)][init_gold(c_init)]
           value == [i \in 1 .. n |-> PlainLlr(out, i)]
<1>1. n \in Nat /\ Len(plain) = n
  BY PlainParts DEF Readable, Views, ViewTyped
<1>2. plain = value
  BY PlainLlrsAreMaxLog
<1>3. generate_scrambling_bits(c_init, n) = StandardBits(c_init, n)
  BY <1>1, ScramblingFollowsTheStandard
<1>4. bits = generate_scrambling_bits(c_init, n) /\ DOMAIN bits = 1 .. n
  <2>1. init_gold(c_init) \in Registers
    BY SeedTyped
  <2>2. bits = stepped[n][init_gold(c_init)]
    BY <1>1
  <2>3. unrolled[n][init_gold(c_init)] = stepped[n][init_gold(c_init)]
    BY <1>1, <2>1, UnrolledIsStepped
  <2>4. bits \in Seq(Bits) /\ Len(bits) = n
    BY <1>1, <2>1, <2>2, SteppedSamples
  <2> HIDE DEF bits, n
  <2> QED
    BY <2>2, <2>3, <2>4 DEF generate_scrambling_bits
<1> HIDE DEF plain, n, bits, value
<1>5. \A i \in 1 .. n : plain[i] = PlainLlr(out, i)
  BY <1>2 DEF value
<1>6. ReferenceLlrs(out, c_init) =
        [i \in 1 .. n |-> IF bits[i] = 1 THEN -PlainLlr(out, i) ELSE PlainLlr(out, i)]
  BY <1>3, <1>4, ReferenceByPlain DEF n
<1>7. ReferenceLlrs(out, c_init) = [i \in 1 .. n |-> xor_sign_mask(plain[i], bits[i])]
  BY <1>5, <1>6 DEF xor_sign_mask
<1>8. descramble_llrs_inplace(plain, c_init) = [i \in 1 .. n |-> xor_sign_mask(plain[i], bits[i])]
  <2>1. DOMAIN plain = 1 .. n
    BY <1>2 DEF value
  <2> QED
    BY <1>1, <1>4, <2>1 DEF descramble_llrs_inplace
<1>9. ReferenceLlrs(out, c_init) = [i \in DOMAIN bits |-> xor_sign_mask(plain[i], bits[i])]
  BY <1>4, <1>7
<1> QED
  BY <1>3, <1>4, <1>7, <1>8, <1>9 DEF plain, n, bits

\* The loop that descrambles on the way, whenever it does not refuse.
LEMMA FusedIsReference ==
  ASSUME NEW out, Readable(out), NEW c_init \in Nat, c_init < 2^31, NEW capacity,
         build_max_log_descrambled_llrs(out, c_init, capacity).status = kOk
  PROVE  build_max_log_descrambled_llrs(out, c_init, capacity).llrs = ReferenceLlrs(out, c_init)
<1>1. AcceptedView(out)
  BY DEF build_max_log_descrambled_llrs, Failed, kOk, kInvalidArgument
<1>2. ~(capacity < total_llr_count(out))
  BY <1>1 DEF build_max_log_descrambled_llrs, Failed, kOk, kBufferTooSmall
<1> DEFINE plain == build_max_log_llrs(out).llrs
           bits == stepped[Len(plain)][init_gold(c_init)]
<1>3. build_max_log_descrambled_llrs(out, c_init, capacity).llrs =
        IF out.mod_order = 8 THEN descramble_llrs_inplace(plain, c_init)
        ELSE [i \in DOMAIN bits |-> xor_sign_mask(plain[i], bits[i])]
  BY <1>1, <1>2 DEF build_max_log_descrambled_llrs
<1>4. /\ ReferenceLlrs(out, c_init) = [i \in DOMAIN bits |-> xor_sign_mask(plain[i], bits[i])]
      /\ ReferenceLlrs(out, c_init) = descramble_llrs_inplace(plain, c_init)
  BY <1>1, TurnedLlrs
<1> HIDE DEF plain, bits
<1> QED
  BY <1>3, <1>4

\* What the control channels are asked for: the seed fits, and the view is
\* accepted as it is.
LEMMA ControlQuestion ==
  ASSUME NEW in \in Inputs.control
  PROVE  /\ Readable(in.out) /\ AcceptedView(in.out)
         /\ in.out.n_re = Len(in.out.x_hat_re) \div in.out.n_layers /\ in.out.capacity = in.out.n_re
         /\ Len(in.out.x_hat_im) = Len(in.out.x_hat_re) /\ Len(in.out.sinr) = Len(in.out.x_hat_re)
         /\ in.channel \in {"kPbch", "kPcfich", "kPdcch"}
         /\ in.cell_id \in Nat /\ in.cell_id < 2^16 /\ in.sfn_subframe \in Nat
<1>1. /\ Readable(in.out) /\ supported_mod_order(in.out.mod_order) /\ in.out.n_layers # 0
      /\ in.out.n_re = Len(in.out.x_hat_re) \div in.out.n_layers /\ in.out.capacity = in.out.n_re
      /\ Len(in.out.x_hat_im) = Len(in.out.x_hat_re) /\ Len(in.out.sinr) = Len(in.out.x_hat_re)
      /\ in.channel \in {"kPbch", "kPcfich", "kPdcch"}
      /\ in.cell_id \in Nat /\ in.cell_id < 2^16 /\ in.sfn_subframe \in Nat
  BY ControlInputsAssumption
<1>2. in.out.capacity \in Nat /\ in.out.n_re \in Nat
  BY <1>1 DEF Readable, Views
<1>3. in.out.capacity >= in.out.n_re
  BY <1>1, <1>2
<1> QED
  BY <1>1, <1>3 DEF AcceptedView

\* The seeds of the control channels.
ControlSeed(in) ==
  CASE in.channel = "kPbch"   -> pbch_c_init(in.cell_id)
    [] in.channel = "kPcfich" -> pcfich_c_init(in.cell_id, in.sfn_subframe)
    [] in.channel = "kPdcch"  -> pdcch_c_init(in.cell_id, in.sfn_subframe)

LEMMA ControlSeeds ==
  ASSUME NEW in \in Inputs.control
  PROVE  /\ ControlSeed(in) \in Nat /\ ControlSeed(in) < 2^31
         /\ ControlSeed(in) =
              CASE in.channel = "kPbch" -> in.cell_id
                [] in.channel = "kPcfich" ->
                     ((in.sfn_subframe % 10) + 1) * (2 * in.cell_id + 1) * 2^9 + in.cell_id
                [] in.channel = "kPdcch" -> (in.sfn_subframe % 10) * 2^9 + in.cell_id
<1>1. /\ in.channel \in {"kPbch", "kPcfich", "kPdcch"}
      /\ in.cell_id \in Nat /\ in.cell_id < 2^16 /\ in.sfn_subframe \in Nat
  BY ControlQuestion
<1>2. in.sfn_subframe % 10 \in 0 .. 9
  BY <1>1
<1>3. PICK c \in Nat, s \in 0 .. 9 : c = in.cell_id /\ s = in.sfn_subframe % 10 /\ c < 65536
  <2>1. 2^16 = 65536
    OBVIOUS
  <2> QED
    BY <1>1, <1>2, <2>1
<1>4. 2^9 = 512 /\ 2^31 = 2147483648
  OBVIOUS
<1>5. /\ c < 2147483648 /\ s * 512 + c \in Nat /\ s * 512 + c < 2147483648
      /\ ((s + 1) * (2 * c + 1)) * 512 + c \in Nat
      /\ ((s + 1) * (2 * c + 1)) * 512 + c < 2147483648
  <2>1. (s + 1) * (2 * c + 1) \in Nat /\ (s + 1) * (2 * c + 1) <= 10 * (2 * c + 1)
    <3>1. PICK d \in Nat : s + d = 9
      <4>1. 9 - s \in Nat /\ s + (9 - s) = 9
        OBVIOUS
      <4> QED
        BY <4>1
    <3>2. 10 * (2 * c + 1) = (s + 1) * (2 * c + 1) + d * (2 * c + 1)
      BY <3>1
    <3>3. (s + 1) * (2 * c + 1) \in Nat /\ d * (2 * c + 1) \in Nat
      OBVIOUS
    <3> QED
      BY <3>2, <3>3
  <2>2. PICK p \in Nat : p = (s + 1) * (2 * c + 1) /\ p <= 10 * (2 * c + 1)
    BY <2>1
  <2>3. p * 512 + c < 2147483648 /\ p * 512 + c \in Nat
    BY <1>3, <2>2
  <2> QED
    BY <1>3, <2>2, <2>3
<1>6. CASE in.channel = "kPbch"
  BY <1>3, <1>4, <1>5, <1>6 DEF ControlSeed, pbch_c_init
<1>7. CASE in.channel = "kPcfich"
  BY <1>3, <1>4, <1>5, <1>7 DEF ControlSeed, pcfich_c_init
<1>8. CASE in.channel = "kPdcch"
  BY <1>3, <1>4, <1>5, <1>8 DEF ControlSeed, pdcch_c_init
<1> QED
  BY <1>1, <1>6, <1>7, <1>8

\* A view whose elements are those of its arrays is the one the demodulators make.
LEMMA MadeView ==
  ASSUME NEW out \in Views, NEW n, out.n_re = n, out.capacity = n
  PROVE  /\ [out EXCEPT !.n_re = n, !.capacity = n] = out
         /\ [out EXCEPT !.n_layers = out.n_layers, !.n_re = n, !.capacity = n] = out
BY DEF Views

LEMMA RegularIsReference ==
  ASSUME NEW in \in Inputs.control, NEW c_init \in Nat, c_init < 2^31
  PROVE  /\ make_backend_descrambled_llr_indication(in.out, c_init) = ReferenceLlrs(in.out, c_init)
         /\ in.out.mod_order = 2 /\ in.out.n_layers = 1 =>
              make_backend_td_descrambled_llr_indication(in.out, c_init) =
                make_backend_descrambled_llr_indication(in.out, c_init)
<1> DEFINE out == in.out
           n == Len(out.x_hat_re) \div out.n_layers
<1>1. /\ Readable(out) /\ AcceptedView(out) /\ out \in Views
      /\ out.n_re = n /\ out.capacity = n
      /\ Len(out.x_hat_im) = Len(out.x_hat_re) /\ Len(out.sinr) = Len(out.x_hat_re)
      /\ out.n_layers # 0
  BY ControlQuestion DEF Readable, AcceptedView
<1> HIDE DEF n
<1>2. /\ [out EXCEPT !.n_re = n, !.capacity = n] = out
      /\ [out EXCEPT !.n_layers = out.n_layers, !.n_re = n, !.capacity = n] = out
  BY <1>1, MadeView
<1>3. make_backend_descrambled_llr_indication(out, c_init) = Descrambled(out, c_init)
  BY <1>1, <1>2 DEF make_backend_descrambled_llr_indication, n
<1>4. Descrambled(out, c_init) = ReferenceLlrs(out, c_init)
  BY <1>1, TurnedLlrs DEF Descrambled
<1>5. ASSUME out.mod_order = 2, out.n_layers = 1
      PROVE  make_backend_td_descrambled_llr_indication(out, c_init) = Descrambled(out, c_init)
  <2>1. n = Len(out.x_hat_re)
    <3>1. Len(out.x_hat_re) \in Nat
      BY <1>1 DEF Views
    <3>2. \A l \in Nat : l \div 1 = l
      OBVIOUS
    <3> QED
      BY <1>5, <3>1, <3>2 DEF n
  <2> QED
    BY <1>1, <1>2, <1>5, <2>1 DEF make_backend_td_descrambled_llr_indication
<1> QED
  BY <1>3, <1>4, <1>5

\* The device's soft bits of one layer of QPSK.
LEMMA DeviceIsReference ==
  ASSUME NEW in \in Inputs.control, NEW c_init \in Nat, c_init < 2^31,
         in.out.mod_order = 2, in.out.n_layers = 1
  PROVE  pdcch_llr_descramble_kernel(in.out, c_init) = ReferenceLlrs(in.out, c_init)
<1> DEFINE out == in.out
           n == Len(out.x_hat_re)
           bits == stepped[2 * n][init_gold(c_init)]
           plain == build_max_log_llrs(out).llrs
           lane(i) == IF i % 2 = 1 THEN out.x_hat_re ELSE out.x_hat_im
           at(i) == (i + 1) \div 2
           soft(i) == -4 * Max({out.sinr[at(i)], 0}) * lane(i)[at(i)]
<1>1. /\ Readable(out) /\ AcceptedView(out) /\ out \in Views /\ n \in Nat
      /\ out.n_re = n /\ out.capacity = n
  <2>1. /\ Readable(out) /\ AcceptedView(out) /\ out.capacity = out.n_re /\ out.n_re = n \div 1
    BY ControlQuestion
  <2>2. out \in Views /\ n \in Nat
    BY <2>1 DEF Readable, Views
  <2> HIDE DEF n
  <2> QED
    BY <2>1, <2>2
<1> HIDE DEF n
<1>2. total_llr_count(out) = 2 * n
  BY <1>1 DEF total_llr_count
<1>3. plain = [i \in 1 .. 2 * n |-> PlainLlr(out, i)]
  BY <1>1, <1>2, PlainLlrsAreMaxLog
<1>4. Len(plain) = 2 * n
  BY <1>1, <1>3
<1>5. ASSUME NEW i \in 1 .. 2 * n
      PROVE  PlainLlr(out, i) = soft(i)
  <2>1. /\ at(i) \in 1 .. n /\ ((i - 1) \div 2) + 1 = at(i)
        /\ ((((i - 1) % 2) + 1) + 1) \div 2 = 1
        /\ (((i - 1) % 2) + 1) % 2 = 1 <=> i % 2 = 1
    BY <1>1
  <2> HIDE DEF at
  <2>2. elements(out)[at(i)] = at(i) /\ at(i) \in Places(out)
    <3>1. 1 \in 1 .. out.n_layers /\ at(i) \in 1 .. out.n_re
      BY <1>1, <2>1
    <3>2. /\ elements(out)[(1 - 1) * out.n_re + at(i)] = (1 - 1) * out.capacity + at(i)
          /\ elements(out) \in Seq(Places(out)) /\ Len(elements(out)) = out.n_layers * out.n_re
      BY <1>1, <3>1, WhereElementsLie DEF Readable, Views, ViewTyped
    <3>3. (1 - 1) * n + at(i) = at(i) /\ 1 * n = n
      BY <1>1, <2>1
    <3>4. elements(out)[at(i)] = at(i)
      BY <1>1, <3>2, <3>3
    <3>5. at(i) \in 1 .. Len(elements(out))
      BY <1>1, <2>1, <3>2, <3>3
    <3> QED
      BY <3>2, <3>4, <3>5
  <2>3. /\ out.x_hat_re[at(i)] \in Int /\ out.x_hat_im[at(i)] \in Int
        /\ Max({out.sinr[at(i)], 0}) \in Nat
    BY <1>1, <2>2, ElementsAreRead
  <2>4. lane(i)[at(i)] \in Int
    BY <2>3
  <2>5. max_log_axis_llrs(lane(i)[at(i)], Max({out.sinr[at(i)], 0}), 1) = << soft(i) >>
    BY <2>3, <2>4, QpskIsMaxLog
  <2> HIDE DEF soft
  <2>6. PlainLlr(out, i) = max_log_axis_llrs(lane(i)[at(i)], Max({out.sinr[at(i)], 0}), 1)[1]
    <3>1. 2 \div 2 = 1
      OBVIOUS
    <3> QED
      BY <2>1, <2>2, <3>1, Zenon DEF PlainLlr
  <2> QED
    BY <2>5, <2>6
<1>6. pdcch_llr_descramble_kernel(out, c_init) = [i \in 1 .. 2 * n |-> xor_sign_mask(soft(i), bits[i])]
  BY Zenon DEF pdcch_llr_descramble_kernel, populate_pdcch_gold_words, n
<1>7. DOMAIN bits = 1 .. 2 * n
  <2>1. init_gold(c_init) \in Registers /\ 2 * n \in Nat
    BY <1>1, SeedTyped
  <2>2. bits \in Seq(Bits) /\ Len(bits) = 2 * n
    BY <2>1, SteppedSamples
  <2> HIDE DEF bits
  <2> QED
    BY <2>2
<1>8. ReferenceLlrs(out, c_init) = [i \in DOMAIN bits |-> xor_sign_mask(plain[i], bits[i])]
  BY <1>1, <1>4, TurnedLlrs
<1> HIDE DEF bits, plain, soft
<1>9. \A i \in 1 .. 2 * n : plain[i] = soft(i)
  BY <1>3, <1>5
<1> QED
  BY <1>6, <1>7, <1>8, <1>9

-----------------------------------------------------------------------------
\* The two questions that are answered with soft bits.
LEMMA PdschAnswersAreMaxLog == ASSUME PdschLlrs PROVE LlrsAreMaxLog'
<1>1. PICK call \in Inputs.pdsch :
        answer' = [kind |-> "pdsch", in |-> call,
                   out |-> [planned |-> build_backend_pdsch_llr_result_with_plan(call, plan),
                            fused |-> build_backend_pdsch_descrambled_llr_result(call)]]
  BY DEF PdschLlrs
<1> DEFINE c_init == pdsch_call_c_init(call)
           fused == build_backend_pdsch_descrambled_llr_result(call)
<1>2. Readable(call.out) /\ c_init \in Nat /\ c_init < 2^31
  BY SeedOfTheCall
<1>3. c_init = call.rnti * 2^14 + call.codeword * 2^13 + (call.sfn_subframe % 10) * 2^9 + call.cell_id
  BY Zenon DEF pdsch_call_c_init, pdsch_c_init
<1>4. fused = build_max_log_descrambled_llrs(call.out, c_init, call.llr_capacity)
  BY DEF build_backend_pdsch_descrambled_llr_result
<1> HIDE DEF c_init, fused
<1>5. fused.status = kOk => fused.llrs = ReferenceLlrs(call.out, c_init)
  BY <1>2, <1>4, FusedIsReference
<1>6. answer'.kind = "pdsch" /\ answer'.in = call /\ answer'.out.fused = fused
  BY <1>1 DEF fused
<1>7. kOk = "kOk"
  BY DEF kOk
<1> QED
  BY <1>3, <1>5, <1>6, <1>7, Zenon DEF LlrsAreMaxLog, Answered

LEMMA ControlAnswersAreMaxLog == ASSUME ControlLlrs PROVE LlrsAreMaxLog'
<1>1. PICK in \in Inputs.control :
        Ask("control", in,
            [regular |-> make_backend_descrambled_llr_indication(in.out, ControlSeed(in)),
             diversity |-> make_backend_td_descrambled_llr_indication(in.out, ControlSeed(in)),
             device |-> IF in.channel = "kPdcch" THEN pdcch_llr_descramble_kernel(in.out, ControlSeed(in))
                        ELSE <<>>])
  BY Zenon DEF ControlLlrs, ControlSeed
<1> DEFINE c_init == ControlSeed(in)
<1>2. /\ answer'.kind = "control" /\ answer'.in = in
      /\ answer'.out.regular = make_backend_descrambled_llr_indication(in.out, c_init)
      /\ answer'.out.diversity = make_backend_td_descrambled_llr_indication(in.out, c_init)
      /\ in.channel = "kPdcch" => answer'.out.device = pdcch_llr_descramble_kernel(in.out, c_init)
  BY <1>1 DEF Ask
<1>3. /\ c_init \in Nat /\ c_init < 2^31
      /\ c_init = CASE in.channel = "kPbch" -> in.cell_id
                    [] in.channel = "kPcfich" ->
                         ((in.sfn_subframe % 10) + 1) * (2 * in.cell_id + 1) * 2^9 + in.cell_id
                    [] in.channel = "kPdcch" -> (in.sfn_subframe % 10) * 2^9 + in.cell_id
  BY ControlSeeds
<1> HIDE DEF c_init
<1>4. /\ answer'.out.regular = ReferenceLlrs(in.out, c_init)
      /\ in.out.mod_order = 2 /\ in.out.n_layers = 1 =>
           answer'.out.diversity = answer'.out.regular
  BY <1>2, <1>3, RegularIsReference
<1>5. in.out.mod_order = 2 /\ in.out.n_layers = 1 /\ in.channel = "kPdcch" =>
        answer'.out.device = answer'.out.regular
  BY <1>2, <1>3, <1>4, DeviceIsReference
<1> QED
  BY <1>2, <1>3, <1>4, <1>5, Zenon DEF LlrsAreMaxLog, Answered

\* Answers of other kinds are no soft bits.
LEMMA OtherAnswers ==
  ASSUME \/ HandOver \/ DecodeWord \/ RecoverRate
         \/ DecodeAllocation \/ ParseDci \/ BuildLayout \/ EstimateChannel \/ EstimateNoise
         \/ EqualiseDiversity \/ EqualiseLayers \/ ReceiveDci \/ NewReceiver
  PROVE  answer'.kind \notin {"pdsch", "control"}
<1>1. CASE HandOver BY <1>1 DEF HandOver
<1>2. CASE DecodeWord BY <1>2 DEF DecodeWord, Ask
<1>3. CASE RecoverRate BY <1>3 DEF RecoverRate, Ask
<1>4. CASE DecodeAllocation BY <1>4 DEF DecodeAllocation, Ask
<1>5. CASE ParseDci BY <1>5 DEF ParseDci, Ask
<1>6. CASE BuildLayout BY <1>6 DEF BuildLayout, Ask
<1>7. CASE EstimateChannel BY <1>7 DEF EstimateChannel, Ask
<1>8. CASE EstimateNoise BY <1>8 DEF EstimateNoise, Ask
<1>9. CASE EqualiseDiversity BY <1>9 DEF EqualiseDiversity, Ask
<1>10. CASE EqualiseLayers BY <1>10 DEF EqualiseLayers, Ask
<1>11. CASE ReceiveDci
  <2>1. \E in, out : Ask("candidate", in, out)
    BY <1>11, Zenon DEF ReceiveDci
  <2> QED
    BY <2>1 DEF Ask
<1>12. CASE NewReceiver BY <1>12 DEF NewReceiver, NoAnswer
<1> QED
  BY <1>1, <1>2, <1>3, <1>4, <1>5, <1>6, <1>7, <1>8, <1>9, <1>10, <1>11, <1>12

\* The soft bits of every channel, modulation, number of layers and seed are
\* the max-log soft bits of the definition, scrambled by the sequence of the
\* standard, and so are those of the device's kernel (lte_soft_demod.h:87, :99,
\* lte_descrambling.h:66, mmse_cuda_runtime.cu:742).
THEOREM SoftBitsAreTheDefinition == Spec => []LlrsAreMaxLog
<1>1. Init => LlrsAreMaxLog
  BY DEF Init, LlrsAreMaxLog, Answered, NoAnswer
<1>2. LlrsAreMaxLog /\ [Next]_receiverVars => LlrsAreMaxLog'
  <2> SUFFICES ASSUME LlrsAreMaxLog, [Next]_receiverVars PROVE LlrsAreMaxLog'
    OBVIOUS
  <2>1. CASE PdschLlrs
    BY <2>1, PdschAnswersAreMaxLog
  <2>2. CASE ControlLlrs
    BY <2>2, ControlAnswersAreMaxLog
  <2>3. CASE Search \/ UNCHANGED receiverVars
    <3>1. answer' = answer
      BY <2>3 DEF Search, receiverVars
    <3> QED
      BY <3>1, Zenon DEF LlrsAreMaxLog, Answered
  <2>4. CASE answer'.kind \notin {"pdsch", "control"}
    BY <2>4, Zenon DEF LlrsAreMaxLog, Answered
  <2> QED
    BY <2>1, <2>2, <2>3, <2>4, OtherAnswers, Zenon DEF Next
<1> QED
  BY <1>1, <1>2, PTL DEF Spec

-----------------------------------------------------------------------------
(* Sums and complex numbers: Equalisation. *)

LEMMA SumTyped == ASSUME NEW a \in Complex, NEW b \in Complex PROVE cadd(a, b) \in Complex
BY DEF cadd, Complex

\* A complex sum adds one element after the other.
LEMMA SumsInOrder ==
  ASSUME NEW n \in Nat, NEW seq \in [1 .. n -> Complex]
  PROVE  \E p \in [0 .. n -> Complex] :
           /\ p[0] = Zero
           /\ \A k \in 1 .. n : p[k] = cadd(p[k - 1], seq[k])
           /\ CSum(seq) = p[n]
<1> DEFINE F(it) == [s \in SUBSET (1 .. n) |->
                       IF s = {} THEN Zero ELSE cadd(it[s \ {Max(s)}], seq[Max(s)])]
           step == [k \in 1 .. n |-> [v \in Complex |-> cadd(v, seq[k])]]
           chosen == CHOOSE it : it = F(it)
<1>1. Zero \in Complex
  BY DEF Zero, Complex
<1>2. step \in [1 .. n -> [Complex -> Complex]]
  BY DEF cadd, Complex
<1>3. PICK it \in [SUBSET (1 .. n) -> Complex] : FoldsBy(it, n, Zero, step)
  <2> HIDE DEF step
  <2> QED
    BY <1>1, <1>2, SetFoldExists
<1>4. it = F(it)
  <2> SUFFICES ASSUME NEW s \in SUBSET (1 .. n)
               PROVE  it[s] = IF s = {} THEN Zero ELSE cadd(it[s \ {Max(s)}], seq[Max(s)])
    OBVIOUS
  <2>1. CASE s = {}
    BY <1>3, <2>1 DEF FoldsBy
  <2>2. CASE s # {}
    <3>1. Max(s) \in 1 .. n
      BY <2>2, LastOfSome
    <3>2. it[s \ {Max(s)}] \in Complex
      BY <1>3
    <3>3. it[s] = step[Max(s)][it[s \ {Max(s)}]]
      BY <1>3, <2>2 DEF FoldsBy
    <3> QED
      BY <2>2, <3>1, <3>2, <3>3
  <2> QED
    BY <2>1, <2>2
<1>5. CSum(seq) = chosen[1 .. n]
  BY DEF CSum, FoldLeft, MapThenFoldSet
<1>6. chosen = F(chosen)
  <2> HIDE DEF F
  <2> QED
    BY <1>4
<1> HIDE DEF chosen, step
<1>7. chosen[{}] = Zero
  BY <1>6
<1>8. ASSUME NEW k \in 1 .. n
      PROVE  chosen[1 .. k] = cadd(chosen[1 .. k - 1], seq[k])
  <2>1. Max(1 .. k) = k /\ (1 .. k) \ {k} = 1 .. k - 1 /\ 1 .. k # {} /\ 1 .. k \in SUBSET (1 .. n)
    <3>1. k \in Nat /\ k # 0 /\ k <= n /\ 1 \in 1 .. k
      OBVIOUS
    <3>2. 1 .. k \in SUBSET (1 .. n)
      BY <3>1
    <3> QED
      BY <3>1, <3>2, LastOfRun
  <2> QED
    BY <1>6, <2>1
<1> HIDE DEF F
<1> DEFINE p == [k \in 0 .. n |-> chosen[1 .. k]]
<1>9. p[0] = Zero /\ p[n] = CSum(seq)
  <2>1. 1 .. 0 = {}
    OBVIOUS
  <2> QED
    BY <1>5, <1>7, <2>1
<1>10. \A k \in 1 .. n : p[k] = cadd(p[k - 1], seq[k])
  BY <1>8
<1>11. \A k \in 1 .. n : chosen[1 .. k - 1] \in Complex => chosen[1 .. k] \in Complex
  BY <1>8, SumTyped
<1>12. p \in [0 .. n -> Complex]
  BY <1>1, <1>7, <1>11, FoldOfRuns
<1> QED
  BY <1>9, <1>10, <1>12

\* So does a sum of integers.
LEMMA TotalsInOrder ==
  ASSUME NEW n \in Nat, NEW seq \in [1 .. n -> Int]
  PROVE  \E p \in [0 .. n -> Int] :
           /\ p[0] = 0
           /\ \A k \in 1 .. n : p[k] = p[k - 1] + seq[k]
           /\ Total(seq) = p[n]
<1> DEFINE F(it) == [s \in SUBSET (1 .. n) |->
                       IF s = {} THEN 0 ELSE it[s \ {Max(s)}] + seq[Max(s)]]
           step == [k \in 1 .. n |-> [v \in Int |-> v + seq[k]]]
           chosen == CHOOSE it : it = F(it)
<1>1. 0 \in Int
  BY DEF Zero, Complex
<1>2. step \in [1 .. n -> [Int -> Int]]
  BY DEF cadd, Complex
<1>3. PICK it \in [SUBSET (1 .. n) -> Int] : FoldsBy(it, n, 0, step)
  <2> HIDE DEF step
  <2> QED
    BY <1>1, <1>2, SetFoldExists
<1>4. it = F(it)
  <2> SUFFICES ASSUME NEW s \in SUBSET (1 .. n)
               PROVE  it[s] = IF s = {} THEN 0 ELSE it[s \ {Max(s)}] + seq[Max(s)]
    OBVIOUS
  <2>1. CASE s = {}
    BY <1>3, <2>1 DEF FoldsBy
  <2>2. CASE s # {}
    <3>1. Max(s) \in 1 .. n
      BY <2>2, LastOfSome
    <3>2. it[s \ {Max(s)}] \in Int
      BY <1>3
    <3>3. it[s] = step[Max(s)][it[s \ {Max(s)}]]
      BY <1>3, <2>2 DEF FoldsBy
    <3> QED
      BY <2>2, <3>1, <3>2, <3>3
  <2> QED
    BY <2>1, <2>2
<1>5. Total(seq) = chosen[1 .. n]
  BY DEF Total, FoldLeft, MapThenFoldSet
<1>6. chosen = F(chosen)
  <2> HIDE DEF F
  <2> QED
    BY <1>4
<1> HIDE DEF chosen, step
<1>7. chosen[{}] = 0
  BY <1>6
<1>8. ASSUME NEW k \in 1 .. n
      PROVE  chosen[1 .. k] = chosen[1 .. k - 1] + seq[k]
  <2>1. Max(1 .. k) = k /\ (1 .. k) \ {k} = 1 .. k - 1 /\ 1 .. k # {} /\ 1 .. k \in SUBSET (1 .. n)
    <3>1. k \in Nat /\ k # 0 /\ k <= n /\ 1 \in 1 .. k
      OBVIOUS
    <3>2. 1 .. k \in SUBSET (1 .. n)
      BY <3>1
    <3> QED
      BY <3>1, <3>2, LastOfRun
  <2> QED
    BY <1>6, <2>1
<1> HIDE DEF F
<1> DEFINE p == [k \in 0 .. n |-> chosen[1 .. k]]
<1>9. p[0] = 0 /\ p[n] = Total(seq)
  <2>1. 1 .. 0 = {}
    OBVIOUS
  <2> QED
    BY <1>5, <1>7, <2>1
<1>10. \A k \in 1 .. n : p[k] = p[k - 1] + seq[k]
  BY <1>8
<1>11. \A k \in 1 .. n : chosen[1 .. k - 1] \in Int => chosen[1 .. k] \in Int
  BY <1>8
<1>12. p \in [0 .. n -> Int]
  <2>1. chosen[{}] \in Int
    BY <1>7
  <2> QED
    BY <1>11, <2>1, FoldOfRuns
<1> QED
  BY <1>9, <1>10, <1>12

LEMMA ScaleTyped == ASSUME NEW a \in Complex, NEW s \in Int PROVE cscale(a, s) \in Complex
BY DEF cscale, Complex

LEMMA DifferenceTyped == ASSUME NEW a \in Complex, NEW b \in Complex PROVE csub(a, b) \in Complex
BY DEF csub, Complex

LEMMA ProductTyped == ASSUME NEW a \in Complex, NEW b \in Complex PROVE cmul(a, b) \in Complex
BY DEF cmul, Complex

LEMMA ConjugateTyped == ASSUME NEW a \in Complex PROVE cconj(a) \in Complex /\ cconj(cconj(a)) = a
BY DEF cconj, Complex

LEMMA SquareTyped == ASSUME NEW x \in Int PROVE x * x \in Nat /\ (x * x = 0 => x = 0)
<1>1. CASE x >= 0 BY <1>1
<1>2. CASE x < 0 BY <1>2
<1> QED BY <1>1, <1>2

LEMMA PowerTyped == ASSUME NEW a \in Complex PROVE cnorm2(a) \in Nat /\ (cnorm2(a) = 0 => a = Zero)
<1>1. PICK x, y \in Int : a = <<x, y>>
  BY DEF Complex
<1>2. x * x \in Nat /\ (x * x = 0 => x = 0) /\ y * y \in Nat /\ (y * y = 0 => y = 0)
  BY SquareTyped
<1>3. cnorm2(a) = x * x + y * y
  BY <1>1 DEF cnorm2
<1> QED
  BY <1>1, <1>2, <1>3 DEF Zero

IsPartial(p, a, b, m) ==
  /\ p \in [0 .. m -> Complex] /\ p[0] = Zero
  /\ \A k \in 1 .. m : p[k] = cadd(p[k - 1], cmul(cconj(a[k]), b[k]))

LEMMA InnerInOrder ==
  ASSUME NEW m \in Nat, NEW a \in [1 .. m -> Complex], NEW b \in [1 .. m -> Complex]
  PROVE  \E p : IsPartial(p, a, b, m) /\ Inner(a, b) = p[m]
<1> DEFINE seq == [k \in 1 .. m |-> cmul(cconj(a[k]), b[k])]
<1>1. seq \in [1 .. m -> Complex]
  BY ProductTyped, ConjugateTyped
<1>2. \A k \in 1 .. m : seq[k] = cmul(cconj(a[k]), b[k])
  OBVIOUS
<1>3. Inner(a, b) = CSum(seq)
  BY DEF Inner
<1> HIDE DEF seq
<1>4. PICK p \in [0 .. m -> Complex] :
        p[0] = Zero /\ (\A k \in 1 .. m : p[k] = cadd(p[k - 1], seq[k])) /\ CSum(seq) = p[m]
  BY <1>1, SumsInOrder
<1> QED
  BY <1>2, <1>3, <1>4 DEF IsPartial

\* What every step of a run keeps holds at its end.
LEMMA AlongTheRun ==
  ASSUME NEW m \in Nat, NEW T, 0 \in T, \A k \in 1 .. m : k - 1 \in T => k \in T
  PROVE  m \in T
<1> DEFINE U == {k \in Nat : k <= m => k \in T}
<1>1. 0 \in U
  OBVIOUS
<1>2. ASSUME NEW k \in Nat, k \in U PROVE k + 1 \in U
  <2> SUFFICES ASSUME k + 1 <= m PROVE k + 1 \in T
    OBVIOUS
  <2>1. k \in T /\ k + 1 \in 1 .. m /\ (k + 1) - 1 = k
    BY <1>2
  <2> QED
    BY <2>1
<1> HIDE DEF U
<1>3. m \in U
  BY <1>1, <1>2, NumberByNumber
<1> QED
  BY <1>3 DEF U

LEMMA OneTermMore ==
  ASSUME NEW p \in Complex, NEW q \in Complex, NEW a \in Complex, NEW b \in Complex, q = cconj(p)
  PROVE  cadd(q, cmul(cconj(b), a)) = cconj(cadd(p, cmul(cconj(a), b)))
BY DEF cadd, cmul, cconj, Complex

LEMMA InnerConjugated ==
  ASSUME NEW m \in Nat, NEW a \in [1 .. m -> Complex], NEW b \in [1 .. m -> Complex]
  PROVE  Inner(a, b) \in Complex /\ Inner(b, a) = cconj(Inner(a, b))
<1>1. PICK p : IsPartial(p, a, b, m) /\ Inner(a, b) = p[m]
  BY InnerInOrder
<1>2. PICK q : IsPartial(q, b, a, m) /\ Inner(b, a) = q[m]
  BY InnerInOrder
<1> DEFINE T == {k \in 0 .. m : q[k] = cconj(p[k])}
<1>3. 0 \in T
  BY <1>1, <1>2 DEF IsPartial, cconj, Zero
<1>4. ASSUME NEW k \in 1 .. m, k - 1 \in T
      PROVE  k \in T
  <2>1. p[k - 1] \in Complex /\ q[k - 1] \in Complex /\ q[k - 1] = cconj(p[k - 1])
    BY <1>1, <1>2, <1>4 DEF IsPartial
  <2>2. p[k] = cadd(p[k - 1], cmul(cconj(a[k]), b[k])) /\ q[k] = cadd(q[k - 1], cmul(cconj(b[k]), a[k]))
    BY <1>1, <1>2 DEF IsPartial
  <2> QED
    BY <2>1, <2>2, OneTermMore
<1> HIDE DEF T
<1>5. m \in T
  BY <1>3, <1>4, AlongTheRun
<1> QED
  BY <1>1, <1>2, <1>5 DEF T, IsPartial

LEMMA OnePowerMore ==
  ASSUME NEW p \in Complex, NEW a \in Complex, p[2] = 0, p[1] \in Nat
  PROVE  /\ cadd(p, cmul(cconj(a), a))[2] = 0 /\ cadd(p, cmul(cconj(a), a))[1] = p[1] + cnorm2(a)
         /\ p[1] + cnorm2(a) \in Nat
<1>1. cnorm2(a) \in Nat
  BY PowerTyped
<1>2. cadd(p, cmul(cconj(a), a))[2] = 0 /\ cadd(p, cmul(cconj(a), a))[1] = p[1] + cnorm2(a)
  BY DEF cadd, cmul, cconj, cnorm2, Complex
<1> QED
  BY <1>1, <1>2

LEMMA InnerOfItself ==
  ASSUME NEW m \in Nat, NEW a \in [1 .. m -> Complex]
  PROVE  Norm2(a) \in Nat /\ Inner(a, a) = <<Norm2(a), 0>>
<1>1. PICK p : IsPartial(p, a, a, m) /\ Inner(a, a) = p[m]
  BY InnerInOrder
<1> DEFINE T == {k \in 0 .. m : p[k][2] = 0 /\ p[k][1] \in Nat}
<1>2. 0 \in T
  BY <1>1 DEF IsPartial, Zero
<1>3. ASSUME NEW k \in 1 .. m, k - 1 \in T
      PROVE  k \in T
  <2>1. p[k - 1] \in Complex /\ p[k - 1][2] = 0 /\ p[k - 1][1] \in Nat
    BY <1>1, <1>3 DEF IsPartial
  <2>2. p[k] = cadd(p[k - 1], cmul(cconj(a[k]), a[k]))
    BY <1>1 DEF IsPartial
  <2> QED
    BY <2>1, <2>2, OnePowerMore
<1> HIDE DEF T
<1>4. m \in T
  BY <1>2, <1>3, AlongTheRun
<1>5. p[m] \in Complex /\ p[m][2] = 0 /\ p[m][1] \in Nat
  BY <1>1, <1>4 DEF T, IsPartial
<1> QED
  BY <1>1, <1>5 DEF Norm2, Complex

\* Observations that mix two columns by two symbols.
Mixes(obs, a, b, s, t, m) ==
  obs \in [1 .. m -> Complex] /\ \A k \in 1 .. m : obs[k] = cadd(cmul(a[k], s), cmul(b[k], t))

\* The inner products up to some row, with the entries of the next.
MixedSoFar(n, c, z, a, b, s, t) ==
  /\ n \in Complex /\ c \in Complex /\ z \in Complex /\ a \in Complex /\ b \in Complex /\ s \in Complex /\ t \in Complex
  /\ z = cadd(cmul(n, s), cmul(c, t))

LEMMA OneMixMore ==
  ASSUME NEW n, NEW c, NEW z, NEW a, NEW b, NEW s, NEW t, MixedSoFar(n, c, z, a, b, s, t)
  PROVE  cadd(z, cmul(cconj(a), cadd(cmul(a, s), cmul(b, t))))
           = cadd(cmul(cadd(n, cmul(cconj(a), a)), s), cmul(cadd(c, cmul(cconj(a), b)), t))
BY DEF MixedSoFar, cadd, cmul, cconj, Complex

LEMMA InnerOfMix ==
  ASSUME NEW m \in Nat, NEW a \in [1 .. m -> Complex], NEW b \in [1 .. m -> Complex], NEW s \in Complex, NEW t \in Complex,
         NEW obs, Mixes(obs, a, b, s, t, m)
  PROVE  Inner(a, obs) = cadd(cscale(s, Norm2(a)), cmul(Inner(a, b), t))
<1>1. PICK p : IsPartial(p, a, b, m) /\ Inner(a, b) = p[m]
  BY InnerInOrder
<1>2. PICK n : IsPartial(n, a, a, m) /\ Inner(a, a) = n[m]
  BY InnerInOrder
<1>3. PICK z : IsPartial(z, a, obs, m) /\ Inner(a, obs) = z[m]
  BY InnerInOrder DEF Mixes
<1> DEFINE T == {k \in 0 .. m : z[k] = cadd(cmul(n[k], s), cmul(p[k], t))}
<1>4. 0 \in T
  BY <1>1, <1>2, <1>3 DEF IsPartial, Zero, cadd, cmul, Complex
<1>5. ASSUME NEW k \in 1 .. m, k - 1 \in T
      PROVE  k \in T
  <2>1. /\ p[k - 1] \in Complex /\ n[k - 1] \in Complex /\ z[k - 1] \in Complex
        /\ z[k - 1] = cadd(cmul(n[k - 1], s), cmul(p[k - 1], t))
    BY <1>1, <1>2, <1>3, <1>5 DEF IsPartial
  <2>2. /\ p[k] = cadd(p[k - 1], cmul(cconj(a[k]), b[k])) /\ n[k] = cadd(n[k - 1], cmul(cconj(a[k]), a[k]))
        /\ z[k] = cadd(z[k - 1], cmul(cconj(a[k]), obs[k])) /\ obs[k] = cadd(cmul(a[k], s), cmul(b[k], t))
    BY <1>1, <1>2, <1>3 DEF IsPartial, Mixes
  <2>3. a[k] \in Complex /\ b[k] \in Complex
    OBVIOUS
  <2>4. z[k] = cadd(cmul(n[k], s), cmul(p[k], t))
    <3>1. MixedSoFar(n[k - 1], p[k - 1], z[k - 1], a[k], b[k], s, t)
      BY <2>1, <2>3 DEF MixedSoFar
    <3> QED
      BY <2>2, <3>1, OneMixMore
  <2> QED
    BY <2>4
<1> HIDE DEF T
<1>6. m \in T
  BY <1>4, <1>5, AlongTheRun
<1>7. Norm2(a) \in Nat /\ Inner(a, a) = <<Norm2(a), 0>>
  BY InnerOfItself
<1>8. cmul(<<Norm2(a), 0>>, s) = cscale(s, Norm2(a))
  BY <1>7 DEF cmul, cscale, Complex
<1> QED
  BY <1>1, <1>2, <1>3, <1>6, <1>7, <1>8 DEF T

\* The other way round.
LEMMA MixesSwap ==
  ASSUME NEW m \in Nat, NEW a \in [1 .. m -> Complex], NEW b \in [1 .. m -> Complex], NEW s \in Complex, NEW t \in Complex,
         NEW obs, Mixes(obs, a, b, s, t, m)
  PROVE  Mixes(obs, b, a, t, s, m)
<1>1. \A x, y \in Complex : cadd(x, y) = cadd(y, x)
  BY DEF cadd, Complex
<1> QED
  BY <1>1, ProductTyped DEF Mixes

\* An observation that is one in one row and zero in the others.
UnitAt(j, m) == [k \in 1 .. m |-> IF k = j THEN <<1, 0>> ELSE Zero]

LEMMA InnerOfUnit ==
  ASSUME NEW m \in Nat, NEW a \in [1 .. m -> Complex], NEW j \in 1 .. m
  PROVE  Inner(a, UnitAt(j, m)) = cconj(a[j])
<1> DEFINE e == UnitAt(j, m)
<1>1. e \in [1 .. m -> Complex] /\ \A k \in 1 .. m : e[k] = IF k = j THEN <<1, 0>> ELSE Zero
  BY DEF UnitAt, Complex, Zero
<1> HIDE DEF e
<1>2. PICK p : IsPartial(p, a, e, m) /\ Inner(a, e) = p[m]
  BY <1>1, InnerInOrder
<1> DEFINE T == {k \in 0 .. m : p[k] = IF k < j THEN Zero ELSE cconj(a[j])}
<1>3. 0 \in T
  BY <1>2 DEF IsPartial
<1>4. ASSUME NEW k \in 1 .. m, k - 1 \in T
      PROVE  k \in T
  <2>1. p[k - 1] = (IF k - 1 < j THEN Zero ELSE cconj(a[j])) /\ k \in 0 .. m
    BY <1>4
  <2>2. p[k] = cadd(p[k - 1], cmul(cconj(a[k]), e[k]))
    BY <1>2 DEF IsPartial
  <2>3. \A x \in Complex : cmul(x, Zero) = Zero /\ cadd(x, Zero) = x /\ cadd(Zero, cmul(x, <<1, 0>>)) = x
    BY DEF cmul, cadd, Zero, Complex
  <2>4. cconj(a[k]) \in Complex /\ cconj(a[j]) \in Complex /\ Zero \in Complex
    BY ConjugateTyped DEF Zero, Complex
  <2>5. CASE k < j
    <3>1. p[k - 1] = Zero /\ e[k] = Zero
      BY <1>1, <2>1, <2>5
    <3>2. p[k] = Zero
      BY <2>2, <2>3, <2>4, <3>1
    <3> QED
      BY <2>1, <2>5, <3>2
  <2>6. CASE k = j
    <3>1. p[k - 1] = Zero /\ e[k] = <<1, 0>>
      BY <1>1, <2>1, <2>6
    <3>2. p[k] = cconj(a[j])
      BY <2>2, <2>3, <2>4, <2>6, <3>1
    <3> QED
      BY <2>1, <2>6, <3>2
  <2>7. CASE k > j
    <3>1. p[k - 1] = cconj(a[j]) /\ e[k] = Zero
      BY <1>1, <2>1, <2>7
    <3>2. p[k] = cconj(a[j])
      BY <2>2, <2>3, <2>4, <3>1
    <3> QED
      BY <2>1, <2>7, <3>2
  <2> QED
    BY <2>5, <2>6, <2>7
<1> HIDE DEF T
<1>5. m \in T
  BY <1>3, <1>4, AlongTheRun
<1> QED
  BY <1>2, <1>5 DEF T, e

\* The noise that is left when row k alone hears one unit of it.
Left(a, b, A, c, k) == csub(cscale(cconj(a[k]), A), cmul(c, cconj(b[k])))
LeftPower(a, b, A, c, m) == [k \in 1 .. m |-> cnorm2(Left(a, b, A, c, k))]

LeftSoFar(w, n, l, p, a, b, c, A) ==
  /\ w \in Int /\ n \in Complex /\ l \in Complex /\ p \in Complex /\ a \in Complex /\ b \in Complex /\ c \in Complex /\ A \in Int
  /\ w = A * A * n[1] - 2 * A * cmul(cconj(c), p)[1] + cnorm2(c) * l[1]

LEMMA OneNoiseMore ==
  ASSUME NEW w, NEW n, NEW l, NEW p, NEW a, NEW b, NEW c, NEW A, LeftSoFar(w, n, l, p, a, b, c, A)
  PROVE  w + cnorm2(csub(cscale(cconj(a), A), cmul(c, cconj(b))))
           = A * A * cadd(n, cmul(cconj(a), a))[1] - 2 * A * cmul(cconj(c), cadd(p, cmul(cconj(a), b)))[1]
               + cnorm2(c) * cadd(l, cmul(cconj(b), b))[1]
BY DEF LeftSoFar, cadd, csub, cscale, cmul, cconj, cnorm2, Complex

LEMMA NoiseLeft ==
  ASSUME NEW m \in Nat, NEW a \in [1 .. m -> Complex], NEW b \in [1 .. m -> Complex], NEW c \in Complex, NEW A \in Int
  PROVE  /\ LeftPower(a, b, A, c, m) \in [1 .. m -> Int]
         /\ Total(LeftPower(a, b, A, c, m)) =
              A * A * Norm2(a) - 2 * A * cmul(cconj(c), Inner(a, b))[1] + cnorm2(c) * Norm2(b)
         /\ Total(LeftPower(a, b, A, c, m)) \in Nat
<1> DEFINE f == LeftPower(a, b, A, c, m)
<1>1. \A k \in 1 .. m : f[k] = cnorm2(csub(cscale(cconj(a[k]), A), cmul(c, cconj(b[k])))) /\ f[k] \in Nat
  BY PowerTyped, DifferenceTyped, ScaleTyped, ConjugateTyped, ProductTyped DEF LeftPower, Left
<1>2. f \in [1 .. m -> Int]
  BY <1>1 DEF LeftPower
<1> HIDE DEF f
<1>3. PICK w \in [0 .. m -> Int] : w[0] = 0 /\ (\A k \in 1 .. m : w[k] = w[k - 1] + f[k]) /\ Total(f) = w[m]
  BY <1>2, TotalsInOrder
<1>4. PICK p : IsPartial(p, a, b, m) /\ Inner(a, b) = p[m]
  BY InnerInOrder
<1>5. PICK n : IsPartial(n, a, a, m) /\ Inner(a, a) = n[m]
  BY InnerInOrder
<1>6. PICK l : IsPartial(l, b, b, m) /\ Inner(b, b) = l[m]
  BY InnerInOrder
<1> DEFINE T == {k \in 0 .. m : w[k] \in Nat /\
                   w[k] = A * A * n[k][1] - 2 * A * cmul(cconj(c), p[k])[1] + cnorm2(c) * l[k][1]}
<1>7. 0 \in T
  <2>1. cmul(cconj(c), Zero)[1] = 0 /\ Zero[1] = 0 /\ cnorm2(c) \in Nat
    BY PowerTyped DEF cmul, cconj, Zero, Complex
  <2>2. A * A * 0 - 2 * A * 0 + cnorm2(c) * 0 = 0
    BY <2>1
  <2>3. n[0] = Zero /\ p[0] = Zero /\ l[0] = Zero /\ w[0] = 0
    BY <1>3, <1>4, <1>5, <1>6 DEF IsPartial
  <2>4. w[0] = A * A * n[0][1] - 2 * A * cmul(cconj(c), p[0])[1] + cnorm2(c) * l[0][1]
    <3> DEFINE x == cnorm2(c)
               y == cmul(cconj(c), Zero)[1]
               z == Zero[1]
    <3>1. y = 0 /\ z = 0 /\ x \in Nat
      BY <2>1
    <3> HIDE DEF x, y, z
    <3>2. A * A * z - 2 * A * y + x * z = 0
      BY <3>1
    <3> QED
      BY <2>3, <3>2 DEF x, y, z
  <2> QED
    BY <2>3, <2>4
<1>8. ASSUME NEW k \in 1 .. m, k - 1 \in T
      PROVE  k \in T
  <2>1. /\ p[k - 1] \in Complex /\ n[k - 1] \in Complex /\ l[k - 1] \in Complex /\ w[k - 1] \in Nat
        /\ w[k - 1] = A * A * n[k - 1][1] - 2 * A * cmul(cconj(c), p[k - 1])[1] + cnorm2(c) * l[k - 1][1]
    BY <1>4, <1>5, <1>6, <1>8 DEF IsPartial
  <2>2. /\ p[k] = cadd(p[k - 1], cmul(cconj(a[k]), b[k])) /\ n[k] = cadd(n[k - 1], cmul(cconj(a[k]), a[k]))
        /\ l[k] = cadd(l[k - 1], cmul(cconj(b[k]), b[k])) /\ a[k] \in Complex /\ b[k] \in Complex
    BY <1>4, <1>5, <1>6 DEF IsPartial
  <2>3. w[k] = w[k - 1] + cnorm2(csub(cscale(cconj(a[k]), A), cmul(c, cconj(b[k])))) /\ f[k] \in Nat
        /\ w[k] = w[k - 1] + f[k]
    BY <1>1, <1>3
  <2>4. w[k] = A * A * n[k][1] - 2 * A * cmul(cconj(c), p[k])[1] + cnorm2(c) * l[k][1]
    <3>1. w[k - 1] \in Int
      BY <2>1
    <3> QED
      <4>1. LeftSoFar(w[k - 1], n[k - 1], l[k - 1], p[k - 1], a[k], b[k], c, A)
        BY <2>1, <2>2, <3>1 DEF LeftSoFar
      <4> QED
        BY <2>2, <2>3, <4>1, OneNoiseMore
  <2>5. w[k] \in Nat /\ k \in 0 .. m
    BY <2>1, <2>3
  <2> QED
    BY <2>4, <2>5
<1> HIDE DEF T
<1>9. m \in T
  BY <1>7, <1>8, AlongTheRun
<1>10. Total(f) \in Nat /\ Total(f) = A * A * Inner(a, a)[1] - 2 * A * cmul(cconj(c), Inner(a, b))[1] + cnorm2(c) * Inner(b, b)[1]
  BY <1>3, <1>4, <1>5, <1>6, <1>9 DEF T
<1> QED
  BY <1>2, <1>10 DEF Norm2, f

LEMMA NothingAdded == ASSUME NEW a \in Complex PROVE cadd(Zero, cmul(cconj(a), Zero)) = Zero
BY DEF cadd, cmul, cconj, Zero, Complex

\* A column without power is orthogonal to every other.
LEMMA EmptyColumn ==
  ASSUME NEW m \in Nat, NEW a \in [1 .. m -> Complex], NEW b \in [1 .. m -> Complex], Norm2(b) = 0
  PROVE  Inner(a, b) = Zero
<1>1. PICK p : IsPartial(p, a, b, m) /\ Inner(a, b) = p[m]
  BY InnerInOrder
<1>2. PICK l : IsPartial(l, b, b, m) /\ Inner(b, b) = l[m]
  BY InnerInOrder
<1> DEFINE T == {k \in 0 .. m : l[k][2] = 0 /\ l[k][1] \in Nat /\ (l[k][1] = 0 => p[k] = Zero)}
<1>3. 0 \in T
  BY <1>1, <1>2 DEF IsPartial, Zero
<1>4. ASSUME NEW k \in 1 .. m, k - 1 \in T
      PROVE  k \in T
  <2>1. /\ p[k - 1] \in Complex /\ l[k - 1] \in Complex /\ l[k - 1][2] = 0 /\ l[k - 1][1] \in Nat
        /\ (l[k - 1][1] = 0 => p[k - 1] = Zero)
    BY <1>1, <1>2, <1>4 DEF IsPartial
  <2>2. /\ p[k] = cadd(p[k - 1], cmul(cconj(a[k]), b[k])) /\ l[k] = cadd(l[k - 1], cmul(cconj(b[k]), b[k]))
        /\ a[k] \in Complex /\ b[k] \in Complex /\ k \in 0 .. m
    BY <1>1, <1>2 DEF IsPartial
  <2>3. /\ l[k][2] = 0 /\ l[k][1] = l[k - 1][1] + cnorm2(b[k]) /\ l[k][1] \in Nat
        /\ cnorm2(b[k]) \in Nat /\ (cnorm2(b[k]) = 0 => b[k] = Zero)
    <3>1. cnorm2(b[k]) \in Nat /\ (cnorm2(b[k]) = 0 => b[k] = Zero)
      BY <2>2, PowerTyped
    <3>2. l[k][2] = 0 /\ l[k][1] = l[k - 1][1] + cnorm2(b[k]) /\ l[k - 1][1] + cnorm2(b[k]) \in Nat
      <4>1. PICK x \in Complex : x = l[k - 1]
        BY <2>1
      <4>2. PICK y \in Complex : y = b[k]
        BY <2>2
      <4>3. x[2] = 0 /\ x[1] \in Nat /\ l[k] = cadd(x, cmul(cconj(y), y))
        BY <2>1, <2>2, <4>1, <4>2
      <4> QED
        BY <4>1, <4>2, <4>3, OnePowerMore
    <3> QED
      BY <3>1, <3>2
  <2>4. ASSUME l[k][1] = 0 PROVE p[k] = Zero
    <3>1. l[k - 1][1] = 0 /\ cnorm2(b[k]) = 0
      BY <2>1, <2>3, <2>4
    <3>2. p[k - 1] = Zero /\ b[k] = Zero
      BY <2>1, <2>3, <3>1
    <3>3. cadd(Zero, cmul(cconj(a[k]), Zero)) = Zero
      BY <2>2, NothingAdded
    <3> QED
      BY <2>2, <3>2, <3>3
  <2> QED
    BY <2>2, <2>3, <2>4
<1> HIDE DEF T
<1>5. m \in T
  BY <1>3, <1>4, AlongTheRun
<1>6. l[m][1] = 0
  BY <1>2 DEF Norm2
<1> QED
  BY <1>1, <1>5, <1>6 DEF T

\* Independent columns have a positive determinant.
LEMMA DeterminantPositive ==
  ASSUME NEW m \in Nat, NEW a \in [1 .. m -> Complex], NEW b \in [1 .. m -> Complex], Independent(a, b)
  PROVE  Norm2(a) * Norm2(b) - cnorm2(Inner(a, b)) > 0
<1> DEFINE N == Norm2(a)
           M == Norm2(b)
           c == Inner(a, b)
<1>1. N \in Nat /\ M \in Nat /\ c \in Complex /\ cnorm2(c) \in Nat
  BY InnerOfItself, InnerConjugated, PowerTyped
<1>2. M # 0
  <2>1. ASSUME M = 0 PROVE FALSE
    <3>1. c = Zero
      BY <2>1, EmptyColumn
    <3>2. cnorm2(Zero) = 0 /\ N * 0 = 0
      BY <1>1 DEF cnorm2, Zero
    <3> QED
      BY <2>1, <3>1, <3>2 DEF Independent
  <2> QED
    BY <2>1
<1>3. M * M * N - 2 * M * cmul(cconj(c), c)[1] + cnorm2(c) * M \in Nat
  <2> HIDE DEF c, N
  <2>1. M \in Int /\ c \in Complex
    BY <1>1
  <2> HIDE DEF M
  <2>2. Total(LeftPower(a, b, M, c, m)) \in Nat
    BY <2>1, NoiseLeft
  <2>3. Total(LeftPower(a, b, M, c, m)) = M * M * Norm2(a) - 2 * M * cmul(cconj(c), Inner(a, b))[1] + cnorm2(c) * Norm2(b)
    BY <2>1, NoiseLeft
  <2> QED
    BY <2>2, <2>3 DEF M, N, c
<1>4. cmul(cconj(c), c)[1] = cnorm2(c)
  BY <1>1 DEF cmul, cconj, cnorm2, Complex
<1>5. N * M - cnorm2(c) # 0
  BY <1>1 DEF Independent
<1> HIDE DEF N, M, c
<1>6. PICK x \in Int : x = cnorm2(c)
  BY <1>1
<1>7. M * M * N - 2 * M * x + x * M = M * (N * M - x)
  BY <1>1
<1>8. M * (N * M - x) \in Nat
  BY <1>3, <1>4, <1>6, <1>7
<1>9. PICK d \in Int : d = N * M - x
  BY <1>1, <1>6
<1>10. d >= 0
  <2>1. ASSUME d < 0 PROVE FALSE
    <3>1. M * d < 0
      BY <1>1, <1>2, <2>1
    <3> QED
      BY <1>8, <1>9, <3>1
  <2> QED
    BY <2>1
<1>11. N * M - cnorm2(c) > 0
  BY <1>5, <1>6, <1>9, <1>10
<1> QED
  BY <1>11 DEF N, M, c

-----------------------------------------------------------------------------
(* One symbol of a system of two columns. *)

\* One symbol of a system of two columns, as both equalisers compute it.
Own(a, b, obs, v) ==
  LET A == Norm2(b) + v
      c == Inner(a, b)
      g == (Norm2(a) + v) * A - cnorm2(c) - v * A
  IN  Symbol(csub(cscale(Inner(a, obs), A), cmul(c, Inner(b, obs))), g, g, v * A)

Gain(a, b, v) == Norm2(a) * (Norm2(b) + v) - cnorm2(Inner(a, b))

LEMMA GainOfOwn ==
  ASSUME NEW N \in Int, NEW M \in Int, NEW x \in Int, NEW v \in Int
  PROVE  (N + v) * (M + v) - x - v * (M + v) = N * (M + v) - x
OBVIOUS

LEMMA OneOfTwo ==
  ASSUME NEW c \in Complex, NEW s \in Complex, NEW t \in Complex, NEW N \in Int, NEW M \in Int, NEW v \in Int
  PROVE  csub(cscale(cadd(cscale(s, N), cmul(c, t)), M + v),
              cmul(c, cadd(cscale(t, M), cmul(cconj(c), s))))
           = cadd(cscale(s, N * (M + v) - cnorm2(c)), cscale(cmul(c, t), v))
BY DEF cadd, csub, cscale, cmul, cconj, cnorm2, Complex

LEMMA OwnOfMix ==
  ASSUME NEW m \in Nat, NEW a \in [1 .. m -> Complex], NEW b \in [1 .. m -> Complex], NEW s \in Complex, NEW t \in Complex,
         NEW v \in Nat, NEW obs, Mixes(obs, a, b, s, t, m)
  PROVE  Own(a, b, obs, v) =
           Symbol(cadd(cscale(s, Gain(a, b, v)), cscale(cmul(Inner(a, b), t), v)),
                  Gain(a, b, v), Gain(a, b, v), v * (Norm2(b) + v))
<1>1. Norm2(a) \in Int /\ Norm2(b) \in Int /\ Inner(a, b) \in Complex /\ cnorm2(Inner(a, b)) \in Int /\ v \in Int
  BY InnerOfItself, InnerConjugated, PowerTyped
<1>2. Inner(a, obs) = cadd(cscale(s, Norm2(a)), cmul(Inner(a, b), t))
  BY InnerOfMix
<1>3. Inner(b, obs) = cadd(cscale(t, Norm2(b)), cmul(cconj(Inner(a, b)), s))
  <2>1. Mixes(obs, b, a, t, s, m)
    BY MixesSwap
  <2>2. Inner(b, a) = cconj(Inner(a, b))
    BY InnerConjugated
  <2> QED
    BY <2>1, <2>2, InnerOfMix
<1>4. (Norm2(a) + v) * (Norm2(b) + v) - cnorm2(Inner(a, b)) - v * (Norm2(b) + v) = Gain(a, b, v)
  BY <1>1, GainOfOwn DEF Gain
<1>5. csub(cscale(Inner(a, obs), Norm2(b) + v), cmul(Inner(a, b), Inner(b, obs)))
        = cadd(cscale(s, Gain(a, b, v)), cscale(cmul(Inner(a, b), t), v))
  BY <1>1, <1>2, <1>3, OneOfTwo DEF Gain
<1> QED
  BY <1>4, <1>5 DEF Own

LEMMA OwnOfUnit ==
  ASSUME NEW m \in Nat, NEW a \in [1 .. m -> Complex], NEW b \in [1 .. m -> Complex], NEW v \in Nat, NEW j \in 1 .. m
  PROVE  Own(a, b, UnitAt(j, m), v).xhat.num = Left(a, b, Norm2(b) + v, Inner(a, b), j)
BY InnerOfUnit DEF Own, Symbol, Left

LEMMA GainPositive ==
  ASSUME NEW m \in Nat, NEW a \in [1 .. m -> Complex], NEW b \in [1 .. m -> Complex], NEW v \in Nat, Independent(a, b)
  PROVE  Gain(a, b, v) \in Int /\ Gain(a, b, v) > 0
<1>1. Norm2(a) \in Nat /\ Norm2(b) \in Nat /\ cnorm2(Inner(a, b)) \in Nat
  BY InnerOfItself, InnerConjugated, PowerTyped
<1>2. Norm2(a) * Norm2(b) - cnorm2(Inner(a, b)) > 0
  BY DeterminantPositive
<1>3. PICK N \in Nat, M \in Nat, x \in Nat : N = Norm2(a) /\ M = Norm2(b) /\ x = cnorm2(Inner(a, b))
  BY <1>1
<1>4. N * v \in Nat /\ N * M \in Nat /\ N * (M + v) = N * M + N * v
  OBVIOUS
<1>5. N * (M + v) - x > 0 /\ N * (M + v) - x \in Int
  <2>1. PICK p \in Nat, q \in Nat : p = N * M /\ q = N * v
    BY <1>4
  <2>2. p - x > 0
    BY <1>2, <1>3, <2>1
  <2>3. N * (M + v) - x = p + q - x
    BY <1>4, <2>1
  <2> QED
    BY <2>2, <2>3
<1> QED
  BY <1>3, <1>5 DEF Gain

LEMMA ScaledPower ==
  ASSUME NEW s \in Complex, NEW g \in Int, cnorm2(s) = 1
  PROVE  cnorm2(cscale(s, g)) = g * g
<1>1. cnorm2(cscale(s, g)) = g * g * cnorm2(s)
  BY DEF cnorm2, cscale, Complex
<1> QED
  BY <1>1

LEMMA ProductPower ==
  ASSUME NEW c \in Complex, NEW t \in Complex, NEW v \in Int
  PROVE  cnorm2(cscale(cmul(c, t), v)) = v * v * (cnorm2(c) * cnorm2(t))
BY DEF cnorm2, cscale, cmul, Complex

LEMMA Nothing ==
  /\ Zero \in Complex
  /\ \A x \in Complex : cadd(x, Zero) = x /\ cadd(Zero, x) = x /\ cmul(x, Zero) = Zero /\ cscale(x, 0) = Zero
  /\ \A n \in Int : cscale(Zero, n) = Zero
BY DEF cadd, cscale, cmul, Zero, Complex

LEMMA OwnProduct == ASSUME NEW c \in Complex PROVE cmul(cconj(c), c)[1] = cnorm2(c)
BY DEF cmul, cconj, cnorm2, Complex

\* Without noise a symbol comes back whatever the other is; with noise it does
\* when it is sent alone.
LEMMA SymbolComesBack ==
  ASSUME NEW m \in Nat, NEW a \in [1 .. m -> Complex], NEW b \in [1 .. m -> Complex], Independent(a, b),
         NEW s \in Complex, NEW t \in Complex, NEW v \in Nat, NEW obs, Mixes(obs, a, b, s, t, m), v = 0 \/ t = Zero
  PROVE  Own(a, b, obs, v).xhat.num = cscale(s, Gain(a, b, v)) /\ Equals(Own(a, b, obs, v).xhat, s)
<1>1. Own(a, b, obs, v).xhat.num = cadd(cscale(s, Gain(a, b, v)), cscale(cmul(Inner(a, b), t), v))
      /\ Own(a, b, obs, v).xhat.den = Gain(a, b, v)
  BY OwnOfMix DEF Symbol
<1>2. Gain(a, b, v) \in Int /\ Gain(a, b, v) # 0 /\ Inner(a, b) \in Complex
  BY GainPositive, InnerConjugated
<1>3. cscale(cmul(Inner(a, b), t), v) = Zero
  <2>1. cmul(Inner(a, b), t) \in Complex /\ v \in Int
    BY <1>2, ProductTyped
  <2>2. CASE t = Zero
    <3>1. cmul(Inner(a, b), t) = Zero
      BY <1>2, <2>2, Nothing
    <3> QED
      BY <2>1, <3>1, Nothing
  <2>3. CASE v = 0
    BY <2>1, <2>3, Nothing
  <2> QED
    BY <2>2, <2>3
<1>4. cadd(cscale(s, Gain(a, b, v)), Zero) = cscale(s, Gain(a, b, v))
  BY <1>2, ScaleTyped, Nothing
<1> QED
  BY <1>1, <1>2, <1>3, <1>4 DEF Equals

LEMMA RatioOfPowers ==
  ASSUME NEW N \in Int, NEW M \in Int, NEW x \in Int, NEW v \in Int, NEW g, NEW A, NEW w,
         A = M + v, g = N * A - x, w = A * A * N - 2 * A * x + x * M
  PROVE  (g * g) * (v * A) = g * (v * v * (x * 1) + v * w)
OBVIOUS

\* The ratio reported is that of the symbol's power to what is left of the other
\* symbol and of the noise.
LEMMA RatioIsTrue ==
  ASSUME NEW m \in Nat, NEW a \in [1 .. m -> Complex], NEW b \in [1 .. m -> Complex], Independent(a, b),
         NEW s \in Complex, NEW t \in Complex, cnorm2(s) = 1, cnorm2(t) = 1, NEW v \in Nat,
         NEW own, Mixes(own, a, b, s, Zero, m), NEW other, Mixes(other, a, b, Zero, t, m)
  PROVE  cnorm2(Own(a, b, own, v).xhat.num) * Own(a, b, own, v).gamma.den
           = Own(a, b, own, v).gamma.num
               * (cnorm2(Own(a, b, other, v).xhat.num)
                    + v * Total(LeftPower(a, b, Norm2(b) + v, Inner(a, b), m)))
<1> DEFINE g == Gain(a, b, v)
           A == Norm2(b) + v
           c == Inner(a, b)
           w == Total(LeftPower(a, b, A, c, m))
<1>1. /\ Norm2(a) \in Int /\ Norm2(b) \in Int /\ c \in Complex /\ cnorm2(c) \in Int /\ v \in Int
      /\ g \in Int /\ A \in Int /\ Zero \in Complex
  <2>1. Norm2(a) \in Int /\ Norm2(b) \in Int /\ Zero \in Complex
    BY InnerOfItself, Nothing
  <2>2. c \in Complex /\ cnorm2(c) \in Int
    BY InnerConjugated, PowerTyped
  <2>3. g \in Int
    BY GainPositive
  <2> QED
    BY <2>1, <2>2, <2>3
<1>2. Own(a, b, own, v).xhat.num = cscale(s, g)
  BY <1>1, SymbolComesBack
<1>3. Own(a, b, own, v).gamma = [num |-> g, den |-> v * A]
  <2>1. Own(a, b, own, v) = Symbol(cadd(cscale(s, g), cscale(cmul(c, Zero), v)), g, g, v * A)
    BY Nothing, OwnOfMix
  <2> HIDE DEF g, A, c
  <2> QED
    BY <2>1 DEF Symbol
<1>4. Own(a, b, other, v).xhat.num = cscale(cmul(c, t), v)
  <2>1. Own(a, b, other, v) = Symbol(cadd(cscale(Zero, g), cscale(cmul(c, t), v)), g, g, v * A)
    BY Nothing, OwnOfMix
  <2>2. cmul(c, t) \in Complex
    BY <1>1, ProductTyped
  <2>3. cscale(cmul(c, t), v) \in Complex
    BY <1>1, <2>2, ScaleTyped
  <2>4. cscale(Zero, g) = Zero
    BY <1>1, Nothing
  <2> HIDE DEF g, A, c
  <2> QED
    BY <2>1, <2>3, <2>4, Nothing DEF Symbol
<1>5. cnorm2(cscale(s, g)) = g * g
  BY <1>1, ScaledPower
<1>6. cnorm2(cscale(cmul(c, t), v)) = v * v * (cnorm2(c) * 1)
  BY <1>1, ProductPower
<1>7. w = A * A * Norm2(a) - 2 * A * cnorm2(c) + cnorm2(c) * Norm2(b)
  <2>1. cmul(cconj(c), c)[1] = cnorm2(c)
    BY <1>1, OwnProduct
  <2>2. PICK d \in Complex, e \in Int : d = c /\ e = A
    BY <1>1
  <2>3. Total(LeftPower(a, b, e, d, m))
          = e * e * Norm2(a) - 2 * e * cmul(cconj(d), Inner(a, b))[1] + cnorm2(d) * Norm2(b)
    BY NoiseLeft
  <2> HIDE DEF A
  <2> QED
    BY <2>1, <2>2, <2>3
<1>8. g = Norm2(a) * A - cnorm2(c)
  BY DEF Gain
<1>9. (g * g) * (v * A) = g * (v * v * (cnorm2(c) * 1) + v * w)
  <2> HIDE DEF g, A, w, c
  <2> QED
    BY <1>1, <1>7, <1>8, RatioOfPowers DEF A
<1> HIDE DEF g, A, w, c
<1> QED
  BY <1>2, <1>3, <1>4, <1>5, <1>6, <1>9 DEF w, A, c

LEMMA IndependentSwap ==
  ASSUME NEW m \in Nat, NEW a \in [1 .. m -> Complex], NEW b \in [1 .. m -> Complex], Independent(a, b)
  PROVE  Independent(b, a)
<1>1. Norm2(a) \in Int /\ Norm2(b) \in Int /\ Inner(a, b) \in Complex /\ Inner(b, a) = cconj(Inner(a, b))
  BY InnerOfItself, InnerConjugated
<1>2. \A c \in Complex : cnorm2(cconj(c)) = cnorm2(c)
  BY DEF cnorm2, cconj, Complex
<1> QED
  BY <1>1, <1>2 DEF Independent

\* The answers of an equaliser that solves a system of two columns.
Solves(out, a, b, s, t, v, m) ==
  /\ \E y : Mixes(y, a, b, s, t, m) /\ out.exact = <<Own(a, b, y, 0), Own(b, a, y, 0)>>
  /\ \E x : Mixes(x, a, b, s, Zero, m) /\ out.alone[1] = <<Own(a, b, x, v), Own(b, a, x, v)>>
  /\ \E x : Mixes(x, a, b, Zero, t, m) /\ out.alone[2] = <<Own(a, b, x, v), Own(b, a, x, v)>>
  /\ Total([j \in DOMAIN out.noise |-> cnorm2(out.noise[j][1].xhat.num)])
       = Total(LeftPower(a, b, Norm2(b) + v, Inner(a, b), m))
  /\ Total([j \in DOMAIN out.noise |-> cnorm2(out.noise[j][2].xhat.num)])
       = Total(LeftPower(b, a, Norm2(a) + v, Inner(b, a), m))

\* One symbol of two: `first` and `second` are its own column and the other's.
LEMMA OneIsTrue ==
  ASSUME NEW m \in Nat, NEW a \in [1 .. m -> Complex], NEW b \in [1 .. m -> Complex], Independent(a, b),
         NEW s \in Complex, NEW t \in Complex, cnorm2(s) = 1, cnorm2(t) = 1, NEW v \in Nat,
         NEW y, Mixes(y, a, b, s, t, m), NEW x, Mixes(x, a, b, s, Zero, m),
         NEW z, Mixes(z, a, b, Zero, t, m),
         NEW noise, Total([j \in DOMAIN noise |-> cnorm2(noise[j])])
                      = Total(LeftPower(a, b, Norm2(b) + v, Inner(a, b), m))
  PROVE  /\ Equals(Own(a, b, y, 0).xhat, s) /\ Equals(Own(a, b, x, v).xhat, s)
         /\ TrueRatio(Own(a, b, x, v).xhat.num, Own(a, b, z, v).xhat.num, noise, v, Own(a, b, x, v).gamma)
<1>1. Equals(Own(a, b, y, 0).xhat, s)
  <2>1. PICK u \in Nat : u = 0
    OBVIOUS
  <2>2. Equals(Own(a, b, y, u).xhat, s)
    BY <2>1, SymbolComesBack
  <2> QED
    BY <2>1, <2>2
<1>2. Equals(Own(a, b, x, v).xhat, s)
  BY Nothing, SymbolComesBack
<1>3. cnorm2(Own(a, b, x, v).xhat.num) * Own(a, b, x, v).gamma.den
        = Own(a, b, x, v).gamma.num
            * (cnorm2(Own(a, b, z, v).xhat.num) + v * Total(LeftPower(a, b, Norm2(b) + v, Inner(a, b), m)))
  BY RatioIsTrue
<1> QED
  BY <1>1, <1>2, <1>3 DEF TrueRatio

LEMMA PairIsTrue ==
  ASSUME NEW in, TwoSymbols(in), NEW out, NEW m \in Nat, NEW a \in [1 .. m -> Complex],
         NEW b \in [1 .. m -> Complex], Independent(a, b),
         Solves(out, a, b, in.symbols[1], in.symbols[2], in.sigma2, m)
  PROVE  TrueSymbols(in, out)
<1> DEFINE s == in.symbols[1]
           t == in.symbols[2]
           v == in.sigma2
           noise(k) == [j \in DOMAIN out.noise |-> out.noise[j][k].xhat.num]
<1>1. s \in Complex /\ t \in Complex /\ cnorm2(s) = 1 /\ cnorm2(t) = 1 /\ v \in Nat /\ Zero \in Complex
  BY Nothing DEF TwoSymbols
<1>2. Independent(b, a)
  BY IndependentSwap
<1>3. PICK y : Mixes(y, a, b, s, t, m) /\ out.exact = <<Own(a, b, y, 0), Own(b, a, y, 0)>>
  BY DEF Solves
<1>4. PICK x : Mixes(x, a, b, s, Zero, m) /\ out.alone[1] = <<Own(a, b, x, v), Own(b, a, x, v)>>
  BY DEF Solves
<1>5. PICK z : Mixes(z, a, b, Zero, t, m) /\ out.alone[2] = <<Own(a, b, z, v), Own(b, a, z, v)>>
  BY DEF Solves
<1>6. ASSUME NEW k \in 1 .. 2
      PROVE  [j \in DOMAIN noise(k) |-> cnorm2(noise(k)[j])]
               = [j \in DOMAIN out.noise |-> cnorm2(out.noise[j][k].xhat.num)]
  OBVIOUS
<1>7. Total([j \in DOMAIN noise(1) |-> cnorm2(noise(1)[j])])
        = Total(LeftPower(a, b, Norm2(b) + v, Inner(a, b), m))
  BY <1>6 DEF Solves
<1>8. Total([j \in DOMAIN noise(2) |-> cnorm2(noise(2)[j])])
        = Total(LeftPower(b, a, Norm2(a) + v, Inner(b, a), m))
  BY <1>6 DEF Solves
<1>9. Mixes(y, b, a, t, s, m) /\ Mixes(x, b, a, Zero, s, m) /\ Mixes(z, b, a, t, Zero, m)
  BY <1>1, <1>3, <1>4, <1>5, MixesSwap
<1> HIDE DEF noise, s, t, v
<1>10. /\ Equals(Own(a, b, y, 0).xhat, s) /\ Equals(Own(a, b, x, v).xhat, s)
       /\ TrueRatio(Own(a, b, x, v).xhat.num, Own(a, b, z, v).xhat.num, noise(1), v, Own(a, b, x, v).gamma)
  BY <1>1, <1>3, <1>4, <1>5, <1>7, OneIsTrue
<1>11. /\ Equals(Own(b, a, y, 0).xhat, t) /\ Equals(Own(b, a, z, v).xhat, t)
       /\ TrueRatio(Own(b, a, z, v).xhat.num, Own(b, a, x, v).xhat.num, noise(2), v, Own(b, a, z, v).gamma)
  BY <1>1, <1>2, <1>8, <1>9, OneIsTrue
<1>12. /\ out.exact[1] = Own(a, b, y, 0) /\ out.exact[2] = Own(b, a, y, 0)
       /\ out.alone[1][1] = Own(a, b, x, v) /\ out.alone[1][2] = Own(b, a, x, v)
       /\ out.alone[2][1] = Own(a, b, z, v) /\ out.alone[2][2] = Own(b, a, z, v)
  BY <1>3, <1>4, <1>5
<1>13. ASSUME NEW k \in 1 .. 2
       PROVE  /\ Equals(out.exact[k].xhat, in.symbols[k]) /\ Equals(out.alone[k][k].xhat, in.symbols[k])
              /\ TrueRatio(out.alone[k][k].xhat.num, out.alone[3 - k][k].xhat.num, noise(k), v,
                           out.alone[k][k].gamma)
  <2>1. CASE k = 1
    <3>1. 3 - k = 2
      BY <2>1
    <3> QED
      BY <1>10, <1>12, <2>1, <3>1 DEF s
  <2>2. CASE k = 2
    <3>1. 3 - k = 1
      BY <2>2
    <3> QED
      BY <1>11, <1>12, <2>2, <3>1 DEF t
  <2> QED
    BY <2>1, <2>2
<1> QED
  BY <1>13, Zenon DEF TrueSymbols, noise, v

-----------------------------------------------------------------------------
(* Two layers. *)

LEMMA CSumOfTwo ==
  ASSUME NEW seq \in [1 .. 2 -> Complex]
  PROVE  CSum(seq) = cadd(seq[1], seq[2])
<1>1. PICK p \in [0 .. 2 -> Complex] :
        p[0] = Zero /\ (\A k \in 1 .. 2 : p[k] = cadd(p[k - 1], seq[k])) /\ CSum(seq) = p[2]
  BY SumsInOrder
<1>2. p[1] = cadd(p[0], seq[1]) /\ p[2] = cadd(p[1], seq[2]) /\ seq[1] \in Complex
  <2>1. 1 \in 1 .. 2 /\ 2 \in 1 .. 2 /\ 1 - 1 = 0 /\ 2 - 1 = 1
    OBVIOUS
  <2> QED
    BY <1>1, <2>1
<1> QED
  BY <1>1, <1>2, Nothing

\* Two layers: the gain is the weights' own, and comes to the same.
LEMMA LayersSolveTheColumns ==
  ASSUME NEW a \in [1 .. 2 -> Complex], NEW b \in [1 .. 2 -> Complex], NEW v \in Nat, NEW obs
  PROVE  trace_equalize_2x2_scalar(a, b, obs, v) = <<Own(a, b, obs, v), Own(b, a, obs, v)>>
<1> DEFINE N == Norm2(a)
           M == Norm2(b)
           c == Inner(a, b)
           x == cnorm2(c)
           det == (N + v) * (M + v) - x
<1>1. N \in Int /\ M \in Int /\ c \in Complex /\ x \in Int /\ v \in Int
  <2>1. N \in Nat /\ M \in Nat
    BY InnerOfItself
  <2>2. c \in Complex
    BY InnerConjugated
  <2>3. x \in Int
    BY <2>2, PowerTyped
  <2> QED
    BY <2>1, <2>2, <2>3
<1>2. Inner(a, a) = <<N, 0>> /\ Inner(b, b) = <<M, 0>> /\ Inner(b, a) = cconj(c) /\ cnorm2(cconj(c)) = x
  <2>1. \A d \in Complex : cnorm2(cconj(d)) = cnorm2(d)
    BY DEF cnorm2, cconj, Complex
  <2> QED
    BY <1>1, <2>1, InnerOfItself, InnerConjugated
<1>3. csub(cscale(<<N, 0>>, M + v), cmul(c, cconj(c)))[1] = N * (M + v) - x
  BY <1>1 DEF csub, cscale, cmul, cconj, cnorm2, Complex
<1>4. csub(cscale(<<M, 0>>, N + v), cmul(cconj(c), c))[1] = M * (N + v) - x
  BY <1>1 DEF csub, cscale, cmul, cconj, cnorm2, Complex
<1>5. /\ N * (M + v) - x = det - v * (M + v) /\ det - (N * (M + v) - x) = v * (M + v)
      /\ M * (N + v) - x = det - v * (N + v) /\ det - (M * (N + v) - x) = v * (N + v)
      /\ (M + v) * (N + v) - x = det
  <2> HIDE DEF N, M, x
  <2> QED
    BY <1>1
<1> DEFINE first == Symbol(csub(cscale(Inner(a, obs), M + v), cmul(c, Inner(b, obs))),
                           det - v * (M + v), det - v * (M + v), v * (M + v))
           second == Symbol(csub(cscale(Inner(b, obs), N + v), cmul(cconj(c), Inner(a, obs))),
                            det - v * (N + v), det - v * (N + v), v * (N + v))
<1>6. Own(a, b, obs, v) = first
  BY DEF Own
<1>7. Own(b, a, obs, v) = second
  BY <1>2, <1>5 DEF Own
<1>8. trace_equalize_2x2_scalar(a, b, obs, v) = <<first, second>>
  BY <1>2, <1>3, <1>4, <1>5 DEF trace_equalize_2x2_scalar
<1> QED
  BY <1>6, <1>7, <1>8

LEMMA MixedBy ==
  ASSUME NEW m \in Nat, NEW a \in [1 .. m -> Complex], NEW b \in [1 .. m -> Complex],
         NEW s \in Complex, NEW t \in Complex
  PROVE  Mixes([k \in 1 .. m |-> cadd(cmul(a[k], s), cmul(b[k], t))], a, b, s, t, m)
BY SumTyped, ProductTyped DEF Mixes

\* The estimate of one layer.
LEMMA OneLayer ==
  ASSUME NEW m \in Nat, NEW a \in [1 .. m -> Complex], NEW b \in [1 .. m -> Complex], Independent(a, b),
         NEW s \in Complex, NEW v, NEW obs, Mixes(obs, a, b, s, Zero, m)
  PROVE  Equals(equalize_1x2_scalar(a, obs, v).xhat, s)
<1>1. Norm2(a) \in Nat /\ Inner(a, b) \in Complex
  BY InnerOfItself, InnerConjugated
<1>2. Inner(a, obs) = cscale(s, Norm2(a))
  <2>1. Inner(a, obs) = cadd(cscale(s, Norm2(a)), cmul(Inner(a, b), Zero))
    BY Nothing, InnerOfMix
  <2>2. cscale(s, Norm2(a)) \in Complex
    BY <1>1, ScaleTyped
  <2> QED
    BY <1>1, <2>1, <2>2, Nothing
<1>3. Norm2(a) # 0
  <2>1. Norm2(b) \in Nat /\ cnorm2(Inner(a, b)) \in Nat
    BY <1>1, InnerOfItself, PowerTyped
  <2>2. Norm2(a) * Norm2(b) - cnorm2(Inner(a, b)) > 0
    BY DeterminantPositive
  <2> SUFFICES ASSUME Norm2(a) = 0 PROVE FALSE
    OBVIOUS
  <2>3. Norm2(a) * Norm2(b) = 0
    BY <2>1
  <2> QED
    BY <2>1, <2>2, <2>3
<1> QED
  BY <1>2, <1>3 DEF Equals, equalize_1x2_scalar, Symbol

\* The answers of unit noise, when each is that of one row.
NoisePowers(noise, k) == [j \in DOMAIN noise |-> cnorm2(noise[j][k].xhat.num)]

HearsUnits(noise, a, b, v, m) ==
  /\ DOMAIN noise = 1 .. m
  /\ \A j \in 1 .. m : noise[j] = <<Own(a, b, UnitAt(j, m), v), Own(b, a, UnitAt(j, m), v)>>

LEMMA RowsOfNoise ==
  ASSUME NEW m \in Nat, NEW a \in [1 .. m -> Complex], NEW b \in [1 .. m -> Complex], NEW v \in Nat,
         NEW noise, HearsUnits(noise, a, b, v, m)
  PROVE  /\ NoisePowers(noise, 1) = LeftPower(a, b, Norm2(b) + v, Inner(a, b), m)
         /\ NoisePowers(noise, 2) = LeftPower(b, a, Norm2(a) + v, Inner(b, a), m)
<1>1. ASSUME NEW j \in 1 .. m
      PROVE  /\ noise[j][1].xhat.num = Left(a, b, Norm2(b) + v, Inner(a, b), j)
             /\ noise[j][2].xhat.num = Left(b, a, Norm2(a) + v, Inner(b, a), j)
  <2>1. noise[j] = <<Own(a, b, UnitAt(j, m), v), Own(b, a, UnitAt(j, m), v)>>
    BY DEF HearsUnits
  <2>2. Own(a, b, UnitAt(j, m), v).xhat.num = Left(a, b, Norm2(b) + v, Inner(a, b), j)
    BY OwnOfUnit
  <2>3. Own(b, a, UnitAt(j, m), v).xhat.num = Left(b, a, Norm2(a) + v, Inner(b, a), j)
    BY OwnOfUnit
  <2> QED
    BY <2>1, <2>2, <2>3
<1>2. DOMAIN noise = 1 .. m
  BY DEF HearsUnits
<1> QED
  BY <1>1, <1>2 DEF LeftPower, NoisePowers

\* The layers' answers are those of the two columns.
LEMMA LayersAnswered ==
  ASSUME EqualiseLayers
  PROVE  /\ answer'.kind = "layers" /\ TwoSymbols(answer'.in)
         /\ TrueSymbols(answer'.in, answer'.out) /\ Equals(answer'.out.single.xhat, answer'.in.symbols[1])
<1>1. PICK in \in Inputs.layers :
        LET mix(symbols) == [rx \in 1 .. 2 |-> cadd(cmul(in.h0[rx], symbols[1]), cmul(in.h1[rx], symbols[2]))]
            equalised(y, sigma2) == trace_equalize_2x2_scalar(in.h0, in.h1, y, sigma2)
            alone(k) == equalised(mix([j \in 1 .. 2 |-> IF j = k THEN in.symbols[k] ELSE Zero]), in.sigma2)
            unit(rx) == [r \in 1 .. 2 |-> IF r = rx THEN <<1, 0>> ELSE Zero]
        IN  answer' = [kind |-> "layers", in |-> in,
               out |-> [exact |-> equalised(mix(in.symbols), 0), alone |-> [k \in 1 .. 2 |-> alone(k)],
                        noise |-> [rx \in 1 .. 2 |-> equalised(unit(rx), in.sigma2)],
                        single |-> equalize_1x2_scalar(in.h0, mix(<<in.symbols[1], Zero>>), in.sigma2)]]
  BY DEF EqualiseLayers, Ask
<1> DEFINE a == in.h0
           b == in.h1
           s == in.symbols[1]
           t == in.symbols[2]
           v == in.sigma2
           mix(p, q) == [rx \in 1 .. 2 |-> cadd(cmul(a[rx], p), cmul(b[rx], q))]
           equalised(y, w) == trace_equalize_2x2_scalar(a, b, y, w)
           out == answer'.out
<1>2. /\ TwoSymbols(in) /\ a \in [1 .. 2 -> Complex] /\ b \in [1 .. 2 -> Complex] /\ Independent(a, b)
  BY LayersInputsAssumption
<1>3. s \in Complex /\ t \in Complex /\ v \in Nat /\ Zero \in Complex
  BY <1>2, Nothing DEF TwoSymbols
<1>4. answer'.kind = "layers" /\ answer'.in = in
  BY <1>1
<1>5. /\ out.exact = equalised(mix(s, t), 0)
      /\ out.alone[1] = equalised(mix(s, Zero), v) /\ out.alone[2] = equalised(mix(Zero, t), v)
      /\ out.single = equalize_1x2_scalar(a, mix(s, Zero), v)
  BY <1>1
<1>6. DOMAIN out.noise = 1 .. 2 /\ \A j \in 1 .. 2 : out.noise[j] = equalised(UnitAt(j, 2), v)
  BY <1>1 DEF UnitAt
<1>7. \A y : \A w \in Nat : equalised(y, w) = <<Own(a, b, y, w), Own(b, a, y, w)>>
  BY <1>2, LayersSolveTheColumns
<1>8. Mixes(mix(s, t), a, b, s, t, 2) /\ Mixes(mix(s, Zero), a, b, s, Zero, 2) /\ Mixes(mix(Zero, t), a, b, Zero, t, 2)
  BY <1>2, <1>3, MixedBy
<1> HIDE DEF a, b, s, t, v, mix, equalised, out
<1>9. /\ out.exact = <<Own(a, b, mix(s, t), 0), Own(b, a, mix(s, t), 0)>>
      /\ out.alone[1] = <<Own(a, b, mix(s, Zero), v), Own(b, a, mix(s, Zero), v)>>
      /\ out.alone[2] = <<Own(a, b, mix(Zero, t), v), Own(b, a, mix(Zero, t), v)>>
      /\ \A j \in 1 .. 2 : out.noise[j] = <<Own(a, b, UnitAt(j, 2), v), Own(b, a, UnitAt(j, 2), v)>>
  BY <1>3, <1>5, <1>6, <1>7
<1>10. HearsUnits(out.noise, a, b, v, 2)
  BY <1>6, <1>9 DEF HearsUnits
<1>11. /\ NoisePowers(out.noise, 1) = LeftPower(a, b, Norm2(b) + v, Inner(a, b), 2)
       /\ NoisePowers(out.noise, 2) = LeftPower(b, a, Norm2(a) + v, Inner(b, a), 2)
  BY <1>2, <1>3, <1>10, RowsOfNoise
<1>12. Solves(out, a, b, s, t, v, 2)
  <2>1. \E y : Mixes(y, a, b, s, t, 2) /\ out.exact = <<Own(a, b, y, 0), Own(b, a, y, 0)>>
    BY <1>8, <1>9
  <2>2. \E x : Mixes(x, a, b, s, Zero, 2) /\ out.alone[1] = <<Own(a, b, x, v), Own(b, a, x, v)>>
    BY <1>8, <1>9
  <2>3. \E x : Mixes(x, a, b, Zero, t, 2) /\ out.alone[2] = <<Own(a, b, x, v), Own(b, a, x, v)>>
    BY <1>8, <1>9
  <2> QED
    BY <1>11, <2>1, <2>2, <2>3 DEF Solves, NoisePowers
<1>13. TrueSymbols(in, out)
  BY <1>2, <1>12, PairIsTrue DEF s, t, v
<1>14. Equals(out.single.xhat, s)
  BY <1>2, <1>3, <1>5, <1>8, OneLayer
<1> QED
  BY <1>2, <1>4, <1>13, <1>14 DEF out, s

-----------------------------------------------------------------------------
(* The pairs of transmit diversity. *)

LEMMA ComplexParts ==
  ASSUME NEW u \in Seq(Complex), NEW w \in Seq(Complex)
  PROVE  /\ u \o w \in Seq(Complex) /\ Len(u \o w) = Len(u) + Len(w)
         /\ \A i \in 1 .. Len(u) : (u \o w)[i] = u[i]
         /\ \A j \in 1 .. Len(w) : (u \o w)[Len(u) + j] = w[j]
BY OnePartMore

LEMMA Joined ==
  ASSUME NEW m \in Nat, NEW u \in [1 .. m -> Complex], NEW w \in [1 .. m -> Complex]
  PROVE  /\ u \o w \in [1 .. m + m -> Complex]
         /\ \A k \in 1 .. m : (u \o w)[k] = u[k] /\ (u \o w)[m + k] = w[k]
<1>1. u \in Seq(Complex) /\ w \in Seq(Complex) /\ Len(u) = m /\ Len(w) = m
  OBVIOUS
<1>2. PICK uw : uw = u \o w
  OBVIOUS
<1>3. /\ uw \in Seq(Complex) /\ Len(uw) = m + m
      /\ \A i \in 1 .. m : uw[i] = u[i]
      /\ \A j \in 1 .. m : uw[m + j] = w[j]
  <2>1. /\ u \o w \in Seq(Complex) /\ Len(u \o w) = Len(u) + Len(w)
        /\ \A i \in 1 .. Len(u) : (u \o w)[i] = u[i]
        /\ \A j \in 1 .. Len(w) : (u \o w)[Len(u) + j] = w[j]
    BY <1>1, ComplexParts, Zenon
  <2> QED
    BY <1>1, <1>2, <2>1, Zenon
<1>4. uw \in [1 .. m + m -> Complex]
  BY <1>3
<1> QED
  BY <1>2, <1>3, <1>4

\* Sums of two halves are sums of their pairs.
LEMMA TotalInterleaved ==
  ASSUME NEW R \in Nat, NEW n \in Nat, n = R * 2, NEW f \in [1 .. n -> Int], NEW x \in [1 .. n -> Int],
         \A r \in 1 .. R : f[(r - 1) * 2 + 1] = x[r] /\ f[(r - 1) * 2 + 2] = x[R + r]
  PROVE  Total(f) = Total(x)
<1>1. PICK p \in [0 .. n -> Int] :
        p[0] = 0 /\ (\A k \in 1 .. n : p[k] = p[k - 1] + f[k]) /\ Total(f) = p[n]
  BY TotalsInOrder
<1>2. PICK q \in [0 .. n -> Int] :
        q[0] = 0 /\ (\A k \in 1 .. n : q[k] = q[k - 1] + x[k]) /\ Total(x) = q[n]
  BY TotalsInOrder
<1> DEFINE T == {r \in 0 .. R : p[r * 2] = q[r] + q[R + r] - q[R]}
<1>3. 0 \in T
  <2>1. 0 * 2 = 0 /\ R + 0 = R /\ q[R] \in Int /\ 0 \in 0 .. R
    BY <1>2
  <2> QED
    BY <1>1, <1>2, <2>1
<1>4. ASSUME NEW r \in 1 .. R, r - 1 \in T
      PROVE  r \in T
  <2>1. PICK k \in Nat : k = (r - 1) * 2
    OBVIOUS
  <2>2. PICK i \in Nat, j \in Nat, l \in Nat : i = r - 1 /\ j = R + r /\ l = R + (r - 1)
    OBVIOUS
  <2>3. /\ k + 1 \in 1 .. n /\ k + 2 \in 1 .. n /\ (k + 1) - 1 = k /\ (k + 2) - 1 = k + 1 /\ r * 2 = k + 2
        /\ r \in 1 .. n /\ j \in 1 .. n /\ j - 1 = l /\ k \in 0 .. n /\ R \in 0 .. n /\ i \in 0 .. n /\ l \in 0 .. n
    BY <2>1, <2>2
  <2>4. p[k + 1] = p[k] + f[k + 1] /\ p[k + 2] = p[k + 1] + f[k + 2]
    BY <1>1, <2>3
  <2>5. q[r] = q[i] + x[r] /\ q[j] = q[l] + x[j]
    BY <1>2, <2>2, <2>3
  <2>6. p[k] = q[i] + q[l] - q[R]
    BY <1>4, <2>1, <2>2
  <2>7. f[k + 1] = x[r] /\ f[k + 2] = x[j]
    BY <2>1, <2>2
  <2>8. p[k] \in Int /\ q[i] \in Int /\ q[l] \in Int /\ q[R] \in Int /\ x[r] \in Int /\ x[j] \in Int
    BY <1>1, <1>2, <2>3
  <2>9. p[k + 2] = q[r] + q[j] - q[R]
    <3>1. PICK p0 \in Int, q0 \in Int, q1 \in Int, q2 \in Int, x0 \in Int, x1 \in Int :
            p0 = p[k] /\ q0 = q[i] /\ q1 = q[l] /\ q2 = q[R] /\ x0 = x[r] /\ x1 = x[j]
      BY <2>8
    <3>2. p[k + 1] = p0 + x0
      BY <2>4, <2>7, <3>1
    <3>3. p[k + 2] = p0 + x0 + x1
      BY <2>4, <2>7, <3>1, <3>2
    <3>4. q[r] = q0 + x0 /\ q[j] = q1 + x1 /\ p0 = q0 + q1 - q2
      BY <2>5, <2>6, <3>1
    <3>5. p0 + x0 + x1 = (q0 + x0) + (q1 + x1) - q2
      BY <3>4
    <3> QED
      BY <3>1, <3>3, <3>4, <3>5
  <2>10. p[r * 2] = q[r] + q[R + r] - q[R]
    BY <2>2, <2>3, <2>9
  <2> QED
    BY <2>10
<1>5. R \in T
  BY <1>3, <1>4, AlongTheRun
<1>6. q[R] \in Int /\ q[n] \in Int /\ R + R = n
  BY <1>2
<1> QED
  BY <1>1, <1>2, <1>5, <1>6

LEMMA DiversitySolvesTheColumns ==
  ASSUME NEW m \in Nat, NEW g, NEW h, NEW g_next, NEW h_next, NEW v \in Nat, NEW y, NEW y_next,
         NEW a \in [1 .. m -> Complex], NEW b \in [1 .. m -> Complex],
         DiversityColumns(g, h, g_next, h_next) = <<a, b>>
  PROVE  demap_transmit_diversity_mmse_scalar(g, h, g_next, h_next, y, y_next, v)
           = <<Own(a, b, y \o Conjugated(y_next), v), Own(b, a, y \o Conjugated(y_next), v)>>
<1> DEFINE N == Norm2(a)
           M == Norm2(b)
           c == Inner(a, b)
           x == cnorm2(c)
           obs == y \o Conjugated(y_next)
<1>1. N \in Int /\ M \in Int /\ c \in Complex /\ x \in Int /\ v \in Int
  <2>1. N \in Nat /\ M \in Nat
    BY InnerOfItself
  <2>2. c \in Complex
    BY InnerConjugated
  <2>3. x \in Int
    BY <2>2, PowerTyped
  <2> QED
    BY <2>1, <2>2, <2>3
<1>2. Inner(b, a) = cconj(c) /\ cnorm2(cconj(c)) = x
  <2>1. \A d \in Complex : cnorm2(cconj(d)) = cnorm2(d)
    BY DEF cnorm2, cconj, Complex
  <2> QED
    BY <1>1, <2>1, InnerConjugated
<1> DEFINE det == (N + v) * (M + v) - x
           first == Symbol(csub(cscale(Inner(a, obs), M + v), cmul(c, Inner(b, obs))),
                           det - v * (M + v), det - v * (M + v), v * (M + v))
           second == Symbol(csub(cscale(Inner(b, obs), N + v), cmul(cconj(c), Inner(a, obs))),
                            det - v * (N + v), det - v * (N + v), v * (N + v))
<1>3. Own(a, b, obs, v) = first
  BY DEF Own
<1>4. (M + v) * (N + v) - x = det
  <2> HIDE DEF N, M, x
  <2> QED
    BY <1>1
<1>5. Own(b, a, obs, v) = second
  BY <1>2, <1>4 DEF Own
<1>6. demap_transmit_diversity_mmse_scalar(g, h, g_next, h_next, y, y_next, v) = <<first, second>>
  BY DEF demap_transmit_diversity_mmse_scalar
<1> QED
  BY <1>3, <1>5, <1>6

\* What a pair of ports sends.
LEMMA PairOfPorts ==
  ASSUME NEW symbols
  PROVE  /\ PortSymbol(2, 1, symbols, 1) = symbols[1] /\ PortSymbol(2, 2, symbols, 1) = symbols[2]
         /\ PortSymbol(2, 1, symbols, 2) = cconj(symbols[2])
         /\ PortSymbol(2, 2, symbols, 2) = cscale(cconj(symbols[1]), -1)
<1>1. /\ 2 * ((1 - 1) \div 2) + 1 = 1 /\ 2 * ((2 - 1) \div 2) + 1 = 1 /\ 1 % 2 = 1 /\ 2 % 2 = 0
      /\ 1 + ((1 - 1) % 2) = 1 /\ 1 + ((2 - 1) % 2) = 2 /\ 2 - 1 = 1
  OBVIOUS
<1> QED
  BY <1>1 DEF PortSymbol

LEMMA ConjugateOfSum ==
  ASSUME NEW g \in Complex, NEW h \in Complex, NEW s \in Complex, NEW t \in Complex
  PROVE  cconj(cadd(cmul(g, cconj(t)), cmul(h, cscale(cconj(s), -1))))
           = cadd(cmul(cscale(cconj(h), -1), s), cmul(cconj(g), t))
BY DEF cadd, cmul, cconj, cscale, Complex

TwoPorts(h, R) ==
  h \in [1 .. 2 -> Seq([1 .. 2 -> Complex])] /\ R = Len(h[1]) /\ R = Len(h[2])

PairColumns(h) == DiversityColumns(Column(h, 1, 1), Column(h, 2, 1), Column(h, 1, 2), Column(h, 2, 2))

PairObservations(y) == Samples(y, 1) \o Conjugated(Samples(y, 2))

LEMMA LengthOfTwo ==
  ASSUME NEW T, NEW h \in [1 .. 2 -> T]
  PROVE  Len(h) = 2
<1>1. h \in Seq(T)
  OBVIOUS
<1> QED
  BY <1>1

LEMMA ColumnOfPort ==
  ASSUME NEW h, NEW R, TwoPorts(h, R)
  PROVE  /\ R \in Nat /\ DOMAIN h[1] = 1 .. R /\ DOMAIN h = 1 .. 2 /\ Len(h) = 2
         /\ \A tx, e \in 1 .. 2 :
              /\ Column(h, tx, e) \in [1 .. R -> Complex]
              /\ \A r \in 1 .. R : Column(h, tx, e)[r] = h[tx][r][e] /\ h[tx][r][e] \in Complex
<1>1. /\ \A tx \in 1 .. 2 : h[tx] \in Seq([1 .. 2 -> Complex]) /\ Len(h[tx]) = R
      /\ DOMAIN h = 1 .. 2 /\ Len(h) = 2
  <2>1. Len(h[1]) = R /\ Len(h[2]) = R /\ h \in [1 .. 2 -> Seq([1 .. 2 -> Complex])]
    BY DEF TwoPorts
  <2>2. \A tx \in 1 .. 2 : tx = 1 \/ tx = 2
    OBVIOUS
  <2>3. DOMAIN h = 1 .. 2 /\ \A tx \in 1 .. 2 : h[tx] \in Seq([1 .. 2 -> Complex])
    BY <2>1
  <2>4. Len(h) = 2
    BY <2>1, LengthOfTwo
  <2> QED
    BY <2>1, <2>2, <2>3, <2>4
<1>2. R \in Nat
  BY <1>1
<1>3. ASSUME NEW tx \in 1 .. 2
      PROVE  DOMAIN h[tx] = 1 .. R /\ \A r \in 1 .. R : h[tx][r] \in [1 .. 2 -> Complex]
  <2>1. PICK x : x = h[tx]
    OBVIOUS
  <2>2. x \in Seq([1 .. 2 -> Complex]) /\ Len(x) = R
    BY <1>1, <2>1
  <2>3. DOMAIN x = 1 .. R /\ \A r \in 1 .. R : x[r] \in [1 .. 2 -> Complex]
    BY <2>2
  <2> QED
    BY <2>1, <2>3
<1>4. ASSUME NEW tx \in 1 .. 2, NEW e \in 1 .. 2
      PROVE  /\ Column(h, tx, e) \in [1 .. R -> Complex]
             /\ \A r \in 1 .. R : Column(h, tx, e)[r] = h[tx][r][e] /\ h[tx][r][e] \in Complex
  <2>1. PICK x : x = h[tx]
    OBVIOUS
  <2>2. DOMAIN x = 1 .. R /\ \A r \in 1 .. R : x[r] \in [1 .. 2 -> Complex]
    BY <1>3, <2>1
  <2>3. Column(h, tx, e) = [r \in 1 .. R |-> x[r][e]] /\ \A r \in 1 .. R : x[r][e] \in Complex
    BY <2>1, <2>2 DEF Column
  <2> QED
    BY <2>1, <2>3
<1> QED
  BY <1>1, <1>2, <1>3, <1>4

LEMMA ColumnsOfPair ==
  ASSUME NEW h, NEW R, TwoPorts(h, R)
  PROVE  /\ PairColumns(h) = <<PairColumns(h)[1], PairColumns(h)[2]>>
         /\ PairColumns(h)[1] \in [1 .. R + R -> Complex] /\ PairColumns(h)[2] \in [1 .. R + R -> Complex]
         /\ \A r \in 1 .. R :
              /\ PairColumns(h)[1][r] = h[1][r][1] /\ PairColumns(h)[1][R + r] = cscale(cconj(h[2][r][2]), -1)
              /\ PairColumns(h)[2][r] = h[2][r][1] /\ PairColumns(h)[2][R + r] = cconj(h[1][r][2])
<1>1. PICK g1, h1, g2, h2 : g1 = Column(h, 1, 1) /\ h1 = Column(h, 2, 1) /\ g2 = Column(h, 1, 2) /\ h2 = Column(h, 2, 2)
  OBVIOUS
<1>2. /\ R \in Nat /\ g1 \in [1 .. R -> Complex] /\ h1 \in [1 .. R -> Complex]
      /\ g2 \in [1 .. R -> Complex] /\ h2 \in [1 .. R -> Complex]
      /\ \A r \in 1 .. R : g1[r] = h[1][r][1] /\ h1[r] = h[2][r][1] /\ g2[r] = h[1][r][2] /\ h2[r] = h[2][r][2]
  BY <1>1, ColumnOfPort
<1>3. PairColumns(h) = DiversityColumns(g1, h1, g2, h2)
  BY <1>1 DEF PairColumns
<1>4. PairColumns(h) = <<PairColumns(h)[1], PairColumns(h)[2]>>
  BY <1>3 DEF DiversityColumns
<1>5. /\ PairColumns(h)[1] \in [1 .. R + R -> Complex] /\ PairColumns(h)[2] \in [1 .. R + R -> Complex]
      /\ \A r \in 1 .. R :
           /\ PairColumns(h)[1][r] = g1[r] /\ PairColumns(h)[1][R + r] = cscale(cconj(h2[r]), -1)
           /\ PairColumns(h)[2][r] = h1[r] /\ PairColumns(h)[2][R + r] = cconj(g2[r])
  <2> DEFINE u == [k \in DOMAIN h2 |-> cscale(cconj(h2[k]), -1)]
             w == Conjugated(g2)
  <2>1. u \in [1 .. R -> Complex] /\ w \in [1 .. R -> Complex]
    BY <1>2, ScaleTyped, ConjugateTyped DEF Conjugated
  <2>2. \A k \in 1 .. R : u[k] = cscale(cconj(h2[k]), -1) /\ w[k] = cconj(g2[k])
    BY <1>2 DEF Conjugated
  <2>3. PairColumns(h) = <<g1 \o u, h1 \o w>>
    BY <1>3 DEF DiversityColumns
  <2> HIDE DEF u, w
  <2>4. g1 \o u \in [1 .. R + R -> Complex] /\ \A k \in 1 .. R : (g1 \o u)[k] = g1[k] /\ (g1 \o u)[R + k] = u[k]
    BY <1>2, <2>1, Joined
  <2>5. h1 \o w \in [1 .. R + R -> Complex] /\ \A k \in 1 .. R : (h1 \o w)[k] = h1[k] /\ (h1 \o w)[R + k] = w[k]
    BY <1>2, <2>1, Joined
  <2>6. PICK x, z : x = g1 \o u /\ z = h1 \o w
    OBVIOUS
  <2>7. PairColumns(h)[1] = x /\ PairColumns(h)[2] = z
    BY <2>3, <2>6
  <2>8. /\ x \in [1 .. R + R -> Complex] /\ z \in [1 .. R + R -> Complex]
        /\ \A r \in 1 .. R : x[r] = g1[r] /\ x[R + r] = u[r] /\ z[r] = h1[r] /\ z[R + r] = w[r]
    BY <2>4, <2>5, <2>6, Zenon
  <2> QED
    BY <2>2, <2>7, <2>8, Zenon
<1> QED
  BY <1>2, <1>4, <1>5

LEMMA FromGrid ==
  ASSUME NEW h, NEW R, TwoPorts(h, R), NEW y, NEW v \in Nat
  PROVE  LET a == PairColumns(h)[1]
             b == PairColumns(h)[2]
             obs == PairObservations(y)
         IN  demap_transmit_diversity_from_grid(h, y, 1, 2, 1, v) = <<Own(a, b, obs, v), Own(b, a, obs, v)>>
<1> DEFINE a == PairColumns(h)[1]
           b == PairColumns(h)[2]
<1>1. R \in Nat /\ R + R \in Nat
  BY ColumnOfPort
<1>2. PICK m \in Nat : m = R + R
  BY <1>1
<1>3. a \in [1 .. m -> Complex] /\ b \in [1 .. m -> Complex] /\ PairColumns(h) = <<a, b>>
  BY <1>2, ColumnsOfPair
<1>4. demap_transmit_diversity_from_grid(h, y, 1, 2, 1, v)
        = demap_transmit_diversity_mmse_scalar(
            Column(h, 1, 1), Column(h, 2, 1), Column(h, 1, 2), Column(h, 2, 2), Samples(y, 1), Samples(y, 2), v)
  BY DEF demap_transmit_diversity_from_grid
<1> HIDE DEF a, b
<1> QED
  BY <1>3, <1>4, DiversitySolvesTheColumns DEF PairColumns, PairObservations, a, b

\* What is heard of a pair of symbols mixes its two columns.
LEMMA HeardPair ==
  ASSUME NEW h, NEW R, TwoPorts(h, R), NEW u \in [1 .. 2 -> Complex]
  PROVE  Mixes(PairObservations(Received(h, u)), PairColumns(h)[1], PairColumns(h)[2], u[1], u[2], R + R)
<1> DEFINE y == Received(h, u)
           sent(e) == [tx \in DOMAIN h |-> PortSymbol(Len(h), tx, u, e)]
<1>1. R \in Nat /\ DOMAIN h[1] = 1 .. R /\ DOMAIN h = 1 .. 2 /\ Len(h) = 2
  BY ColumnOfPort
<1>2. ASSUME NEW r \in 1 .. R
      PROVE  /\ h[1][r][1] \in Complex /\ h[2][r][1] \in Complex /\ h[1][r][2] \in Complex /\ h[2][r][2] \in Complex
  BY ColumnOfPort
<1>3. u[1] \in Complex /\ u[2] \in Complex /\ DOMAIN u = 1 .. 2
  OBVIOUS
<1>4. cconj(u[2]) \in Complex /\ cscale(cconj(u[1]), -1) \in Complex
  BY <1>3, ConjugateTyped, ScaleTyped
<1>5. ASSUME NEW r \in 1 .. R
      PROVE  /\ y[r][1] = cadd(cmul(h[1][r][1], u[1]), cmul(h[2][r][1], u[2]))
             /\ y[r][2] = cadd(cmul(h[1][r][2], cconj(u[2])), cmul(h[2][r][2], cscale(cconj(u[1]), -1)))
             /\ y[r][1] \in Complex /\ y[r][2] \in Complex
  <2> DEFINE terms(e) == [tx \in 1 .. 2 |-> cmul(h[tx][r][e], PortSymbol(2, tx, u, e))]
  <2>1. y[r][1] = CSum(terms(1)) /\ y[r][2] = CSum(terms(2))
    BY <1>1, <1>3 DEF Received
  <2>2. /\ terms(1)[1] = cmul(h[1][r][1], u[1]) /\ terms(1)[2] = cmul(h[2][r][1], u[2])
        /\ terms(2)[1] = cmul(h[1][r][2], cconj(u[2]))
        /\ terms(2)[2] = cmul(h[2][r][2], cscale(cconj(u[1]), -1))
    BY PairOfPorts
  <2>3. /\ terms(1)[1] \in Complex /\ terms(1)[2] \in Complex /\ terms(2)[1] \in Complex /\ terms(2)[2] \in Complex
    BY <1>2, <1>3, <1>4, <2>2, ProductTyped
  <2>4. terms(1) \in [1 .. 2 -> Complex] /\ terms(2) \in [1 .. 2 -> Complex]
    <3>1. \A x : x \in 1 .. 2 => x = 1 \/ x = 2
      OBVIOUS
    <3> QED
      BY <2>3, <3>1
  <2> HIDE DEF terms
  <2>5. /\ CSum(terms(1)) = cadd(terms(1)[1], terms(1)[2]) /\ CSum(terms(2)) = cadd(terms(2)[1], terms(2)[2])
    BY <2>4, CSumOfTwo
  <2>6. cadd(terms(1)[1], terms(1)[2]) \in Complex /\ cadd(terms(2)[1], terms(2)[2]) \in Complex
    BY <2>3, SumTyped
  <2> QED
    BY <2>1, <2>2, <2>5, <2>6
<1>6. DOMAIN y = 1 .. R
  BY <1>1 DEF Received
<1> HIDE DEF y
<1> DEFINE p == Samples(y, 1)
           q == Conjugated(Samples(y, 2))
<1>7. p \in [1 .. R -> Complex] /\ q \in [1 .. R -> Complex] /\ \A r \in 1 .. R : p[r] = y[r][1] /\ q[r] = cconj(y[r][2])
  BY <1>5, <1>6, ConjugateTyped DEF Samples, Conjugated
<1>8. PICK obs : obs = PairObservations(y)
  OBVIOUS
<1>9. obs \in [1 .. R + R -> Complex] /\ \A r \in 1 .. R : obs[r] = p[r] /\ obs[R + r] = q[r]
  <2> HIDE DEF p, q
  <2>1. p \o q \in [1 .. R + R -> Complex] /\ \A r \in 1 .. R : (p \o q)[r] = p[r] /\ (p \o q)[R + r] = q[r]
    BY <1>1, <1>7, Joined
  <2>2. obs = p \o q
    BY <1>8 DEF PairObservations, p, q
  <2> QED
    BY <2>1, <2>2
<1>10. ASSUME NEW r \in 1 .. R
       PROVE  obs[R + r] = cadd(cmul(PairColumns(h)[1][R + r], u[1]), cmul(PairColumns(h)[2][R + r], u[2]))
  <2>1. obs[R + r] = cconj(y[r][2])
    BY <1>7, <1>9
  <2>2. y[r][2] = cadd(cmul(h[1][r][2], cconj(u[2])), cmul(h[2][r][2], cscale(cconj(u[1]), -1)))
    BY <1>5
  <2>3. PairColumns(h)[1][R + r] = cscale(cconj(h[2][r][2]), -1) /\ PairColumns(h)[2][R + r] = cconj(h[1][r][2])
    BY ColumnsOfPair
  <2>4. PICK f \in Complex, g \in Complex, s \in Complex, t \in Complex :
          f = h[1][r][2] /\ g = h[2][r][2] /\ s = u[1] /\ t = u[2]
    BY <1>2, <1>3
  <2>5. cconj(cadd(cmul(f, cconj(t)), cmul(g, cscale(cconj(s), -1))))
          = cadd(cmul(cscale(cconj(g), -1), s), cmul(cconj(f), t))
    BY ConjugateOfSum
  <2> QED
    BY <2>1, <2>2, <2>3, <2>4, <2>5
<1>11. ASSUME NEW r \in 1 .. R
       PROVE  obs[r] = cadd(cmul(PairColumns(h)[1][r], u[1]), cmul(PairColumns(h)[2][r], u[2]))
  BY <1>5, <1>7, <1>9, ColumnsOfPair
<1>12. ASSUME NEW k \in 1 .. R + R
       PROVE  obs[k] = cadd(cmul(PairColumns(h)[1][k], u[1]), cmul(PairColumns(h)[2][k], u[2]))
  <2>1. CASE k <= R
    BY <1>1, <1>11, <2>1
  <2>2. CASE k > R
    <3>1. PICK r \in 1 .. R : k = R + r
      <4>1. k - R \in 1 .. R /\ k = R + (k - R)
        BY <1>1, <2>2
      <4> QED
        BY <4>1
    <3> QED
      BY <1>10, <3>1
  <2> QED
    BY <1>1, <2>1, <2>2
<1> QED
  BY <1>8, <1>9, <1>12 DEF Mixes, y

\* One unit of noise in one sample is one row of the pair's observations.
LEMMA UnitOfPair ==
  ASSUME NEW h, NEW R, TwoPorts(h, R), NEW rx \in 1 .. R, NEW e \in {1, 2}
  PROVE  PairObservations([r \in DOMAIN h[1] |-> [f \in {1, 2} |-> IF r = rx /\ f = e THEN <<1, 0>> ELSE Zero]])
           = UnitAt((e - 1) * R + rx, R + R)
<1> DEFINE y == [r \in DOMAIN h[1] |-> [f \in {1, 2} |-> IF r = rx /\ f = e THEN <<1, 0>> ELSE Zero]]
           p == Samples(y, 1)
           q == Conjugated(Samples(y, 2))
<1>1. R \in Nat /\ DOMAIN h[1] = 1 .. R
  BY ColumnOfPort
<1>2. <<1, 0>> \in Complex /\ Zero \in Complex /\ cconj(<<1, 0>>) = <<1, 0>> /\ cconj(Zero) = Zero
  <2>1. <<1, 0>> \in Complex /\ Zero \in Complex
    BY DEF Complex, Zero
  <2>2. \A x \in Complex : x[2] = 0 => cconj(x) = x
    BY DEF Complex, cconj
  <2> QED
    BY <2>1, <2>2 DEF Zero
<1>3. DOMAIN y = 1 .. R
  BY <1>1
<1>4. ASSUME NEW r \in 1 .. R
      PROVE  /\ y[r][1] = IF r = rx /\ e = 1 THEN <<1, 0>> ELSE Zero
             /\ y[r][2] = IF r = rx /\ e = 2 THEN <<1, 0>> ELSE Zero
  BY <1>1
<1> HIDE DEF y
<1>5. /\ p \in [1 .. R -> Complex] /\ q \in [1 .. R -> Complex]
      /\ \A r \in 1 .. R : /\ p[r] = IF r = rx /\ e = 1 THEN <<1, 0>> ELSE Zero
                           /\ q[r] = IF r = rx /\ e = 2 THEN <<1, 0>> ELSE Zero
  <2>1. p = [r \in 1 .. R |-> y[r][1]] /\ q = [r \in 1 .. R |-> cconj(y[r][2])]
    BY <1>3 DEF Samples, Conjugated
  <2>2. ASSUME NEW r \in 1 .. R
        PROVE  /\ p[r] = IF r = rx /\ e = 1 THEN <<1, 0>> ELSE Zero
               /\ q[r] = IF r = rx /\ e = 2 THEN <<1, 0>> ELSE Zero
    BY <1>2, <1>4, <2>1
  <2>3. \A r \in 1 .. R : p[r] \in Complex /\ q[r] \in Complex
    BY <1>2, <2>2
  <2> QED
    BY <2>1, <2>2, <2>3
<1> HIDE DEF p, q
<1>6. p \o q \in [1 .. R + R -> Complex] /\ \A r \in 1 .. R : (p \o q)[r] = p[r] /\ (p \o q)[R + r] = q[r]
  BY <1>1, <1>5, Joined
<1>7. PICK obs : obs = p \o q
  OBVIOUS
<1>8. obs \in [1 .. R + R -> Complex] /\ \A r \in 1 .. R : obs[r] = p[r] /\ obs[R + r] = q[r]
  BY <1>6, <1>7
<1>9. PICK j \in 1 .. R + R : j = (e - 1) * R + rx /\ (e = 1 => j = rx) /\ (e = 2 => j = R + rx)
  <2>1. CASE e = 1
    <3>1. (1 - 1) * R + rx = rx /\ rx \in 1 .. R + R
      BY <1>1
    <3> QED
      BY <2>1, <3>1
  <2>2. CASE e = 2
    <3>1. (2 - 1) * R + rx = R + rx /\ R + rx \in 1 .. R + R
      BY <1>1
    <3> QED
      BY <2>2, <3>1
  <2> QED
    BY <2>1, <2>2
<1>10. ASSUME NEW k \in 1 .. R + R
       PROVE  obs[k] = IF k = j THEN <<1, 0>> ELSE Zero
  <2>1. CASE k <= R
    <3>1. k \in 1 .. R /\ obs[k] = IF k = rx /\ e = 1 THEN <<1, 0>> ELSE Zero
      BY <1>1, <1>5, <1>8, <2>1
    <3>2. k = j <=> k = rx /\ e = 1
      BY <1>1, <1>9, <2>1
    <3> QED
      BY <3>1, <3>2
  <2>2. CASE k > R
    <3>1. PICK r \in 1 .. R : k = R + r
      <4>1. k - R \in 1 .. R /\ k = R + (k - R)
        BY <1>1, <2>2
      <4> QED
        BY <4>1
    <3>2. obs[k] = IF r = rx /\ e = 2 THEN <<1, 0>> ELSE Zero
      BY <1>5, <1>8, <3>1
    <3>3. k = j <=> r = rx /\ e = 2
      BY <1>1, <1>9, <3>1
    <3> QED
      BY <3>2, <3>3
  <2> QED
    BY <1>1, <2>1, <2>2
<1>11. obs = UnitAt(j, R + R)
  BY <1>8, <1>10 DEF UnitAt
<1>12. PairObservations(y) = obs
  BY <1>7 DEF PairObservations, p, q
<1> QED
  BY <1>9, <1>11, <1>12 DEF y

LEMMA LeftOfRows ==
  ASSUME NEW m \in Nat, NEW a \in [1 .. m -> Complex], NEW b \in [1 .. m -> Complex], NEW v \in Nat
  PROVE  LET x == LeftPower(a, b, Norm2(b) + v, Inner(a, b), m)
         IN  x \in [1 .. m -> Int] /\ \A k \in 1 .. m : x[k] = cnorm2(Own(a, b, UnitAt(k, m), v).xhat.num)
<1>1. Norm2(b) \in Nat /\ Inner(a, b) \in Complex
  BY InnerOfItself, InnerConjugated
<1>2. Norm2(b) + v \in Int
  BY <1>1
<1>3. LeftPower(a, b, Norm2(b) + v, Inner(a, b), m) \in [1 .. m -> Int]
  BY <1>1, <1>2, NoiseLeft
<1>4. ASSUME NEW k \in 1 .. m
      PROVE  Own(a, b, UnitAt(k, m), v).xhat.num = Left(a, b, Norm2(b) + v, Inner(a, b), k)
  BY OwnOfUnit
<1> QED
  BY <1>3, <1>4 DEF LeftPower

LEMMA HalfOf ==
  ASSUME NEW R \in Nat, NEW k \in 1 .. R * 2
  PROVE  \E r \in 1 .. R : k = (r - 1) * 2 + 1 \/ k = (r - 1) * 2 + 2
<1>1. PICK q \in Int : q = (k - 1) \div 2
  OBVIOUS
<1>2. q + 1 \in 1 .. R /\ (k = q * 2 + 1 \/ k = q * 2 + 2) /\ (q + 1) - 1 = q
  BY <1>1
<1> QED
  BY <1>2

LEMMA TwoOfSet ==
  ASSUME NEW S, NEW y \in S, NEW z \in S
  PROVE  <<y, z>> \in Seq(S) /\ Len(<<y, z>>) = 2
OBVIOUS

Paired(parts, p, q, R) == parts = [r \in 1 .. R |-> <<p[r], q[r]>>]

\* Sequences of two make one in which they lie behind each other.
LEMMA FlattenedPairs ==
  ASSUME NEW R \in Nat, NEW parts, NEW p, NEW q, Paired(parts, p, q, R)
  PROVE  /\ DOMAIN FlattenSeq(parts) = 1 .. R * 2
         /\ \A r \in 1 .. R : /\ FlattenSeq(parts)[(r - 1) * 2 + 1] = p[r]
                              /\ FlattenSeq(parts)[(r - 1) * 2 + 2] = q[r]
<1> DEFINE S == {p[r] : r \in 1 .. R} \cup {q[r] : r \in 1 .. R}
<1>1. \A r \in 1 .. R : p[r] \in S /\ q[r] \in S
  OBVIOUS
<1> HIDE DEF S
<1>2. \A r \in 1 .. R : parts[r] = <<p[r], q[r]>> /\ parts[r] \in Seq(S) /\ Len(parts[r]) = 2
  BY <1>1, TwoOfSet DEF Paired
<1>3. parts \in [1 .. R -> Seq(S)]
  BY <1>2 DEF Paired
<1>4. parts \in Seq(Seq(S)) /\ Len(parts) = R
  BY <1>3
<1>5. PICK size \in Nat : size = 2
  OBVIOUS
<1>6. \A r \in 1 .. Len(parts) : Len(parts[r]) = size
  BY <1>2, <1>4, <1>5
<1>7. PICK z : z = FlattenSeq(parts)
  OBVIOUS
<1>8. /\ z \in Seq(S) /\ Len(z) = Len(parts) * size
      /\ \A i \in 1 .. Len(parts) : \A j \in 1 .. size : z[(i - 1) * size + j] = parts[i][j]
  <2>1. /\ FlattenSeq(parts) \in Seq(S) /\ Len(FlattenSeq(parts)) = Len(parts) * size
        /\ \A i \in 1 .. Len(parts) : \A j \in 1 .. size : FlattenSeq(parts)[(i - 1) * size + j] = parts[i][j]
    <3>1. parts \in Seq(Seq(S)) /\ size \in Nat /\ \A i \in 1 .. Len(parts) : Len(parts[i]) = size
      BY <1>4, <1>6
    <3> QED
      BY <3>1, FlattenedParts
  <2> QED
    BY <1>7, <2>1
<1>9. DOMAIN z = 1 .. R * 2
  BY <1>4, <1>5, <1>8
<1>10. ASSUME NEW r \in 1 .. R
       PROVE  z[(r - 1) * 2 + 1] = p[r] /\ z[(r - 1) * 2 + 2] = q[r]
  <2>1. parts[r][1] = p[r] /\ parts[r][2] = q[r] /\ 1 \in 1 .. size /\ 2 \in 1 .. size
    BY <1>2, <1>5
  <2> QED
    BY <1>4, <1>5, <1>8, <2>1
<1> QED
  BY <1>7, <1>9, <1>10

PairsHold(z, k, x, R) ==
  \A r \in 1 .. R : /\ cnorm2(z[(r - 1) * 2 + 1][k].xhat.num) = x[r]
                    /\ cnorm2(z[(r - 1) * 2 + 2][k].xhat.num) = x[R + r]

\* The answers to unit noise of one layer of a pair, two of every antenna.
LEMMA NoiseOfPair ==
  ASSUME NEW R \in Nat, NEW n \in Nat, n = R * 2, NEW z, DOMAIN z = 1 .. n, NEW k, NEW x \in [1 .. n -> Int],
         PairsHold(z, k, x, R)
  PROVE  Total(NoisePowers(z, k)) = Total(x)
<1>1. PICK f : f = NoisePowers(z, k)
  OBVIOUS
<1>2. f = [i \in 1 .. n |-> cnorm2(z[i][k].xhat.num)]
  BY <1>1 DEF NoisePowers
<1>3. ASSUME NEW r \in 1 .. R
      PROVE  f[(r - 1) * 2 + 1] = x[r] /\ f[(r - 1) * 2 + 2] = x[R + r]
  <2>1. PICK i \in Nat, j \in Nat : i = (r - 1) * 2 + 1 /\ j = (r - 1) * 2 + 2
    OBVIOUS
  <2>2. i \in 1 .. n /\ j \in 1 .. n
    BY <2>1
  <2>3. cnorm2(z[i][k].xhat.num) = x[r] /\ cnorm2(z[j][k].xhat.num) = x[R + r]
    BY <2>1 DEF PairsHold
  <2>4. f[i] = x[r] /\ f[j] = x[R + r]
    BY <1>2, <2>2, <2>3
  <2> QED
    BY <2>1, <2>4
<1>4. ASSUME NEW i \in 1 .. n
      PROVE  f[i] \in Int
  <2>1. PICK r \in 1 .. R : i = (r - 1) * 2 + 1 \/ i = (r - 1) * 2 + 2
    BY HalfOf
  <2>2. r \in 1 .. n /\ R + r \in 1 .. n
    OBVIOUS
  <2> QED
    BY <1>3, <2>1, <2>2
<1>5. f \in [1 .. n -> Int]
  BY <1>2, <1>4
<1> QED
  BY <1>1, <1>3, <1>5, TotalInterleaved

\* The answers of a pair of ports are those of its two columns.
LEMMA DiversityAnswered ==
  ASSUME EqualiseDiversity
  PROVE  answer'.kind = "diversity" /\ TrueSymbols(answer'.in, answer'.out)
<1>1. PICK in \in Inputs.diversity :
        LET demap(symbols, sigma2) ==
              demap_transmit_diversity_from_grid(in.h, Received(in.h, symbols), 1, 2, 1, sigma2)
            alone(k) == demap([j \in 1 .. 2 |-> IF j = k THEN in.symbols[k] ELSE Zero], in.sigma2)
            noise(rx, e) ==
              demap_transmit_diversity_from_grid(
                in.h, [r \in DOMAIN in.h[1] |-> [f \in {1, 2} |-> IF r = rx /\ f = e THEN <<1, 0>> ELSE Zero]],
                1, 2, 1, in.sigma2)
        IN  answer' = [kind |-> "diversity", in |-> in,
               out |-> [exact |-> demap(in.symbols, 0), alone |-> [k \in 1 .. 2 |-> alone(k)],
                        noise |-> FlattenSeq([rx \in DOMAIN in.h[1] |-> <<noise(rx, 1), noise(rx, 2)>>])]]
  BY DEF EqualiseDiversity, Ask
<1> DEFINE h == in.h
           R == Len(h[1])
           m == R + R
           a == PairColumns(h)[1]
           b == PairColumns(h)[2]
           s == in.symbols[1]
           t == in.symbols[2]
           v == in.sigma2
           only(k) == [j \in 1 .. 2 |-> IF j = k THEN in.symbols[k] ELSE Zero]
           unit(rx, e) == [r \in DOMAIN h[1] |-> [f \in {1, 2} |-> IF r = rx /\ f = e THEN <<1, 0>> ELSE Zero]]
           demapped(y, w) == demap_transmit_diversity_from_grid(h, y, 1, 2, 1, w)
           Heard(u) == PairObservations(Received(h, u))
           parts == [rx \in DOMAIN h[1] |-> <<demapped(unit(rx, 1), v), demapped(unit(rx, 2), v)>>]
           out == answer'.out
<1>2. TwoSymbols(in) /\ TwoPorts(h, R) /\ Independent(a, b)
  BY DiversityInputsAssumption DEF TwoPorts, PairColumns
<1>3. /\ in.symbols \in [1 .. 2 -> Complex] /\ s \in Complex /\ t \in Complex /\ v \in Nat /\ Zero \in Complex
  BY <1>2, Nothing DEF TwoSymbols
<1>4. answer'.kind = "diversity" /\ answer'.in = in
  BY <1>1
<1>5. /\ out.exact = demapped(Received(h, in.symbols), 0)
      /\ out.alone[1] = demapped(Received(h, only(1)), v) /\ out.alone[2] = demapped(Received(h, only(2)), v)
      /\ out.noise = FlattenSeq(parts)
  BY <1>1
<1>6. /\ only(1) \in [1 .. 2 -> Complex] /\ only(1)[1] = s /\ only(1)[2] = Zero
      /\ only(2) \in [1 .. 2 -> Complex] /\ only(2)[1] = Zero /\ only(2)[2] = t
  BY <1>3
<1> HIDE DEF out, only
<1>7. R \in Nat /\ m \in Nat /\ DOMAIN h[1] = 1 .. R /\ a \in [1 .. m -> Complex] /\ b \in [1 .. m -> Complex]
  <2>1. R \in Nat /\ DOMAIN h[1] = 1 .. R
    BY <1>2, ColumnOfPort
  <2>2. a \in [1 .. m -> Complex] /\ b \in [1 .. m -> Complex]
    BY <1>2, ColumnsOfPair
  <2> QED
    BY <2>1, <2>2
<1>8. ASSUME NEW y, NEW w \in Nat
      PROVE  demapped(y, w) = <<Own(a, b, PairObservations(y), w), Own(b, a, PairObservations(y), w)>>
  BY <1>2, FromGrid
<1>9. \A rx \in 1 .. R : /\ PairObservations(unit(rx, 1)) = UnitAt(rx, m)
                         /\ PairObservations(unit(rx, 2)) = UnitAt(R + rx, m)
  <2> SUFFICES ASSUME NEW rx \in 1 .. R
               PROVE  PairObservations(unit(rx, 1)) = UnitAt(rx, m) /\ PairObservations(unit(rx, 2)) = UnitAt(R + rx, m)
    OBVIOUS
  <2>1. (1 - 1) * R + rx = rx /\ (2 - 1) * R + rx = R + rx
    BY <1>7
  <2>2. PairObservations(unit(rx, 1)) = UnitAt((1 - 1) * R + rx, m)
    BY <1>2, UnitOfPair
  <2>3. PairObservations(unit(rx, 2)) = UnitAt((2 - 1) * R + rx, m)
    BY <1>2, UnitOfPair
  <2> QED
    BY <2>1, <2>2, <2>3
<1> DEFINE p == [rx \in 1 .. R |-> <<Own(a, b, UnitAt(rx, m), v), Own(b, a, UnitAt(rx, m), v)>>]
           q == [rx \in 1 .. R |-> <<Own(a, b, UnitAt(R + rx, m), v), Own(b, a, UnitAt(R + rx, m), v)>>]
<1>10. Paired(parts, p, q, R)
  <2>1. ASSUME NEW rx \in 1 .. R
        PROVE  <<demapped(unit(rx, 1), v), demapped(unit(rx, 2), v)>> = <<p[rx], q[rx]>>
    <3>1. demapped(unit(rx, 1), v) = <<Own(a, b, UnitAt(rx, m), v), Own(b, a, UnitAt(rx, m), v)>>
      <4> HIDE DEF demapped, unit, a, b, m, v
      <4> QED
        BY <1>3, <1>8, <1>9
    <3>2. demapped(unit(rx, 2), v) = <<Own(a, b, UnitAt(R + rx, m), v), Own(b, a, UnitAt(R + rx, m), v)>>
      <4> HIDE DEF demapped, unit, a, b, m, v
      <4> QED
        BY <1>3, <1>8, <1>9
    <3> HIDE DEF demapped, unit, a, b, m, v
    <3> QED
      BY <3>1, <3>2
  <2> HIDE DEF demapped, unit, p, q
  <2> QED
    BY <1>7, <2>1 DEF Paired
<1>11. /\ Mixes(Heard(in.symbols), a, b, s, t, m) /\ Mixes(Heard(only(1)), a, b, s, Zero, m)
       /\ Mixes(Heard(only(2)), a, b, Zero, t, m)
  <2>1. Mixes(Heard(in.symbols), a, b, s, t, m)
    BY <1>2, <1>3, HeardPair
  <2>2. Mixes(Heard(only(1)), a, b, only(1)[1], only(1)[2], m)
    BY <1>2, <1>6, HeardPair
  <2>3. Mixes(Heard(only(2)), a, b, only(2)[1], only(2)[2], m)
    BY <1>2, <1>6, HeardPair
  <2> QED
    BY <1>6, <2>1, <2>2, <2>3
<1>12. /\ out.exact = <<Own(a, b, Heard(in.symbols), 0), Own(b, a, Heard(in.symbols), 0)>>
       /\ out.alone[1] = <<Own(a, b, Heard(only(1)), v), Own(b, a, Heard(only(1)), v)>>
       /\ out.alone[2] = <<Own(a, b, Heard(only(2)), v), Own(b, a, Heard(only(2)), v)>>
  <2> HIDE DEF demapped, a, b, v
  <2> QED
    BY <1>3, <1>5, <1>8
<1> HIDE DEF parts, demapped, unit, a, b, s, t, v, Heard, R, h
<1>13. PICK z : z = FlattenSeq(parts)
  OBVIOUS
<1>14. /\ DOMAIN z = 1 .. R * 2
       /\ \A r \in 1 .. R : z[(r - 1) * 2 + 1] = p[r] /\ z[(r - 1) * 2 + 2] = q[r]
  <2> HIDE DEF p, q
  <2> QED
    BY <1>7, <1>10, <1>13, FlattenedPairs
<1>15. PICK n \in Nat : n = R * 2 /\ n = m
  BY <1>7
<1>16. /\ Total(NoisePowers(z, 1)) = Total(LeftPower(a, b, Norm2(b) + v, Inner(a, b), m))
       /\ Total(NoisePowers(z, 2)) = Total(LeftPower(b, a, Norm2(a) + v, Inner(b, a), m))
  <2> DEFINE x1 == LeftPower(a, b, Norm2(b) + v, Inner(a, b), m)
             x2 == LeftPower(b, a, Norm2(a) + v, Inner(b, a), m)
  <2>1. x1 \in [1 .. m -> Int] /\ \A k \in 1 .. m : x1[k] = cnorm2(Own(a, b, UnitAt(k, m), v).xhat.num)
    BY <1>3, <1>7, LeftOfRows
  <2>2. x2 \in [1 .. m -> Int] /\ \A k \in 1 .. m : x2[k] = cnorm2(Own(b, a, UnitAt(k, m), v).xhat.num)
    BY <1>3, <1>7, LeftOfRows
  <2> HIDE DEF x1, x2
  <2>3. ASSUME NEW r \in 1 .. R
        PROVE  /\ cnorm2(z[(r - 1) * 2 + 1][1].xhat.num) = x1[r] /\ cnorm2(z[(r - 1) * 2 + 2][1].xhat.num) = x1[R + r]
               /\ cnorm2(z[(r - 1) * 2 + 1][2].xhat.num) = x2[r] /\ cnorm2(z[(r - 1) * 2 + 2][2].xhat.num) = x2[R + r]
    <3>1. r \in 1 .. m /\ R + r \in 1 .. m
      BY <1>7
    <3>2. /\ p[r][1] = Own(a, b, UnitAt(r, m), v) /\ p[r][2] = Own(b, a, UnitAt(r, m), v)
          /\ q[r][1] = Own(a, b, UnitAt(R + r, m), v) /\ q[r][2] = Own(b, a, UnitAt(R + r, m), v)
      OBVIOUS
    <3> HIDE DEF p, q, m
    <3>3. z[(r - 1) * 2 + 1] = p[r] /\ z[(r - 1) * 2 + 2] = q[r]
      BY <1>14
    <3> QED
      BY <2>1, <2>2, <3>1, <3>2, <3>3
  <2>4. x1 \in [1 .. n -> Int] /\ x2 \in [1 .. n -> Int] /\ DOMAIN z = 1 .. n
    BY <1>14, <1>15, <2>1, <2>2
  <2>5. PairsHold(z, 1, x1, R) /\ PairsHold(z, 2, x2, R)
    BY <2>3 DEF PairsHold
  <2>6. R \in Nat /\ n \in Nat /\ n = R * 2
    BY <1>7, <1>15
  <2>7. Total(NoisePowers(z, 1)) = Total(x1)
    BY <2>4, <2>5, <2>6, NoiseOfPair
  <2>8. Total(NoisePowers(z, 2)) = Total(x2)
    BY <2>4, <2>5, <2>6, NoiseOfPair
  <2> QED
    BY <2>7, <2>8 DEF x1, x2
<1>17. Solves(out, a, b, s, t, v, m)
  <2>1. \E y : Mixes(y, a, b, s, t, m) /\ out.exact = <<Own(a, b, y, 0), Own(b, a, y, 0)>>
    BY <1>11, <1>12
  <2>2. \E x : Mixes(x, a, b, s, Zero, m) /\ out.alone[1] = <<Own(a, b, x, v), Own(b, a, x, v)>>
    BY <1>11, <1>12
  <2>3. \E x : Mixes(x, a, b, Zero, t, m) /\ out.alone[2] = <<Own(a, b, x, v), Own(b, a, x, v)>>
    BY <1>11, <1>12
  <2>4. out.noise = z
    BY <1>5, <1>13
  <2> QED
    BY <1>16, <2>1, <2>2, <2>3, <2>4 DEF Solves, NoisePowers
<1>18. TrueSymbols(in, out)
  BY <1>2, <1>7, <1>17, PairIsTrue DEF s, t, v
<1> QED
  BY <1>4, <1>18 DEF out

\* Answers of other kinds are no symbols.
LEMMA NoSymbols ==
  ASSUME \/ HandOver \/ PdschLlrs \/ ControlLlrs \/ DecodeWord \/ RecoverRate
         \/ DecodeAllocation \/ ParseDci \/ BuildLayout \/ EstimateChannel \/ EstimateNoise
         \/ ReceiveDci \/ NewReceiver
  PROVE  answer'.kind \notin {"diversity", "layers"}
<1>1. CASE HandOver BY <1>1 DEF HandOver
<1>2. CASE DecodeWord BY <1>2 DEF DecodeWord, Ask
<1>3. CASE RecoverRate BY <1>3 DEF RecoverRate, Ask
<1>4. CASE DecodeAllocation BY <1>4 DEF DecodeAllocation, Ask
<1>5. CASE ParseDci BY <1>5 DEF ParseDci, Ask
<1>6. CASE BuildLayout BY <1>6 DEF BuildLayout, Ask
<1>7. CASE EstimateChannel BY <1>7 DEF EstimateChannel, Ask
<1>8. CASE EstimateNoise BY <1>8 DEF EstimateNoise, Ask
<1>9. CASE PdschLlrs BY <1>9 DEF PdschLlrs
<1>10. CASE ControlLlrs
  <2>1. \E in, out : Ask("control", in, out)
    BY <1>10, Zenon DEF ControlLlrs
  <2> QED
    BY <2>1 DEF Ask
<1>11. CASE ReceiveDci
  <2>1. \E in, out : Ask("candidate", in, out)
    BY <1>11, Zenon DEF ReceiveDci
  <2> QED
    BY <2>1 DEF Ask
<1>12. CASE NewReceiver BY <1>12 DEF NewReceiver, NoAnswer
<1> QED
  BY <1>1, <1>2, <1>3, <1>4, <1>5, <1>6, <1>7, <1>8, <1>9, <1>10, <1>11, <1>12

\* Over all channels of any number of antennas a receiver can tell apart, both
\* equalisers give back the symbols sent without noise and estimate each without
\* bias in noise of any power, and the ratio they report is that of the symbol's
\* power to what is left of the other symbol and of the noise
\* (mmse_equalizer_cpu.cpp:947, :1168).
THEOREM SymbolsComeBackWithTheirRatios == Spec => []SymbolsAndRatiosAreTrue
<1>1. Init => SymbolsAndRatiosAreTrue
  BY DEF Init, SymbolsAndRatiosAreTrue, Answered, NoAnswer
<1>2. SymbolsAndRatiosAreTrue /\ [Next]_receiverVars => SymbolsAndRatiosAreTrue'
  <2> SUFFICES ASSUME SymbolsAndRatiosAreTrue, [Next]_receiverVars PROVE SymbolsAndRatiosAreTrue'
    OBVIOUS
  <2>1. CASE EqualiseDiversity
    BY <2>1, DiversityAnswered, Zenon DEF SymbolsAndRatiosAreTrue, Answered, TrueSymbols, TrueRatio
  <2>2. CASE EqualiseLayers
    BY <2>2, LayersAnswered, Zenon DEF SymbolsAndRatiosAreTrue, Answered
  <2>3. CASE Search \/ UNCHANGED receiverVars
    <3>1. answer' = answer
      BY <2>3 DEF Search, receiverVars
    <3> QED
      BY <3>1, Zenon DEF SymbolsAndRatiosAreTrue, Answered
  <2>4. CASE answer'.kind \notin {"diversity", "layers"}
    BY <2>4, Zenon DEF SymbolsAndRatiosAreTrue, Answered
  <2> QED
    BY <2>1, <2>2, <2>3, <2>4, NoSymbols, Zenon DEF Next
<1> QED
  BY <1>1, <1>2, PTL DEF Spec

-----------------------------------------------------------------------------
(* The channel estimate: ChannelEstimate. *)

\* p holds the partial sums of the first n elements.
SumsUp(p, seq, n) ==
  p \in [0 .. n -> Int] /\ p[0] = 0 /\ \A k \in 1 .. n : p[k] = p[k - 1] + seq[k]

LEMMA OneAdded ==
  ASSUME NEW n \in Nat, NEW seq, NEW p, SumsUp(p, seq, n)
  PROVE  \A k \in Nat : k < n => p[k + 1] = p[k] + seq[k + 1] /\ p[k] \in Int
<1> SUFFICES ASSUME NEW k \in Nat, k < n PROVE p[k + 1] = p[k] + seq[k + 1] /\ p[k] \in Int
  OBVIOUS
<1>1. k \in 0 .. n /\ k + 1 \in 1 .. n /\ (k + 1) - 1 = k
  OBVIOUS
<1> QED
  BY <1>1 DEF SumsUp

\* There is only one way to sum up.
LEMMA TotalIsTheSum ==
  ASSUME NEW n \in Nat, NEW seq \in [1 .. n -> Int], NEW p, SumsUp(p, seq, n)
  PROVE  Total(seq) = p[n]
<1>1. PICK q : SumsUp(q, seq, n) /\ Total(seq) = q[n]
  BY TotalsInOrder DEF SumsUp
<1> DEFINE T == {k \in Nat : k <= n => q[k] = p[k]}
<1>2. 0 \in T
  BY <1>1 DEF SumsUp
<1>3. ASSUME NEW k \in Nat, k \in T PROVE k + 1 \in T
  <2> SUFFICES ASSUME k + 1 <= n PROVE q[k + 1] = p[k + 1]
    OBVIOUS
  <2>1. k < n /\ q[k] = p[k]
    BY <1>3
  <2> QED
    BY <1>1, <2>1, OneAdded
<1> HIDE DEF T
<1>4. n \in T
  BY <1>2, <1>3, NumberByNumber
<1> QED
  BY <1>1, <1>4 DEF T

LEMMA TotalSumsUp ==
  ASSUME NEW n \in Nat, NEW seq \in [1 .. n -> Int]
  PROVE  \E p : SumsUp(p, seq, n) /\ Total(seq) = p[n] /\ Total(seq) \in Int
<1>1. PICK p : SumsUp(p, seq, n) /\ Total(seq) = p[n]
  BY TotalsInOrder DEF SumsUp
<1>2. p[n] \in Int
  BY <1>1 DEF SumsUp
<1> QED
  BY <1>1, <1>2

\* The last element can be added on its own.
LEMMA TotalOfMore ==
  ASSUME NEW n \in Nat, NEW seq \in [1 .. n + 1 -> Int], NEW less \in [1 .. n -> Int],
         \A k \in 1 .. n : less[k] = seq[k]
  PROVE  Total(seq) = Total(less) + seq[n + 1]
<1>1. n + 1 \in Nat
  OBVIOUS
<1>2. PICK p : SumsUp(p, seq, n + 1) /\ Total(seq) = p[n + 1]
  BY <1>1, TotalSumsUp
<1> DEFINE q == [k \in 0 .. n |-> p[k]]
<1>3. SumsUp(q, less, n)
  <2>1. q \in [0 .. n -> Int] /\ q[0] = 0
    BY <1>2 DEF SumsUp
  <2>2. ASSUME NEW k \in 1 .. n PROVE q[k] = q[k - 1] + less[k]
    <3>1. k \in 1 .. n + 1 /\ k - 1 \in 0 .. n /\ k \in 0 .. n
      OBVIOUS
    <3>2. p[k] = p[k - 1] + seq[k]
      BY <1>2, <3>1 DEF SumsUp
    <3> QED
      BY <3>1, <3>2
  <2> HIDE DEF q
  <2> QED
    BY <2>1, <2>2 DEF SumsUp
<1>4. q[n] = p[n]
  OBVIOUS
<1>5. Total(less) = p[n]
  <2> HIDE DEF q
  <2> QED
    BY <1>3, <1>4, TotalIsTheSum
<1>6. p[n + 1] = p[n] + seq[n + 1]
  <2>1. n < n + 1
    OBVIOUS
  <2> QED
    BY <1>1, <1>2, <2>1, OneAdded
<1> QED
  BY <1>2, <1>5, <1>6

\* Sequences whose elements add up, element by element.
LEMMA TotalOfBoth ==
  ASSUME NEW n \in Nat, NEW a \in [1 .. n -> Int], NEW b \in [1 .. n -> Int], NEW d \in [1 .. n -> Int],
         \A k \in 1 .. n : a[k] + b[k] = d[k]
  PROVE  Total(a) + Total(b) = Total(d)
<1>1. PICK p : SumsUp(p, a, n) /\ Total(a) = p[n]
  BY TotalSumsUp
<1>2. PICK q : SumsUp(q, b, n) /\ Total(b) = q[n]
  BY TotalSumsUp
<1>3. PICK r : SumsUp(r, d, n) /\ Total(d) = r[n]
  BY TotalSumsUp
<1> DEFINE T == {k \in Nat : k <= n => p[k] + q[k] = r[k]}
<1>4. \A k \in Nat : k < n => p[k + 1] = p[k] + a[k + 1] /\ p[k] \in Int
  BY <1>1, OneAdded
<1>5. \A k \in Nat : k < n => q[k + 1] = q[k] + b[k + 1] /\ q[k] \in Int
  BY <1>2, OneAdded
<1>6. \A k \in Nat : k < n => r[k + 1] = r[k] + d[k + 1] /\ r[k] \in Int
  BY <1>3, OneAdded
<1>7. 0 \in T
  BY <1>1, <1>2, <1>3 DEF SumsUp
<1>8. ASSUME NEW k \in Nat, k \in T PROVE k + 1 \in T
  <2> SUFFICES ASSUME k + 1 <= n PROVE p[k + 1] + q[k + 1] = r[k + 1]
    OBVIOUS
  <2>1. k < n /\ p[k] + q[k] = r[k] /\ k + 1 \in 1 .. n
    BY <1>8
  <2>2. p[k + 1] = p[k] + a[k + 1] /\ p[k] \in Int
    BY <1>4, <2>1
  <2>3. q[k + 1] = q[k] + b[k + 1] /\ q[k] \in Int
    BY <1>5, <2>1
  <2>4. r[k + 1] = r[k] + d[k + 1] /\ r[k] \in Int
    BY <1>6, <2>1
  <2>5. a[k + 1] + b[k + 1] = d[k + 1] /\ a[k + 1] \in Int /\ b[k + 1] \in Int
    BY <2>1
  <2> QED
    BY <2>1, <2>2, <2>3, <2>4, <2>5
<1> HIDE DEF T
<1>9. n \in T
  BY <1>7, <1>8, NumberByNumber
<1> QED
  BY <1>1, <1>2, <1>3, <1>9 DEF T

LEMMA TotalOfConstant ==
  ASSUME NEW n \in Nat, NEW c \in Int
  PROVE  Total([k \in 1 .. n |-> c]) = c * n
<1> DEFINE q == [k \in 0 .. n |-> c * k]
           b == [k \in 1 .. n |-> c]
<1>1. b \in [1 .. n -> Int]
  OBVIOUS
<1>2. SumsUp(q, b, n)
  <2>1. q \in [0 .. n -> Int] /\ q[0] = 0
    <3>1. c * 0 = 0 /\ 0 \in 0 .. n
      OBVIOUS
    <3> QED
      BY <3>1
  <2>2. ASSUME NEW k \in 1 .. n PROVE q[k] = q[k - 1] + b[k]
    <3>1. PICK j \in Nat : j = k - 1 /\ k = j + 1 /\ j \in 0 .. n
      OBVIOUS
    <3>2. c * (j + 1) = c * j + c
      OBVIOUS
    <3> QED
      BY <3>1, <3>2
  <2> HIDE DEF q
  <2> QED
    BY <2>1, <2>2 DEF SumsUp
<1>3. q[n] = c * n
  OBVIOUS
<1> HIDE DEF q, b
<1>4. Total(b) = c * n
  BY <1>1, <1>2, <1>3, TotalIsTheSum
<1> QED
  BY <1>4 DEF b

\* A sequence behind another.
Joins(seq, a, b, m, n) ==
  /\ m \in Nat /\ n \in Nat
  /\ a \in [1 .. m -> Int] /\ b \in [1 .. n -> Int] /\ seq \in [1 .. m + n -> Int]
  /\ \A k \in 1 .. m : seq[k] = a[k]
  /\ \A k \in 1 .. n : seq[m + k] = b[k]

LEMMA TotalOfJoined ==
  ASSUME NEW m, NEW n, NEW a, NEW b, NEW seq, Joins(seq, a, b, m, n)
  PROVE  Total(seq) = Total(a) + Total(b)
<1>1. /\ m \in Nat /\ n \in Nat
      /\ a \in [1 .. m -> Int] /\ b \in [1 .. n -> Int] /\ seq \in [1 .. m + n -> Int]
      /\ \A k \in 1 .. m : seq[k] = a[k]
      /\ \A k \in 1 .. n : seq[m + k] = b[k]
  BY DEF Joins
<1> USE <1>1
<1>2. m + n \in Nat
  OBVIOUS
<1>3. PICK p : SumsUp(p, seq, m + n) /\ Total(seq) = p[m + n]
  BY <1>2, TotalSumsUp
<1> DEFINE q == [k \in 0 .. m |-> p[k]]
           r == [k \in 0 .. n |-> p[m + k] - p[m]]
<1>4. \A k \in 0 .. m + n : p[k] \in Int
  BY <1>3 DEF SumsUp
<1>5. \A k \in Nat : k < m + n => p[k + 1] = p[k] + seq[k + 1] /\ p[k] \in Int
  BY <1>2, <1>3, OneAdded
<1>6. SumsUp(q, a, m)
  <2>1. q \in [0 .. m -> Int] /\ q[0] = 0
    BY <1>3 DEF SumsUp
  <2>2. ASSUME NEW k \in 1 .. m PROVE q[k] = q[k - 1] + a[k]
    <3>1. k \in 1 .. m + n /\ k - 1 \in 0 .. m /\ k \in 0 .. m
      OBVIOUS
    <3>2. p[k] = p[k - 1] + seq[k]
      BY <1>3, <3>1 DEF SumsUp
    <3> QED
      BY <3>1, <3>2
  <2> HIDE DEF q
  <2> QED
    BY <2>1, <2>2 DEF SumsUp
<1>7. SumsUp(r, b, n)
  <2>1. r \in [0 .. n -> Int] /\ r[0] = 0
    <3>1. \A k \in 0 .. n : m + k \in 0 .. m + n
      OBVIOUS
    <3>2. m \in 0 .. m + n /\ m + 0 = m /\ 0 \in 0 .. n
      OBVIOUS
    <3> QED
      BY <1>4, <3>1, <3>2
  <2>2. ASSUME NEW k \in 1 .. n PROVE r[k] = r[k - 1] + b[k]
    <3>1. PICK j \in Nat : j = k - 1 /\ k = j + 1 /\ j \in 0 .. n /\ k \in 0 .. n /\ m + j \in Nat /\ m + j < m + n
      OBVIOUS
    <3>2. p[(m + j) + 1] = p[m + j] + seq[(m + j) + 1]
      BY <1>5, <3>1
    <3>3. (m + j) + 1 = m + k /\ seq[m + k] = b[k] /\ m + k \in 0 .. m + n /\ m + j \in 0 .. m + n /\ m \in 0 .. m + n
      BY <3>1
    <3>4. r[k] = p[m + k] - p[m] /\ r[j] = p[m + j] - p[m]
      BY <3>1
    <3> HIDE DEF r
    <3>5. p[m + k] \in Int /\ p[m + j] \in Int /\ p[m] \in Int /\ b[k] \in Int
      BY <1>4, <3>3
    <3>6. p[m + k] = p[m + j] + b[k]
      BY <3>2, <3>3
    <3>7. PICK x \in Int, y \in Int, z \in Int : x = p[m + j] /\ y = p[m] /\ z = b[k]
      BY <3>5
    <3>8. r[k] = (x + z) - y /\ r[k - 1] = x - y
      BY <3>1, <3>4, <3>6, <3>7, Zenon
    <3>9. (x + z) - y = (x - y) + z
      OBVIOUS
    <3> QED
      BY <3>7, <3>8, <3>9, Zenon
  <2> HIDE DEF r
  <2> QED
    BY <2>1, <2>2 DEF SumsUp
<1>8. q[m] = p[m] /\ r[n] = p[m + n] - p[m] /\ p[m] \in Int /\ p[m + n] \in Int
  BY <1>4
<1> HIDE DEF q, r
<1>9. Total(a) = q[m] /\ Total(b) = r[n]
  BY <1>6, <1>7, TotalIsTheSum
<1> QED
  BY <1>3, <1>8, <1>9

\* Twice the distance of a sample to the middle of its neighbours, squared.
Bend(ls, k) == cnorm2(csub(cscale(ls[k + 1], 2), cadd(ls[k], ls[k + 2])))

LEMMA BendTyped ==
  ASSUME NEW a \in Complex, NEW b \in Complex, NEW c \in Complex
  PROVE  cnorm2(csub(cscale(b, 2), cadd(a, c))) \in Nat
<1>1. csub(cscale(b, 2), cadd(a, c)) \in Complex
  BY ScaleTyped, SumTyped, DifferenceTyped
<1> QED
  BY <1>1, PowerTyped

LEMMA BendsTyped ==
  ASSUME NEW n \in Nat, NEW ls \in [1 .. n -> Complex]
  PROVE  /\ \A k \in 1 .. n - 2 : Bend(ls, k) \in Nat
         /\ second_differences(ls) = Total([k \in 1 .. n - 2 |-> Bend(ls, k)])
<1>1. ASSUME NEW k \in 1 .. n - 2 PROVE Bend(ls, k) \in Nat
  <2>1. k \in 1 .. n /\ k + 1 \in 1 .. n /\ k + 2 \in 1 .. n
    OBVIOUS
  <2>2. ls[k] \in Complex /\ ls[k + 1] \in Complex /\ ls[k + 2] \in Complex
    BY <2>1
  <2> QED
    BY <2>2, BendTyped DEF Bend
<1>2. Len(ls) = n
  OBVIOUS
<1> QED
  BY <1>1, <1>2 DEF second_differences, Bend

\* A sample more adds the bend at the last one but one.
LEMMA OneBendMore ==
  ASSUME NEW n \in Nat, n >= 2, NEW ls \in [1 .. n -> Complex], NEW x \in Complex
  PROVE  /\ Append(ls, x) \in [1 .. n + 1 -> Complex]
         /\ second_differences(Append(ls, x))
              = second_differences(ls) + cnorm2(csub(cscale(ls[n], 2), cadd(ls[n - 1], x)))
         /\ second_differences(ls) \in Int
<1>1. PICK m \in Nat : m = n - 2 /\ n = m + 2
  OBVIOUS
<1> DEFINE more == Append(ls, x)
           a == [k \in 1 .. m |-> Bend(ls, k)]
           b == [k \in 1 .. m + 1 |-> Bend(more, k)]
<1>2. more \in [1 .. n + 1 -> Complex] /\ (\A k \in 1 .. n : more[k] = ls[k]) /\ more[n + 1] = x
  <2>1. ls \in Seq(Complex) /\ Len(ls) = n
    OBVIOUS
  <2>2. /\ more \in Seq(Complex) /\ Len(more) = n + 1
        /\ (\A k \in 1 .. n : more[k] = ls[k]) /\ more[n + 1] = x
    BY <2>1, AppendProperties
  <2> HIDE DEF more
  <2>3. more \in [1 .. n + 1 -> Complex]
    BY <2>2
  <2> QED
    BY <2>2, <2>3
<1> HIDE DEF more
<1>3. n + 1 \in Nat /\ (n + 1) - 2 = m + 1
  BY <1>1
<1>4. (\A k \in 1 .. m : Bend(ls, k) \in Nat) /\ second_differences(ls) = Total(a)
  BY <1>1, BendsTyped
<1>5. (\A k \in 1 .. m + 1 : Bend(more, k) \in Nat) /\ second_differences(more) = Total(b)
  BY <1>2, <1>3, BendsTyped
<1>6. a \in [1 .. m -> Int] /\ b \in [1 .. m + 1 -> Int]
  BY <1>4, <1>5
<1>7. ASSUME NEW k \in 1 .. m PROVE a[k] = b[k]
  <2>1. k \in 1 .. n /\ k + 1 \in 1 .. n /\ k + 2 \in 1 .. n /\ k \in 1 .. m + 1
    BY <1>1
  <2>2. more[k] = ls[k] /\ more[k + 1] = ls[k + 1] /\ more[k + 2] = ls[k + 2]
    BY <1>2, <2>1
  <2> QED
    BY <2>1, <2>2 DEF Bend
<1>8. b[m + 1] = cnorm2(csub(cscale(ls[n], 2), cadd(ls[n - 1], x)))
  <2>1. b[m + 1] = Bend(more, m + 1) /\ m + 1 = n - 1 /\ (m + 1) + 1 = n /\ (m + 1) + 2 = n + 1
        /\ n \in 1 .. n /\ n - 1 \in 1 .. n
    BY <1>1
  <2> HIDE DEF b
  <2>2. more[n] = ls[n] /\ more[n - 1] = ls[n - 1]
    BY <1>2, <2>1
  <2> QED
    BY <1>2, <2>1, <2>2 DEF Bend
<1>9. Total(b) = Total(a) + b[m + 1]
  <2> HIDE DEF a, b
  <2> QED
    BY <1>6, <1>7, TotalOfMore
<1>10. Total(a) \in Int
  <2> HIDE DEF a
  <2> QED
    BY <1>6, TotalSumsUp
<1> QED
  BY <1>2, <1>4, <1>5, <1>8, <1>9, <1>10 DEF more

LEMMA NothingToSum ==
  ASSUME NEW n \in Nat, NEW seq \in [1 .. n -> Int], n = 0
  PROVE  Total(seq) = 0
<1>1. PICK p : SumsUp(p, seq, n) /\ Total(seq) = p[n]
  BY TotalSumsUp
<1> QED
  BY <1>1 DEF SumsUp

LEMMA NoBends ==
  ASSUME NEW n \in Nat, n = 2, NEW ls \in [1 .. n -> Complex]
  PROVE  second_differences(ls) = 0
<1> DEFINE bends == [k \in 1 .. n - 2 |-> Bend(ls, k)]
<1>1. second_differences(ls) = Total(bends) /\ bends \in [1 .. n - 2 -> Int]
  <2>1. /\ \A k \in 1 .. n - 2 : Bend(ls, k) \in Nat
        /\ second_differences(ls) = Total(bends)
    BY BendsTyped
  <2> QED
    BY <2>1
<1> HIDE DEF bends
<1>2. PICK m \in Nat : m = n - 2
  OBVIOUS
<1>3. m = 0 /\ bends \in [1 .. m -> Int]
  BY <1>1, <1>2
<1>4. Total(bends) = 0
  BY <1>3, NothingToSum
<1> QED
  BY <1>1, <1>4

-----------------------------------------------------------------------------
\* Rows of every sign.

Signs == {<<1, 0>>, <<-1, 0>>}

LEMMA SignsAreComplex == Signs \subseteq Complex
BY DEF Signs, Complex

BothSigns(rows) == WithSign(rows, 1) \o WithSign(rows, -1)

LEMMA SignAppended ==
  ASSUME NEW rows \in Seq(Seq(Signs)), NEW sign \in {1, -1}
  PROVE  /\ WithSign(rows, sign) \in Seq(Seq(Signs)) /\ Len(WithSign(rows, sign)) = Len(rows)
         /\ \A r \in 1 .. Len(rows) : WithSign(rows, sign)[r] = Append(rows[r], <<sign, 0>>)
<1>1. \A r \in 1 .. Len(rows) : Append(rows[r], <<sign, 0>>) \in Seq(Signs)
  <2> SUFFICES ASSUME NEW r \in 1 .. Len(rows) PROVE Append(rows[r], <<sign, 0>>) \in Seq(Signs)
    OBVIOUS
  <2>1. rows[r] \in Seq(Signs) /\ <<sign, 0>> \in Signs
    BY DEF Signs
  <2> QED
    BY <2>1, AppendProperties
<1>2. WithSign(rows, sign) = [r \in 1 .. Len(rows) |-> Append(rows[r], <<sign, 0>>)]
  BY DEF WithSign
<1> DEFINE F(r) == Append(rows[r], <<sign, 0>>)
<1> HIDE DEF F
<1>3. Len(rows) \in Nat
  OBVIOUS
<1>4. [r \in 1 .. Len(rows) |-> F(r)] \in Seq(Seq(Signs)) /\ Len([r \in 1 .. Len(rows) |-> F(r)]) = Len(rows)
  <2>1. \A r \in 1 .. Len(rows) : F(r) \in Seq(Signs)
    BY <1>1 DEF F
  <2> QED
    BY <1>3, <2>1
<1>5. \A r \in 1 .. Len(rows) : [s \in 1 .. Len(rows) |-> F(s)][r] = F(r)
  OBVIOUS
<1> QED
  BY <1>2, <1>4, <1>5 DEF F

LEMMA BothSignsTyped ==
  ASSUME NEW rows \in Seq(Seq(Signs))
  PROVE  /\ BothSigns(rows) \in Seq(Seq(Signs)) /\ Len(BothSigns(rows)) = Len(rows) + Len(rows)
         /\ \A r \in 1 .. Len(rows) : BothSigns(rows)[r] = Append(rows[r], <<1, 0>>)
         /\ \A r \in 1 .. Len(rows) : BothSigns(rows)[Len(rows) + r] = Append(rows[r], <<-1, 0>>)
<1> DEFINE a == WithSign(rows, 1)
           b == WithSign(rows, -1)
<1>1. /\ a \in Seq(Seq(Signs)) /\ Len(a) = Len(rows)
      /\ \A r \in 1 .. Len(rows) : a[r] = Append(rows[r], <<1, 0>>)
  BY SignAppended
<1>2. /\ b \in Seq(Seq(Signs)) /\ Len(b) = Len(rows)
      /\ \A r \in 1 .. Len(rows) : b[r] = Append(rows[r], <<-1, 0>>)
  BY SignAppended
<1> HIDE DEF a, b
<1>3. /\ a \o b \in Seq(Seq(Signs)) /\ Len(a \o b) = Len(a) + Len(b)
      /\ \A i \in 1 .. Len(a) : (a \o b)[i] = a[i]
      /\ \A j \in 1 .. Len(b) : (a \o b)[Len(a) + j] = b[j]
  <2> DEFINE S == Seq(Signs)
  <2>1. a \in Seq(S) /\ b \in Seq(S)
    BY <1>1, <1>2
  <2> HIDE DEF S
  <2>2. /\ a \o b \in Seq(S) /\ Len(a \o b) = Len(a) + Len(b)
        /\ \A i \in 1 .. Len(a) : (a \o b)[i] = a[i]
        /\ \A j \in 1 .. Len(b) : (a \o b)[Len(a) + j] = b[j]
    BY <2>1, OnePartMore
  <2> QED
    BY <2>2 DEF S
<1>4. BothSigns(rows) = a \o b
  BY DEF BothSigns, a, b
<1> QED
  BY <1>1, <1>2, <1>3, <1>4

LEMMA RowsRecur ==
  /\ SignRows[0] = << <<>> >>
  /\ \A n \in Nat : SignRows[n] \in Seq(Seq(Signs)) /\ SignRows[n + 1] = BothSigns(SignRows[n])
<1> DEFINE V == Seq(Seq(Signs))
           step == [n \in Nat |-> [rows \in V |-> BothSigns(rows)]]
           F(f) == [n \in Nat |-> IF n = 0 THEN << <<>> >>
                                  ELSE WithSign(f[n - 1], 1) \o WithSign(f[n - 1], -1)]
           chosen == CHOOSE f : f = F(f)
<1>1. << <<>> >> \in V
  OBVIOUS
<1>2. step \in [Nat -> [V -> V]]
  BY BothSignsTyped
<1>3. PICK it \in [Nat -> V] : IsIteration(it, << <<>> >>, step)
  <2> HIDE DEF step, V
  <2> QED
    BY <1>1, <1>2, StepByStep
<1>4. \A n \in Nat : it[n] \in V /\ it[n + 1] = BothSigns(it[n])
  BY <1>3 DEF IsIteration
<1>5. it[0] = << <<>> >>
  BY <1>3 DEF IsIteration
<1>6. it = F(it)
  <2> SUFFICES ASSUME NEW n \in Nat
               PROVE  it[n] = IF n = 0 THEN << <<>> >> ELSE WithSign(it[n - 1], 1) \o WithSign(it[n - 1], -1)
    BY <1>3
  <2>1. CASE n = 0
    BY <1>5, <2>1
  <2>2. CASE n # 0
    <3>1. n - 1 \in Nat /\ (n - 1) + 1 = n
      BY <2>2
    <3> QED
      BY <1>4, <2>2, <3>1 DEF BothSigns
  <2> QED
    BY <2>1, <2>2
<1>7. SignRows = chosen
  BY DEF SignRows
<1>8. chosen = F(chosen)
  <2> HIDE DEF F
  <2> QED
    BY <1>6
<1> HIDE DEF chosen
<1>9. chosen[0] = << <<>> >>
  BY <1>8
<1>10. ASSUME NEW n \in Nat
       PROVE  chosen[n + 1] = BothSigns(chosen[n])
  <2>1. n + 1 \in Nat /\ n + 1 # 0 /\ (n + 1) - 1 = n
    OBVIOUS
  <2>2. chosen[n + 1] = WithSign(chosen[(n + 1) - 1], 1) \o WithSign(chosen[(n + 1) - 1], -1)
    BY <1>8, <2>1
  <2> QED
    BY <2>1, <2>2 DEF BothSigns
<1> DEFINE T == {n \in Nat : chosen[n] \in V}
<1>11. 0 \in T
  BY <1>1, <1>9
<1>12. ASSUME NEW n \in Nat, n \in T PROVE n + 1 \in T
  <2>1. chosen[n] \in V /\ n + 1 \in Nat
    BY <1>12
  <2>2. BothSigns(chosen[n]) \in V
    BY <2>1, BothSignsTyped
  <2> QED
    BY <1>10, <2>1, <2>2
<1> HIDE DEF T
<1>13. \A n \in Nat : n \in T
  BY <1>11, <1>12, NumberByNumber
<1> QED
  BY <1>7, <1>9, <1>10, <1>13 DEF T

\* Every row of SignRows[n] has n samples.
LEMMA RowsAreAsLong ==
  \A n \in Nat : /\ SignRows[n] \in Seq(Seq(Signs)) /\ SignRows[n + 1] = BothSigns(SignRows[n])
                 /\ \A r \in 1 .. Len(SignRows[n]) : SignRows[n][r] \in [1 .. n -> Signs]
<1> DEFINE T == {n \in Nat : \A r \in 1 .. Len(SignRows[n]) : Len(SignRows[n][r]) = n}
<1>1. 0 \in T
  <2>1. SignRows[0] = << <<>> >>
    BY RowsRecur
  <2>2. \A r \in 1 .. Len(<< <<>> >>) : Len(<< <<>> >>[r]) = 0
    OBVIOUS
  <2>3. \A r \in 1 .. Len(SignRows[0]) : Len(SignRows[0][r]) = 0
    BY <2>1, <2>2, Zenon
  <2> QED
    BY <2>3
<1>2. ASSUME NEW n \in Nat, n \in T PROVE n + 1 \in T
  <2> SUFFICES ASSUME NEW r \in 1 .. Len(SignRows[n + 1]) PROVE Len(SignRows[n + 1][r]) = n + 1
    OBVIOUS
  <2> DEFINE rows == SignRows[n]
             more == SignRows[n + 1]
  <2>1. rows \in Seq(Seq(Signs)) /\ more = BothSigns(rows)
    BY RowsRecur
  <2>2. \A i \in 1 .. Len(rows) : Len(rows[i]) = n
    BY <1>2
  <2> HIDE DEF rows, more
  <2>3. /\ Len(more) = Len(rows) + Len(rows)
        /\ \A i \in 1 .. Len(rows) : more[i] = Append(rows[i], <<1, 0>>)
        /\ \A i \in 1 .. Len(rows) : more[Len(rows) + i] = Append(rows[i], <<-1, 0>>)
    BY <2>1, BothSignsTyped
  <2>4. PICK i \in 1 .. Len(rows) : \E s \in Signs : more[r] = Append(rows[i], s)
    <3>1. r \in 1 .. Len(rows) + Len(rows) /\ Len(rows) \in Nat
      BY <2>1, <2>3 DEF more
    <3>2. <<1, 0>> \in Signs /\ <<-1, 0>> \in Signs
      BY DEF Signs
    <3>3. CASE r <= Len(rows)
      <4>1. r \in 1 .. Len(rows)
        BY <3>1, <3>3
      <4> QED
        BY <2>3, <3>2, <4>1
    <3>4. CASE r > Len(rows)
      <4>1. PICK i \in 1 .. Len(rows) : r = Len(rows) + i
        <5>1. r - Len(rows) \in 1 .. Len(rows) /\ r = Len(rows) + (r - Len(rows))
          BY <3>1, <3>4
        <5> QED
          BY <5>1
      <4> QED
        BY <2>3, <3>2, <4>1
    <3> QED
      BY <3>1, <3>3, <3>4
  <2>5. PICK s \in Signs : more[r] = Append(rows[i], s)
    BY <2>4
  <2>6. rows[i] \in Seq(Signs) /\ Len(rows[i]) = n
    BY <2>1, <2>2
  <2>7. Len(more[r]) = n + 1
    BY <2>5, <2>6, AppendProperties
  <2> QED
    BY <2>7 DEF more
<1> HIDE DEF T
<1>3. \A n \in Nat : n \in T
  BY <1>1, <1>2, NumberByNumber
<1> SUFFICES ASSUME NEW n \in Nat, NEW r \in 1 .. Len(SignRows[n])
             PROVE  SignRows[n][r] \in [1 .. n -> Signs]
  BY RowsRecur
<1>4. SignRows[n] \in Seq(Seq(Signs))
  BY RowsRecur
<1>5. SignRows[n][r] \in Seq(Signs)
  BY <1>4
<1>6. Len(SignRows[n][r]) = n
  BY <1>3 DEF T
<1> QED
  BY <1>5, <1>6

-----------------------------------------------------------------------------
\* The residual of all these rows.

Bends(rows) == [r \in 1 .. Len(rows) |-> second_differences(rows[r])]

\* Whether the last two samples of a row agree.
Agree(rows, n) == [r \in 1 .. Len(rows) |-> rows[r][n][1] * rows[r][n - 1][1]]

LEMMA BothContinuations ==
  ASSUME NEW x \in Signs, NEW y \in Signs
  PROVE  cnorm2(csub(cscale(y, 2), cadd(x, <<1, 0>>))) + cnorm2(csub(cscale(y, 2), cadd(x, <<-1, 0>>)))
           = 12 - 8 * (y[1] * x[1])
<1>1. CASE x = <<1, 0>> /\ y = <<1, 0>>
  BY <1>1 DEF cnorm2, csub, cscale, cadd
<1>2. CASE x = <<1, 0>> /\ y = <<-1, 0>>
  BY <1>2 DEF cnorm2, csub, cscale, cadd
<1>3. CASE x = <<-1, 0>> /\ y = <<1, 0>>
  BY <1>3 DEF cnorm2, csub, cscale, cadd
<1>4. CASE x = <<-1, 0>> /\ y = <<-1, 0>>
  BY <1>4 DEF cnorm2, csub, cscale, cadd
<1> QED
  BY <1>1, <1>2, <1>3, <1>4 DEF Signs

\* The rows with a sample more, of either sign.
Doubles(rows, more, L, n) ==
  /\ L \in Nat /\ Len(rows) = L /\ Len(more) = L + L
  /\ \A r \in 1 .. L : /\ rows[r] \in [1 .. n -> Signs]
                       /\ more[r] = Append(rows[r], <<1, 0>>)
                       /\ more[L + r] = Append(rows[r], <<-1, 0>>)

LEMMA RowsDouble ==
  ASSUME NEW n \in Nat
  PROVE  Doubles(SignRows[n], SignRows[n + 1], Len(SignRows[n]), n)
<1> DEFINE rows == SignRows[n]
           more == SignRows[n + 1]
<1>1. rows \in Seq(Seq(Signs)) /\ more = BothSigns(rows) /\ \A r \in 1 .. Len(rows) : rows[r] \in [1 .. n -> Signs]
  BY RowsAreAsLong
<1> HIDE DEF rows, more
<1>2. /\ Len(more) = Len(rows) + Len(rows)
      /\ \A r \in 1 .. Len(rows) : more[r] = Append(rows[r], <<1, 0>>)
      /\ \A r \in 1 .. Len(rows) : more[Len(rows) + r] = Append(rows[r], <<-1, 0>>)
  BY <1>1, BothSignsTyped
<1>3. Len(rows) \in Nat
  BY <1>1
<1>4. Doubles(rows, more, Len(rows), n)
  BY <1>1, <1>2, <1>3 DEF Doubles
<1> QED
  BY <1>4 DEF rows, more

\* A row with a sample more.
LEMMA RowGrown ==
  ASSUME NEW n \in Nat, n > 0, NEW row \in [1 .. n -> Signs], NEW s \in Signs
  PROVE  Append(row, s)[n + 1] = s /\ Append(row, s)[n] = row[n] /\ row[n] \in Signs
<1>1. row \in Seq(Signs) /\ Len(row) = n /\ n \in 1 .. n
  OBVIOUS
<1>2. Append(row, s)[n + 1] = s /\ \A i \in 1 .. n : Append(row, s)[i] = row[i]
  BY <1>1, AppendProperties
<1> QED
  BY <1>1, <1>2

\* Half of the rows end in two samples that agree.
LEMMA AgreementCancels ==
  ASSUME NEW n \in Nat, n > 0, NEW rows, NEW more, NEW L, Doubles(rows, more, L, n)
  PROVE  Agree(more, n + 1) \in [1 .. L + L -> Int] /\ Total(Agree(more, n + 1)) = 0
<1> DEFINE seq == Agree(more, n + 1)
           a == [r \in 1 .. L |-> rows[r][n][1]]
           b == [r \in 1 .. L |-> -rows[r][n][1]]
           zeros == [r \in 1 .. L |-> 0]
<1>1. /\ L \in Nat /\ Len(more) = L + L
      /\ \A r \in 1 .. L : /\ rows[r] \in [1 .. n -> Signs]
                           /\ more[r] = Append(rows[r], <<1, 0>>)
                           /\ more[L + r] = Append(rows[r], <<-1, 0>>)
  BY DEF Doubles
<1>2. \A r \in 1 .. L : rows[r][n] \in Signs
  BY <1>1
<1>3. \A s \in Signs : s[1] \in {1, -1}
  BY DEF Signs
<1>4. a \in [1 .. L -> Int] /\ b \in [1 .. L -> Int] /\ zeros \in [1 .. L -> Int]
  BY <1>2, <1>3
<1>5. seq = [r \in 1 .. L + L |-> more[r][n + 1][1] * more[r][n][1]]
  <2>1. (n + 1) - 1 = n
    OBVIOUS
  <2> QED
    BY <1>1, <2>1 DEF Agree
<1>6. ASSUME NEW r \in 1 .. L
      PROVE  seq[r] = a[r] /\ seq[L + r] = b[r]
  <2>1. <<1, 0>> \in Signs /\ <<-1, 0>> \in Signs
    BY DEF Signs
  <2>2. rows[r] \in [1 .. n -> Signs]
    BY <1>1
  <2>3. more[r][n + 1] = <<1, 0>> /\ more[r][n] = rows[r][n]
    <3>1. Append(rows[r], <<1, 0>>)[n + 1] = <<1, 0>> /\ Append(rows[r], <<1, 0>>)[n] = rows[r][n]
      BY <2>2, <2>1, RowGrown
    <3> QED
      BY <1>1, <3>1
  <2>4. more[L + r][n + 1] = <<-1, 0>> /\ more[L + r][n] = rows[r][n]
    <3>1. Append(rows[r], <<-1, 0>>)[n + 1] = <<-1, 0>> /\ Append(rows[r], <<-1, 0>>)[n] = rows[r][n]
      BY <2>2, <2>1, RowGrown
    <3> QED
      BY <1>1, <3>1
  <2>5. r \in 1 .. L + L /\ L + r \in 1 .. L + L
    BY <1>1
  <2>6. seq[r] = more[r][n + 1][1] * more[r][n][1] /\ seq[L + r] = more[L + r][n + 1][1] * more[L + r][n][1]
    BY <1>5, <2>5
  <2>7. PICK x \in Int : x = rows[r][n][1]
    BY <1>2, <1>3
  <2>8. a[r] = x /\ b[r] = -x
    BY <2>7
  <2> HIDE DEF seq, a, b
  <2>9. 1 * x = x /\ (-1) * x = -x
    OBVIOUS
  <2> QED
    BY <2>3, <2>4, <2>6, <2>7, <2>8, <2>9
<1>7. seq \in [1 .. L + L -> Int]
  <2>1. ASSUME NEW r \in 1 .. L + L PROVE seq[r] \in Int
    <3>1. CASE r <= L
      <4>1. r \in 1 .. L
        BY <1>1, <3>1
      <4> HIDE DEF seq, a
      <4> QED
        BY <1>4, <1>6, <4>1
    <3>2. CASE r > L
      <4>1. r - L \in 1 .. L /\ L + (r - L) = r
        BY <1>1, <3>2
      <4> HIDE DEF seq, b
      <4> QED
        BY <1>4, <1>6, <4>1
    <3> QED
      BY <1>1, <3>1, <3>2
  <2> QED
    BY <1>5, <2>1
<1>8. \A r \in 1 .. L : a[r] + b[r] = zeros[r]
  <2> SUFFICES ASSUME NEW r \in 1 .. L PROVE a[r] + b[r] = zeros[r]
    OBVIOUS
  <2>1. PICK x \in Int : x = rows[r][n][1]
    BY <1>2, <1>3
  <2> QED
    BY <2>1
<1>9. Total(zeros) = 0
  <2>1. PICK z \in Int : z = 0
    OBVIOUS
  <2>2. Total([r \in 1 .. L |-> z]) = z * L
    BY <1>1, TotalOfConstant
  <2>3. z * L = 0 /\ zeros = [r \in 1 .. L |-> z]
    BY <1>1, <2>1
  <2> QED
    BY <2>2, <2>3
<1> HIDE DEF seq, a, b, zeros
<1>10. Total(seq) = Total(a) + Total(b)
  <2>1. Joins(seq, a, b, L, L)
    BY <1>1, <1>4, <1>6, <1>7 DEF Joins
  <2> QED
    BY <2>1, TotalOfJoined
<1>11. Total(a) + Total(b) = Total(zeros)
  BY <1>1, <1>4, <1>8, TotalOfBoth
<1> QED
  BY <1>1, <1>7, <1>9, <1>10, <1>11 DEF seq

\* What both continuations of a row add.
LEMMA BendsOfBoth ==
  ASSUME NEW n \in Nat, n >= 2, NEW row \in [1 .. n -> Signs]
  PROVE  /\ second_differences(row) \in Int
         /\ second_differences(Append(row, <<1, 0>>)) \in Int
         /\ second_differences(Append(row, <<-1, 0>>)) \in Int
         /\ second_differences(Append(row, <<1, 0>>)) + second_differences(Append(row, <<-1, 0>>))
              = 2 * second_differences(row) + 12 - 8 * (row[n][1] * row[n - 1][1])
<1> DEFINE p == cnorm2(csub(cscale(row[n], 2), cadd(row[n - 1], <<1, 0>>)))
           q == cnorm2(csub(cscale(row[n], 2), cadd(row[n - 1], <<-1, 0>>)))
<1>1. row \in [1 .. n -> Complex] /\ n \in 1 .. n /\ n - 1 \in 1 .. n
  BY SignsAreComplex
<1>2. row[n] \in Signs /\ row[n - 1] \in Signs
  BY <1>1
<1>3. <<1, 0>> \in Complex /\ <<-1, 0>> \in Complex /\ row[n] \in Complex /\ row[n - 1] \in Complex
  BY <1>1 DEF Complex
<1>4. p \in Nat /\ q \in Nat
  BY <1>3, BendTyped
<1>5. p + q = 12 - 8 * (row[n][1] * row[n - 1][1])
  BY <1>2, BothContinuations
<1> HIDE DEF p, q
<1>6. second_differences(Append(row, <<1, 0>>)) = second_differences(row) + p /\ second_differences(row) \in Int
  BY <1>1, <1>3, OneBendMore DEF p
<1>7. second_differences(Append(row, <<-1, 0>>)) = second_differences(row) + q
  BY <1>1, <1>3, OneBendMore DEF q
<1>8. PICK c \in Int : c = row[n][1] * row[n - 1][1]
  <2>1. \A s \in Signs : s[1] \in Int
    BY DEF Signs
  <2> QED
    BY <1>2, <2>1
<1>9. PICK d \in Int, u \in Int, v \in Int : d = second_differences(row) /\ u = p /\ v = q
  BY <1>4, <1>6
<1>10. u + v = 12 - 8 * c
  BY <1>5, <1>8, <1>9
<1>11. (d + u) + (d + v) = 2 * d + 12 - 8 * c /\ d + u \in Int /\ d + v \in Int
  BY <1>10
<1>12. second_differences(Append(row, <<1, 0>>)) = d + u /\ second_differences(Append(row, <<-1, 0>>)) = d + v
  BY <1>6, <1>7, <1>9
<1> QED
  BY <1>8, <1>9, <1>11, <1>12

Continue(a, b, s, c, n) ==
  /\ a \in [1 .. n -> Int] /\ b \in [1 .. n -> Int] /\ s \in [1 .. n -> Int] /\ c \in [1 .. n -> Int]
  /\ \A k \in 1 .. n : a[k] + b[k] = 2 * s[k] + 12 - 8 * c[k]

\* Two sequences whose elements are made of those of two others.
LEMMA TotalOfContinuations ==
  ASSUME NEW n \in Nat, NEW a, NEW b, NEW s, NEW c, Continue(a, b, s, c, n)
  PROVE  Total(a) + Total(b) = 2 * Total(s) + 12 * n - 8 * Total(c)
<1>1. a \in [1 .. n -> Int] /\ b \in [1 .. n -> Int] /\ s \in [1 .. n -> Int] /\ c \in [1 .. n -> Int]
  BY DEF Continue
<1>2. PICK p : SumsUp(p, a, n) /\ Total(a) = p[n]
  BY <1>1, TotalSumsUp
<1>3. PICK q : SumsUp(q, b, n) /\ Total(b) = q[n]
  BY <1>1, TotalSumsUp
<1>4. PICK u : SumsUp(u, s, n) /\ Total(s) = u[n]
  BY <1>1, TotalSumsUp
<1>5. PICK v : SumsUp(v, c, n) /\ Total(c) = v[n]
  BY <1>1, TotalSumsUp
<1> DEFINE T == {k \in Nat : k <= n => p[k] + q[k] = 2 * u[k] + 12 * k - 8 * v[k]}
<1>6. \A k \in Nat : k < n => p[k + 1] = p[k] + a[k + 1] /\ p[k] \in Int
  BY <1>2, OneAdded
<1>7. \A k \in Nat : k < n => q[k + 1] = q[k] + b[k + 1] /\ q[k] \in Int
  BY <1>3, OneAdded
<1>8. \A k \in Nat : k < n => u[k + 1] = u[k] + s[k + 1] /\ u[k] \in Int
  BY <1>4, OneAdded
<1>9. \A k \in Nat : k < n => v[k + 1] = v[k] + c[k + 1] /\ v[k] \in Int
  BY <1>5, OneAdded
<1>10. 0 \in T
  BY <1>2, <1>3, <1>4, <1>5 DEF SumsUp
<1>11. ASSUME NEW k \in Nat, k \in T PROVE k + 1 \in T
  <2> SUFFICES ASSUME k + 1 <= n PROVE p[k + 1] + q[k + 1] = 2 * u[k + 1] + 12 * (k + 1) - 8 * v[k + 1]
    OBVIOUS
  <2>1. k < n /\ p[k] + q[k] = 2 * u[k] + 12 * k - 8 * v[k] /\ k + 1 \in 1 .. n
    BY <1>11
  <2>2. p[k + 1] = p[k] + a[k + 1] /\ p[k] \in Int /\ q[k + 1] = q[k] + b[k + 1] /\ q[k] \in Int
    BY <1>6, <1>7, <2>1
  <2>3. u[k + 1] = u[k] + s[k + 1] /\ u[k] \in Int /\ v[k + 1] = v[k] + c[k + 1] /\ v[k] \in Int
    BY <1>8, <1>9, <2>1
  <2>4. a[k + 1] + b[k + 1] = 2 * s[k + 1] + 12 - 8 * c[k + 1]
    BY <2>1 DEF Continue
  <2>5. a[k + 1] \in Int /\ b[k + 1] \in Int /\ s[k + 1] \in Int /\ c[k + 1] \in Int
    BY <1>1, <2>1
  <2>6. PICK pk \in Int, qk \in Int, uk \in Int, vk \in Int : pk = p[k] /\ qk = q[k] /\ uk = u[k] /\ vk = v[k]
    BY <2>2, <2>3
  <2>7. PICK ak \in Int, bk \in Int, sk \in Int, ck \in Int :
          ak = a[k + 1] /\ bk = b[k + 1] /\ sk = s[k + 1] /\ ck = c[k + 1]
    BY <2>5
  <2>8. (pk + ak) + (qk + bk) = 2 * (uk + sk) + 12 * (k + 1) - 8 * (vk + ck)
    <3>1. pk + qk = 2 * uk + 12 * k - 8 * vk
      BY <2>1, <2>6
    <3>2. ak + bk = 2 * sk + 12 - 8 * ck
      BY <2>4, <2>7
    <3> QED
      BY <3>1, <3>2
  <2> QED
    BY <2>2, <2>3, <2>6, <2>7, <2>8
<1> HIDE DEF T
<1>12. n \in T
  BY <1>10, <1>11, NumberByNumber
<1> QED
  BY <1>2, <1>3, <1>4, <1>5, <1>12 DEF T

LEMMA BendsGrow ==
  ASSUME NEW n \in Nat, n >= 2, NEW rows, NEW more, NEW L, Doubles(rows, more, L, n),
         Agree(rows, n) \in [1 .. L -> Int], Total(Agree(rows, n)) = 0
  PROVE  Total(Bends(rows)) \in Int /\ Total(Bends(more)) = 2 * Total(Bends(rows)) + 12 * L
<1> DEFINE s == Bends(rows)
           c == Agree(rows, n)
           a == [r \in 1 .. L |-> second_differences(more[r])]
           b == [r \in 1 .. L |-> second_differences(more[L + r])]
<1>1. /\ L \in Nat /\ Len(rows) = L /\ Len(more) = L + L
      /\ \A r \in 1 .. L : /\ rows[r] \in [1 .. n -> Signs]
                           /\ more[r] = Append(rows[r], <<1, 0>>)
                           /\ more[L + r] = Append(rows[r], <<-1, 0>>)
  BY DEF Doubles
<1>2. s = [r \in 1 .. L |-> second_differences(rows[r])]
  BY <1>1 DEF Bends
<1>3. c = [r \in 1 .. L |-> rows[r][n][1] * rows[r][n - 1][1]]
  BY <1>1 DEF Agree
<1>4. ASSUME NEW r \in 1 .. L
      PROVE  s[r] \in Int /\ a[r] \in Int /\ b[r] \in Int /\ a[r] + b[r] = 2 * s[r] + 12 - 8 * c[r]
  <2>1. rows[r] \in [1 .. n -> Signs]
    BY <1>1
  <2>2. a[r] = second_differences(Append(rows[r], <<1, 0>>)) /\ b[r] = second_differences(Append(rows[r], <<-1, 0>>))
    BY <1>1
  <2>3. s[r] = second_differences(rows[r]) /\ c[r] = rows[r][n][1] * rows[r][n - 1][1]
    BY <1>2, <1>3
  <2> HIDE DEF s, c, a, b
  <2> QED
    BY <2>1, <2>2, <2>3, BendsOfBoth
<1>5. s \in [1 .. L -> Int] /\ a \in [1 .. L -> Int] /\ b \in [1 .. L -> Int] /\ c \in [1 .. L -> Int]
  <2> HIDE DEF c
  <2> QED
    BY <1>2, <1>4 DEF c
<1>6. Bends(more) \in [1 .. L + L -> Int] /\ (\A r \in 1 .. L : Bends(more)[r] = a[r] /\ Bends(more)[L + r] = b[r])
  <2>1. Bends(more) = [r \in 1 .. L + L |-> second_differences(more[r])]
    BY <1>1 DEF Bends
  <2>2. \A r \in 1 .. L : r \in 1 .. L + L /\ L + r \in 1 .. L + L
    BY <1>1
  <2>3. \A r \in 1 .. L : Bends(more)[r] = a[r] /\ Bends(more)[L + r] = b[r]
    BY <2>1, <2>2
  <2> HIDE DEF a, b
  <2>4. ASSUME NEW r \in 1 .. L + L PROVE Bends(more)[r] \in Int
    <3>1. CASE r <= L
      <4>1. r \in 1 .. L
        BY <1>1, <3>1
      <4> QED
        BY <1>4, <2>3, <4>1
    <3>2. CASE r > L
      <4>1. r - L \in 1 .. L /\ L + (r - L) = r
        BY <1>1, <3>2
      <4> QED
        BY <1>4, <2>3, <4>1
    <3> QED
      BY <1>1, <3>1, <3>2
  <2> QED
    BY <2>1, <2>3, <2>4
<1> HIDE DEF a, b, s, c
<1>7. L \in Nat
  BY <1>1
<1>8. Total(Bends(more)) = Total(a) + Total(b)
  <2>1. Joins(Bends(more), a, b, L, L)
    BY <1>5, <1>6, <1>7 DEF Joins
  <2> QED
    BY <2>1, TotalOfJoined
<1>9. Continue(a, b, s, c, L)
  BY <1>4, <1>5 DEF Continue
<1>10. Total(a) + Total(b) = 2 * Total(s) + 12 * L - 8 * Total(c)
  BY <1>7, <1>9, TotalOfContinuations
<1>11. Total(s) \in Int
  BY <1>5, <1>7, TotalSumsUp
<1>12. Total(c) = 0
  BY DEF c
<1>13. Total(Bends(more)) = 2 * Total(s) + 12 * L
  BY <1>7, <1>8, <1>10, <1>11, <1>12
<1> QED
  BY <1>11, <1>13 DEF s

\* The residual of rows of every sign, and how many samples it is the mean of.
LEMMA NoiseMeasured ==
  ASSUME NEW n \in Nat, n >= 2
  PROVE  \E L \in Nat : /\ Len(SignRows[n]) = L
                        /\ Total(Bends(SignRows[n])) = 6 * ((n - 2) * L)
<1> DEFINE T == {m \in Nat : \E L \in Nat : /\ Len(SignRows[m + 2]) = L
                                            /\ Total(Bends(SignRows[m + 2])) = 6 * (m * L)
                                            /\ Agree(SignRows[m + 2], m + 2) \in [1 .. L -> Int]
                                            /\ Total(Agree(SignRows[m + 2], m + 2)) = 0}
<1>1. 0 \in T
  <2>1. PICK one \in Nat, two_ \in Nat : one = 1 /\ two_ = 2 /\ one + 1 = two_ /\ one > 0
    OBVIOUS
  <2>2. PICK rows, more, L : rows = SignRows[one] /\ more = SignRows[one + 1] /\ L = Len(SignRows[one])
    OBVIOUS
  <2>3. Doubles(rows, more, L, one)
    BY <2>2, RowsDouble
  <2>4. Agree(more, one + 1) \in [1 .. L + L -> Int] /\ Total(Agree(more, one + 1)) = 0
    BY <2>1, <2>3, AgreementCancels
  <2>5. L \in Nat /\ L + L \in Nat /\ Len(more) = L + L
    BY <2>3 DEF Doubles
  <2>6. \A r \in 1 .. L + L : more[r] \in [1 .. two_ -> Complex]
    <3>1. \A r \in 1 .. Len(SignRows[two_]) : SignRows[two_][r] \in [1 .. two_ -> Signs]
      BY RowsAreAsLong
    <3> QED
      BY <2>1, <2>2, <2>5, <3>1, SignsAreComplex
  <2>7. Bends(more) = [r \in 1 .. L + L |-> 0]
    <3>1. \A r \in 1 .. L + L : second_differences(more[r]) = 0
      BY <2>1, <2>6, NoBends
    <3> QED
      BY <2>5, <3>1 DEF Bends
  <2>8. Total(Bends(more)) = 0
    <3>1. PICK z \in Int, k \in Nat : z = 0 /\ k = L + L
      BY <2>5
    <3>2. Total([r \in 1 .. k |-> z]) = z * k
      BY TotalOfConstant
    <3>3. z * k = 0
      BY <3>1
    <3> QED
      BY <2>7, <3>1, <3>2, <3>3
  <2>9. 6 * (0 * (L + L)) = 0 /\ 0 + 2 = two_
    BY <2>1, <2>5
  <2> QED
    BY <2>1, <2>2, <2>4, <2>5, <2>8, <2>9
<1>2. ASSUME NEW m \in Nat, m \in T PROVE m + 1 \in T
  <2>1. PICK k \in Nat : k = m + 2 /\ k >= 2 /\ k > 0 /\ (m + 1) + 2 = k + 1
    OBVIOUS
  <2>2. PICK rows, more : rows = SignRows[k] /\ more = SignRows[k + 1]
    OBVIOUS
  <2>3. PICK L \in Nat : /\ Len(rows) = L /\ Total(Bends(rows)) = 6 * (m * L)
                         /\ Agree(rows, k) \in [1 .. L -> Int] /\ Total(Agree(rows, k)) = 0
    BY <1>2, <2>1, <2>2
  <2>4. Doubles(rows, more, L, k)
    BY <2>2, <2>3, RowsDouble
  <2>5. Agree(more, k + 1) \in [1 .. L + L -> Int] /\ Total(Agree(more, k + 1)) = 0
    BY <2>1, <2>4, AgreementCancels
  <2>6. Total(Bends(more)) = 2 * Total(Bends(rows)) + 12 * L
    BY <2>1, <2>3, <2>4, BendsGrow
  <2>7. 2 * (6 * (m * L)) + 12 * L = 6 * ((m + 1) * (L + L))
    <3>1. PICK x \in Int : x = m * L
      OBVIOUS
    <3>2. (m + 1) * (L + L) = 2 * (m * L) + 2 * L
      OBVIOUS
    <3> QED
      BY <3>1, <3>2
  <2>8. L + L \in Nat /\ Len(more) = L + L
    BY <2>4 DEF Doubles
  <2>9. Total(Bends(more)) = 6 * ((m + 1) * (L + L))
    BY <2>3, <2>6, <2>7
  <2> QED
    BY <2>1, <2>2, <2>5, <2>8, <2>9
<1> HIDE DEF T
<1>3. PICK m \in Nat : m = n - 2 /\ n = m + 2
  OBVIOUS
<1>4. m \in T
  BY <1>1, <1>2, NumberByNumber
<1> QED
  BY <1>3, <1>4 DEF T

\* The residual of noise alone is its power on average.
LEMMA ResidualIsThePower ==
  ASSUME NEW n \in Nat, n >= 2, NEW e, e = sigma2_estimate(SignRows[n])
  PROVE  4 * e.num = e.den
<1> DEFINE rows == SignRows[n]
<1>1. rows \in Seq(Seq(Signs)) /\ \A r \in 1 .. Len(rows) : rows[r] \in [1 .. n -> Signs]
  BY RowsAreAsLong
<1>2. PICK L \in Nat : Len(rows) = L /\ Total(Bends(rows)) = 6 * ((n - 2) * L)
  BY NoiseMeasured
<1> HIDE DEF rows
<1>3. DOMAIN rows = 1 .. L
  BY <1>1, <1>2
<1>4. e.num = Total(Bends(rows))
  <2>1. e.num = Total([r \in DOMAIN rows |-> second_differences(rows[r])])
    BY DEF sigma2_estimate, rows
  <2> QED
    BY <1>2, <1>3, <2>1 DEF Bends
<1>5. e.den = 24 * Total([r \in 1 .. L |-> n - 2])
  <2>1. e.den = 24 * Total([r \in DOMAIN rows |-> Len(rows[r]) - 2])
    BY DEF sigma2_estimate, rows
  <2>2. \A r \in 1 .. L : Len(rows[r]) = n
    BY <1>1, <1>2
  <2>3. [r \in DOMAIN rows |-> Len(rows[r]) - 2] = [r \in 1 .. L |-> n - 2]
    BY <1>3, <2>2
  <2> QED
    BY <2>1, <2>3
<1>6. PICK c \in Int : c = n - 2
  OBVIOUS
<1>7. Total([r \in 1 .. L |-> c]) = c * L
  BY TotalOfConstant
<1>8. PICK x \in Int : x = c * L
  OBVIOUS
<1> QED
  BY <1>2, <1>4, <1>5, <1>6, <1>7, <1>8

-----------------------------------------------------------------------------
\* The pilots.

Corners == {1, -1} \X {1, -1}

LEMMA PilotSeed ==
  ASSUME NEW cell_id \in 0 .. 503, NEW subframe \in 0 .. 9, NEW symbol \in 0 .. 13
  PROVE  crs_c_init(cell_id, subframe, symbol) \in Nat /\ crs_c_init(cell_id, subframe, symbol) < 2^31
<1>1. PICK half \in 0 .. 1, rest \in 0 .. 6 : half = symbol \div 7 /\ rest = symbol % 7
  OBVIOUS
<1>2. PICK a \in Nat : a = 7 * ((2 * subframe + half) + 1) + rest + 1 /\ a <= 147
  OBVIOUS
<1>3. PICK b \in Nat : b = 2 * cell_id + 1 /\ b <= 1007
  OBVIOUS
<1>4. crs_c_init(cell_id, subframe, symbol) = 1024 * a * b + b
  <2>1. 2^10 = 1024
    OBVIOUS
  <2>2. crs_c_init(cell_id, subframe, symbol)
          = 2^10 * (7 * ((2 * subframe + symbol \div 7) + 1) + (symbol % 7) + 1) * (2 * cell_id + 1) + 2 * cell_id + 1
    BY DEF crs_c_init
  <2>3. 1024 * a * b + 2 * cell_id + 1 = 1024 * a * b + b
    BY <1>3
  <2> QED
    BY <1>1, <1>2, <1>3, <2>1, <2>2, <2>3
<1>5. a * b \in Nat /\ a * b <= 147 * 1007 /\ 1024 * a * b = 1024 * (a * b)
  <2>1. a * b <= 147 * b
    BY <1>2, <1>3
  <2> QED
    BY <1>2, <1>3, <2>1
<1> QED
  BY <1>3, <1>4, <1>5

LEMMA PilotsAreStandard ==
  ASSUME NEW cell_id \in 0 .. 503, NEW subframe \in 0 .. 9, NEW symbol \in 0 .. 13, NEW count \in Nat
  PROVE  /\ crs_values(cell_id, subframe, symbol, count) = StandardPilots(cell_id, subframe, symbol, count)
         /\ crs_values(cell_id, subframe, symbol, count) \in [1 .. count -> Corners]
<1> DEFINE c_init == crs_c_init(cell_id, subframe, symbol)
           bits == generate_scrambling_bits(c_init, 2 * count)
<1>1. c_init \in Nat /\ c_init < 2^31 /\ 2 * count \in Nat
  <2>1. c_init \in Nat /\ c_init < 2^31
    BY PilotSeed, Zenon
  <2>2. 2 * count \in Nat
    OBVIOUS
  <2> QED
    BY <2>1, <2>2, Zenon
<1> HIDE DEF c_init
<1>2. bits = StandardBits(c_init, 2 * count)
  BY <1>1, ScramblingFollowsTheStandard
<1>3. bits \in Seq(Bits) /\ Len(bits) = 2 * count
  <2>1. init_gold(c_init) \in Registers
    BY <1>1, SeedTyped, SeedShown DEF init_gold
  <2>2. bits = stepped[2 * count][init_gold(c_init)]
    BY <1>1, <2>1, UnrolledIsStepped, SteppedSamples DEF generate_scrambling_bits
  <2> QED
    BY <1>1, <2>1, <2>2, SteppedSamples
<1>4. /\ crs_values(cell_id, subframe, symbol, count)
           = [k \in 1 .. count |-> <<1 - 2 * bits[2 * k - 1], 1 - 2 * bits[2 * k]>>]
      /\ StandardPilots(cell_id, subframe, symbol, count)
           = [k \in 1 .. count |-> <<1 - 2 * bits[2 * k - 1], 1 - 2 * bits[2 * k]>>]
  BY <1>2 DEF crs_values, StandardPilots, c_init
<1> HIDE DEF bits
<1>5. ASSUME NEW k \in 1 .. count
      PROVE  <<1 - 2 * bits[2 * k - 1], 1 - 2 * bits[2 * k]>> \in Corners
  <2>1. 2 * k - 1 \in 1 .. 2 * count /\ 2 * k \in 1 .. 2 * count
    OBVIOUS
  <2>2. bits[2 * k - 1] \in {0, 1} /\ bits[2 * k] \in {0, 1}
    BY <1>3, <2>1 DEF Bits
  <2> QED
    BY <2>2 DEF Corners
<1> QED
  BY <1>4, <1>5

-----------------------------------------------------------------------------
\* Where the ports send them.

LEMMA PatternRange ==
  ASSUME NEW port \in 0 .. 3
  PROVE  Range(crs_port_pattern(port)) = IF port \in {0, 1} THEN {0, 4, 7, 11} ELSE {1, 8}
<1>1. CASE port \in {0, 1}
  <2>1. crs_port_pattern(port) = <<0, 4, 7, 11>>
    BY <1>1 DEF crs_port_pattern
  <2>2. DOMAIN <<0, 4, 7, 11>> = {1, 2, 3, 4}
    OBVIOUS
  <2>3. Range(<<0, 4, 7, 11>>) = {0, 4, 7, 11}
    BY <2>2 DEF Range
  <2> QED
    BY <1>1, <2>1, <2>3
<1>2. CASE port \notin {0, 1}
  <2>1. crs_port_pattern(port) = <<1, 8>>
    BY <1>2 DEF crs_port_pattern
  <2>2. DOMAIN <<1, 8>> = {1, 2}
    OBVIOUS
  <2>3. Range(<<1, 8>>) = {1, 8}
    BY <2>2 DEF Range
  <2> QED
    BY <1>2, <2>1, <2>3
<1> QED
  BY <1>1, <1>2

LEMMA OffsetTyped ==
  ASSUME NEW cell_id \in Nat, NEW port \in 0 .. 3, NEW symbol
  PROVE  crs_frequency_offset(cell_id, port, symbol) \in 0 .. 5
BY DEF crs_frequency_offset

\* Two ports that send pilots in one symbol send them on different tones.
LEMMA PortsKeepApart ==
  ASSUME NEW cell_id \in Nat, NEW port \in 0 .. 3, NEW other \in 0 .. 3, port # other, NEW symbol,
         symbol \in Range(crs_port_pattern(port)), symbol \in Range(crs_port_pattern(other))
  PROVE  crs_frequency_offset(cell_id, port, symbol) # crs_frequency_offset(cell_id, other, symbol)
<1>1. (0 + cell_id) % 6 # (3 + cell_id) % 6
  OBVIOUS
<1>2. \/ port \in {0, 1} /\ other \in {0, 1}
      \/ port \in {2, 3} /\ other \in {2, 3}
  BY PatternRange
<1> QED
  BY <1>1, <1>2 DEF crs_frequency_offset

-----------------------------------------------------------------------------
\* What is heard of the pilots.

LEMMA AffineTyped ==
  ASSUME NEW h \in Channels, NEW s \in Int, NEW t \in Int
  PROVE  Affine(h, s, t) \in Complex
<1>1. h.base \in Complex /\ h.per_symbol \in Complex /\ h.per_tone \in Complex
  BY DEF Channels
<1>2. cscale(h.per_symbol, s) \in Complex /\ cscale(h.per_tone, t) \in Complex
  BY <1>1, ScaleTyped
<1> QED
  BY <1>1, <1>2, SumTyped DEF Affine

\* A sum with one term.
LEMMA SumOfOne ==
  ASSUME NEW n \in Nat, NEW seq \in [1 .. n -> Complex], NEW j \in 1 .. n,
         \A k \in 1 .. n : k # j => seq[k] = Zero
  PROVE  CSum(seq) = seq[j]
<1>1. PICK p \in [0 .. n -> Complex] :
        /\ p[0] = Zero
        /\ \A k \in 1 .. n : p[k] = cadd(p[k - 1], seq[k])
        /\ CSum(seq) = p[n]
  BY SumsInOrder
<1>2. \A a \in Complex : cadd(a, Zero) = a /\ cadd(Zero, a) = a
  BY DEF Complex, cadd, Zero
<1> DEFINE T == {k \in Nat : k <= n => p[k] = IF k < j THEN Zero ELSE seq[j]}
<1>3. 0 \in T
  BY <1>1
<1>4. ASSUME NEW k \in Nat, k \in T PROVE k + 1 \in T
  <2> SUFFICES ASSUME k + 1 <= n PROVE p[k + 1] = IF k + 1 < j THEN Zero ELSE seq[j]
    OBVIOUS
  <2>1. k + 1 \in 1 .. n /\ (k + 1) - 1 = k /\ k <= n
    OBVIOUS
  <2>2. p[k + 1] = cadd(p[k], seq[k + 1]) /\ seq[k + 1] \in Complex
    BY <1>1, <2>1
  <2>3. p[k] = IF k < j THEN Zero ELSE seq[j]
    BY <1>4, <2>1
  <2>4. seq[j] \in Complex
    OBVIOUS
  <2>5. CASE k + 1 < j
    <3>1. seq[k + 1] = Zero /\ k < j /\ Zero \in Complex
      BY <2>1, <2>5 DEF Zero, Complex
    <3> QED
      BY <1>2, <2>2, <2>3, <2>5, <3>1
  <2>6. CASE k + 1 = j
    <3>1. k < j
      BY <2>6
    <3> QED
      BY <1>2, <2>2, <2>3, <2>4, <2>6, <3>1
  <2>7. CASE k + 1 > j
    <3>1. seq[k + 1] = Zero /\ ~(k < j) /\ ~(k + 1 < j)
      BY <2>1, <2>7
    <3> QED
      BY <1>2, <2>2, <2>3, <2>4, <3>1
  <2> QED
    BY <2>5, <2>6, <2>7
<1> HIDE DEF T
<1>5. n \in T
  BY <1>3, <1>4, NumberByNumber
<1>6. ~(n < j)
  OBVIOUS
<1> QED
  BY <1>1, <1>5, <1>6 DEF T

LEMMA PilotTone ==
  ASSUME NEW cell_id \in Nat, NEW port \in 0 .. 3, NEW symbol, NEW p \in Nat
  PROVE  /\ crs_subcarrier(cell_id, port, symbol, p) \in Nat
         /\ crs_subcarrier(cell_id, port, symbol, p) % 6 = crs_frequency_offset(cell_id, port, symbol)
         /\ crs_subcarrier(cell_id, port, symbol, p) \div 6 = p
<1>1. PICK v \in 0 .. 5 : v = crs_frequency_offset(cell_id, port, symbol)
  BY OffsetTyped
<1>2. 6 * p + v \in Nat /\ (6 * p + v) % 6 = v /\ (6 * p + v) \div 6 = p
  OBVIOUS
<1> QED
  BY <1>1, <1>2 DEF crs_subcarrier

\* The pilots of a port in one of its symbols, over the channels of a cell.
Sends(cell_id, channels, tx, symbol, count, values) ==
  /\ cell_id \in Nat /\ channels \in Seq(Channels) /\ Len(channels) <= 4
  /\ tx \in 1 .. Len(channels) /\ symbol \in Range(crs_port_pattern(tx - 1))
  /\ count \in Nat /\ values \in [1 .. count -> Corners]

\* An antenna hears a port's pilot alone.
LEMMA PilotHeard ==
  ASSUME NEW cell_id, NEW channels, NEW tx, NEW symbol, NEW count, NEW values,
         Sends(cell_id, channels, tx, symbol, count, values), NEW p \in 1 .. count,
         NEW sc, sc = crs_subcarrier(cell_id, tx - 1, symbol, p - 1)
  PROVE  PilotSample(cell_id, channels, symbol, sc, values) = cmul(Affine(channels[tx], symbol, sc), values[p])
<1>1. /\ cell_id \in Nat /\ channels \in Seq(Channels) /\ Len(channels) <= 4
      /\ tx \in 1 .. Len(channels) /\ symbol \in Range(crs_port_pattern(tx - 1))
      /\ count \in Nat /\ values \in [1 .. count -> Corners]
  BY DEF Sends
<1> DEFINE term(k) == cmul(Affine(channels[k], symbol, sc), values[sc \div 6 + 1])
           heard(k) == /\ symbol \in Range(crs_port_pattern(k - 1))
                       /\ sc % 6 = crs_frequency_offset(cell_id, k - 1, symbol)
           seq == [k \in 1 .. Len(channels) |-> IF heard(k) THEN term(k) ELSE Zero]
<1>2. PICK n \in Nat : n = Len(channels)
  BY <1>1
<1>3. tx - 1 \in 0 .. 3 /\ p - 1 \in Nat /\ \A k \in 1 .. n : k - 1 \in 0 .. 3
  BY <1>1, <1>2
<1>4. sc \in Nat /\ sc % 6 = crs_frequency_offset(cell_id, tx - 1, symbol) /\ sc \div 6 = p - 1
  BY <1>1, <1>3, PilotTone
<1>5. sc \div 6 + 1 = p
  BY <1>4
<1>6. symbol \in Nat
  <2>1. symbol \in {0, 4, 7, 11} \/ symbol \in {1, 8}
    BY <1>1, <1>3, PatternRange
  <2> QED
    BY <2>1
<1>7. values[p] \in Complex
  <2>1. values[p] \in Corners
    BY <1>1
  <2> QED
    BY <2>1 DEF Corners, Complex
<1>8. ASSUME NEW k \in 1 .. n PROVE term(k) \in Complex
  <2>1. channels[k] \in Channels /\ symbol \in Int /\ sc \in Int
    BY <1>1, <1>2, <1>4, <1>6
  <2>2. Affine(channels[k], symbol, sc) \in Complex
    BY <2>1, AffineTyped
  <2> QED
    BY <1>5, <1>7, <2>2, ProductTyped
<1> HIDE DEF term
<1>9. heard(tx)
  BY <1>1, <1>4
<1>10. ASSUME NEW k \in 1 .. n, k # tx PROVE ~heard(k)
  <2>1. k - 1 \in 0 .. 3 /\ k - 1 # tx - 1
    BY <1>3, <1>10
  <2> QED
    BY <1>1, <1>3, <1>4, <2>1, PortsKeepApart
<1> HIDE DEF heard
<1>11. Zero \in Complex
  BY DEF Zero, Complex
<1>12. seq \in [1 .. n -> Complex]
  BY <1>1, <1>2, <1>8, <1>11
<1>13. seq[tx] = term(tx) /\ (\A k \in 1 .. n : k # tx => seq[k] = Zero) /\ tx \in 1 .. n
  BY <1>1, <1>2, <1>9, <1>10
<1>14. PilotSample(cell_id, channels, symbol, sc, values) = CSum(seq)
  <2>1. DOMAIN channels = 1 .. Len(channels)
    BY <1>1
  <2>2. PilotSample(cell_id, channels, symbol, sc, values)
          = CSum([k \in DOMAIN channels |-> IF heard(k) THEN term(k) ELSE Zero])
    BY DEF PilotSample, heard, term
  <2> QED
    BY <2>1, <2>2
<1> HIDE DEF seq
<1>15. CSum(seq) = seq[tx]
  BY <1>12, <1>13, SumOfOne
<1> QED
  BY <1>5, <1>13, <1>14, <1>15 DEF term

\* A pilot taken off a sample leaves twice the channel.
LEMMA PilotTakenOff ==
  ASSUME NEW a \in Complex, NEW v \in Corners
  PROVE  cmul(cmul(a, v), cconj(v)) = cscale(a, 2)
<1>1. PICK x \in Int, y \in Int : a = <<x, y>>
  BY DEF Complex
<1>2. CASE v = <<1, 1>>
  BY <1>1, <1>2 DEF cmul, cconj, cscale
<1>3. CASE v = <<1, -1>>
  BY <1>1, <1>3 DEF cmul, cconj, cscale
<1>4. CASE v = <<-1, 1>>
  BY <1>1, <1>4 DEF cmul, cconj, cscale
<1>5. CASE v = <<-1, -1>>
  BY <1>1, <1>5 DEF cmul, cconj, cscale
<1> QED
  BY <1>2, <1>3, <1>4, <1>5 DEF Corners

-----------------------------------------------------------------------------
\* Between the pilots of a symbol.

\* The samples of a port's pilot symbol over an affine channel.
IsRow(ls, h, symbol, offset, n) ==
  /\ ls \in [1 .. n -> Complex]
  /\ \A p \in 1 .. n : ls[p] = cscale(Affine(h, symbol, 6 * (p - 1) + offset), 2)

\* One component of the channel along the tones of a symbol.
LEMMA AffineAlongTones ==
  ASSUME NEW h \in Channels, NEW symbol \in Int
  PROVE  \E c \in Complex : \E t \in Complex :
           \A sc \in Int : Affine(h, symbol, sc) = <<c[1] + sc * t[1], c[2] + sc * t[2]>>
<1>1. h.base \in Complex /\ h.per_symbol \in Complex /\ h.per_tone \in Complex
  BY DEF Channels
<1> DEFINE c == cadd(h.base, cscale(h.per_symbol, symbol))
           t == h.per_tone
<1>2. c \in Complex
  BY <1>1, ScaleTyped, SumTyped
<1>3. ASSUME NEW sc \in Int
      PROVE  Affine(h, symbol, sc) = <<c[1] + sc * t[1], c[2] + sc * t[2]>>
  <2>1. PICK b1 \in Int, b2 \in Int, s1 \in Int, s2 \in Int, t1 \in Int, t2 \in Int :
          h.base = <<b1, b2>> /\ h.per_symbol = <<s1, s2>> /\ h.per_tone = <<t1, t2>>
    <3>1. \A z \in Complex : \E x \in Int, y \in Int : z = <<x, y>>
      BY DEF Complex
    <3>2. PICK b1 \in Int, b2 \in Int : h.base = <<b1, b2>>
      BY <1>1, <3>1
    <3>3. PICK s1 \in Int, s2 \in Int : h.per_symbol = <<s1, s2>>
      BY <1>1, <3>1
    <3>4. PICK t1 \in Int, t2 \in Int : h.per_tone = <<t1, t2>>
      BY <1>1, <3>1
    <3> QED
      BY <3>2, <3>3, <3>4
  <2>2. PICK x1 \in Int, x2 \in Int, y1 \in Int, y2 \in Int :
          x1 = symbol * s1 /\ x2 = symbol * s2 /\ y1 = sc * t1 /\ y2 = sc * t2
    OBVIOUS
  <2>3. cscale(h.per_symbol, symbol) = <<x1, x2>> /\ cscale(h.per_tone, sc) = <<y1, y2>>
    BY <2>1, <2>2 DEF cscale
  <2>4. Affine(h, symbol, sc) = <<b1 + (x1 + y1), b2 + (x2 + y2)>>
    BY <2>1, <2>3 DEF Affine, cadd
  <2>5. c = <<b1 + x1, b2 + x2>>
    BY <2>1, <2>3 DEF cadd
  <2>6. t[1] = t1 /\ t[2] = t2
    BY <2>1
  <2> HIDE DEF c, t
  <2>7. c[1] = b1 + x1 /\ c[2] = b2 + x2
    BY <2>5
  <2>8. b1 + (x1 + y1) = (b1 + x1) + y1 /\ b2 + (x2 + y2) = (b2 + x2) + y2
    OBVIOUS
  <2> QED
    BY <2>2, <2>4, <2>6, <2>7, <2>8
<1> QED
  BY <1>1, <1>2, <1>3

\* Six tones on, the line has risen by as much as its slope says.
LEMMA OnTheLine ==
  ASSUME NEW c \in Int, NEW t \in Int, NEW u \in Int, NEW sc \in Int
  PROVE  6 * (2 * (c + u * t)) + (sc - u) * (2 * (c + (u + 6) * t) - 2 * (c + u * t)) = 12 * (c + sc * t)
<1>1. PICK x \in Int, y \in Int : x = u * t /\ y = sc * t
  OBVIOUS
<1>2. (u + 6) * t = x + 6 * t
  BY <1>1
<1>3. 2 * (c + (u + 6) * t) - 2 * (c + u * t) = 12 * t
  BY <1>1, <1>2
<1>4. (sc - u) * (12 * t) = 12 * y - 12 * x
  BY <1>1
<1>5. 6 * (2 * (c + u * t)) = 12 * c + 12 * x
  BY <1>1
<1>6. 12 * (c + sc * t) = 12 * c + 12 * y
  BY <1>1
<1> QED
  BY <1>3, <1>4, <1>5, <1>6

LEMMA BetweenTwoPilots ==
  ASSUME NEW h \in Channels, NEW symbol \in Int, NEW u \in Int, NEW sc \in Int,
         NEW left, left = cscale(Affine(h, symbol, u), 2),
         NEW right, right = cscale(Affine(h, symbol, u + 6), 2)
  PROVE  cadd(cscale(left, 6), cscale(csub(right, left), sc - u)) = cscale(Affine(h, symbol, sc), 12)
<1>1. PICK c \in Complex, t \in Complex :
        \A z \in Int : Affine(h, symbol, z) = <<c[1] + z * t[1], c[2] + z * t[2]>>
  BY AffineAlongTones
<1>2. PICK c1 \in Int, c2 \in Int, t1 \in Int, t2 \in Int : c1 = c[1] /\ c2 = c[2] /\ t1 = t[1] /\ t2 = t[2]
  BY DEF Complex
<1>3. /\ Affine(h, symbol, u) = <<c1 + u * t1, c2 + u * t2>>
      /\ Affine(h, symbol, u + 6) = <<c1 + (u + 6) * t1, c2 + (u + 6) * t2>>
      /\ Affine(h, symbol, sc) = <<c1 + sc * t1, c2 + sc * t2>>
  <2>1. \A z \in Int : Affine(h, symbol, z) = <<c1 + z * t1, c2 + z * t2>>
    BY <1>1, <1>2, Zenon
  <2>2. u + 6 \in Int
    OBVIOUS
  <2> QED
    BY <2>1, <2>2, Zenon
<1>4. left = <<2 * (c1 + u * t1), 2 * (c2 + u * t2)>> /\ right = <<2 * (c1 + (u + 6) * t1), 2 * (c2 + (u + 6) * t2)>>
  BY <1>3 DEF cscale
<1>5. cadd(cscale(left, 6), cscale(csub(right, left), sc - u))
        = <<6 * (2 * (c1 + u * t1)) + (sc - u) * (2 * (c1 + (u + 6) * t1) - 2 * (c1 + u * t1)),
            6 * (2 * (c2 + u * t2)) + (sc - u) * (2 * (c2 + (u + 6) * t2) - 2 * (c2 + u * t2))>>
  BY <1>4 DEF cadd, cscale, csub
<1>6. cscale(Affine(h, symbol, sc), 12) = <<12 * (c1 + sc * t1), 12 * (c2 + sc * t2)>>
  BY <1>3 DEF cscale
<1>7. 6 * (2 * (c1 + u * t1)) + (sc - u) * (2 * (c1 + (u + 6) * t1) - 2 * (c1 + u * t1)) = 12 * (c1 + sc * t1)
  BY OnTheLine
<1>8. 6 * (2 * (c2 + u * t2)) + (sc - u) * (2 * (c2 + (u + 6) * t2) - 2 * (c2 + u * t2)) = 12 * (c2 + sc * t2)
  BY OnTheLine
<1> QED
  BY <1>5, <1>6, <1>7, <1>8

LEMMA ScaledTwice ==
  ASSUME NEW a \in Complex
  PROVE  cscale(cscale(a, 2), 6) = cscale(a, 12)
BY DEF Complex, cscale

\* The estimate of a symbol at a tone, the edges included.
LEMMA TonesAreExact ==
  ASSUME NEW h \in Channels, NEW symbol \in Int, NEW offset \in 0 .. 5, NEW n \in Nat, n > 1, NEW ls,
         IsRow(ls, h, symbol, offset, n), NEW sc \in Nat
  PROVE  interpolate_freq(ls, offset, sc) = cscale(Affine(h, symbol, sc), 12)
<1> DEFINE last == 6 * (n - 1) + offset
           left == IF sc < offset THEN 0 ELSE IF sc > last THEN n - 2 ELSE (sc - offset) \div 6
           right == IF sc < offset THEN 1 ELSE IF sc > last THEN n - 1 ELSE Min({left + 1, n - 1})
<1>1. ls \in [1 .. n -> Complex] /\ Len(ls) = n
      /\ \A p \in 1 .. n : ls[p] = cscale(Affine(h, symbol, 6 * (p - 1) + offset), 2)
  BY DEF IsRow
<1>2. interpolate_freq(ls, offset, sc)
        = IF left = right THEN cscale(ls[left + 1], 6)
          ELSE cadd(cscale(ls[left + 1], 6), cscale(csub(ls[right + 1], ls[left + 1]), sc - (6 * left + offset)))
  BY <1>1 DEF interpolate_freq
<1>3. last \in Nat
  OBVIOUS
<1>4. \/ left \in 0 .. n - 2 /\ right = left + 1
      \/ left = n - 1 /\ right = n - 1 /\ sc = last
  <2>1. CASE sc < offset
    BY <2>1
  <2>2. CASE sc > last
    <3>1. ~(sc < offset)
      BY <2>2
    <3> QED
      BY <2>2, <3>1
  <2>3. CASE sc >= offset /\ sc <= last
    <3>1. ~(sc < offset) /\ ~(sc > last)
      BY <1>3, <2>3
    <3>2. left = (sc - offset) \div 6 /\ right = Min({left + 1, n - 1})
      <4> HIDE DEF last
      <4> QED
        BY <3>1
    <3>3. PICK q \in Nat, r \in 0 .. 5 : sc - offset = 6 * q + r /\ q = (sc - offset) \div 6
      BY <2>3
    <3>4. 6 * q + r <= 6 * (n - 1)
      BY <2>3, <3>3
    <3>5. q <= n - 1 /\ (q = n - 1 => r = 0)
      BY <3>3, <3>4
    <3> HIDE DEF left, right
    <3>6. CASE q < n - 1
      <4>1. Min({q + 1, n - 1}) = q + 1
        BY <3>6, MinOfTwo DEF min2
      <4> QED
        BY <3>2, <3>3, <3>6, <4>1
    <3>7. CASE q = n - 1
      <4>1. Min({q + 1, n - 1}) = n - 1
        BY <3>7, MinOfTwo DEF min2
      <4>2. sc = last
        BY <3>3, <3>5, <3>7
      <4> QED
        BY <3>2, <3>3, <3>7, <4>1, <4>2
    <3> QED
      BY <3>5, <3>6, <3>7
  <2> QED
    BY <1>3, <2>1, <2>2, <2>3
<1> HIDE DEF left, right
<1>5. CASE left \in 0 .. n - 2 /\ right = left + 1
  <2>1. PICK u \in Int : u = 6 * left + offset
    BY <1>5
  <2>2. left + 1 \in 1 .. n /\ right + 1 \in 1 .. n /\ left # right
    BY <1>5
  <2>3. 6 * ((left + 1) - 1) + offset = u /\ 6 * ((right + 1) - 1) + offset = u + 6
    BY <1>5, <2>1
  <2>4. ls[left + 1] = cscale(Affine(h, symbol, u), 2) /\ ls[right + 1] = cscale(Affine(h, symbol, u + 6), 2)
    BY <1>1, <2>2, <2>3
  <2>5. cadd(cscale(ls[left + 1], 6), cscale(csub(ls[right + 1], ls[left + 1]), sc - u)) = cscale(Affine(h, symbol, sc), 12)
    BY <2>4, BetweenTwoPilots
  <2> QED
    BY <1>2, <2>1, <2>2, <2>5
<1>6. CASE left = n - 1 /\ right = n - 1 /\ sc = last
  <2>1. n \in 1 .. n /\ left + 1 = n
    BY <1>6
  <2>2. ls[n] = cscale(Affine(h, symbol, sc), 2)
    BY <1>1, <1>6, <2>1
  <2>3. Affine(h, symbol, sc) \in Complex
    BY AffineTyped
  <2> QED
    BY <1>2, <1>6, <2>1, <2>2, <2>3, ScaledTwice
<1> QED
  BY <1>4, <1>5, <1>6

-----------------------------------------------------------------------------
\* Between the pilot symbols.

LEMMA MaxOfTwo ==
  ASSUME NEW p \in Int, NEW q \in Int
  PROVE  Max({p, q}) = IF p < q THEN q ELSE p
<1>1. \E m \in {p, q} : \A y \in {p, q} : m >= y
  OBVIOUS
<1>2. Max({p, q}) \in {p, q} /\ \A y \in {p, q} : Max({p, q}) >= y
  BY <1>1 DEF Max
<1> QED
  BY <1>2

LEMMA AffineAlongSymbols ==
  ASSUME NEW h \in Channels, NEW sc \in Int
  PROVE  \E c \in Complex : \E t \in Complex :
           \A s \in Int : Affine(h, s, sc) = <<c[1] + s * t[1], c[2] + s * t[2]>>
<1>1. h.base \in Complex /\ h.per_symbol \in Complex /\ h.per_tone \in Complex
  BY DEF Channels
<1> DEFINE c == cadd(h.base, cscale(h.per_tone, sc))
           t == h.per_symbol
<1>2. c \in Complex
  BY <1>1, ScaleTyped, SumTyped
<1>3. ASSUME NEW s \in Int
      PROVE  Affine(h, s, sc) = <<c[1] + s * t[1], c[2] + s * t[2]>>
  <2>1. PICK b1 \in Int, b2 \in Int, s1 \in Int, s2 \in Int, t1 \in Int, t2 \in Int :
          h.base = <<b1, b2>> /\ h.per_symbol = <<s1, s2>> /\ h.per_tone = <<t1, t2>>
    <3>1. \A z \in Complex : \E x \in Int, y \in Int : z = <<x, y>>
      BY DEF Complex
    <3>2. PICK b1 \in Int, b2 \in Int : h.base = <<b1, b2>>
      BY <1>1, <3>1
    <3>3. PICK s1 \in Int, s2 \in Int : h.per_symbol = <<s1, s2>>
      BY <1>1, <3>1
    <3>4. PICK t1 \in Int, t2 \in Int : h.per_tone = <<t1, t2>>
      BY <1>1, <3>1
    <3> QED
      BY <3>2, <3>3, <3>4
  <2>2. PICK x1 \in Int, x2 \in Int, y1 \in Int, y2 \in Int :
          x1 = s * s1 /\ x2 = s * s2 /\ y1 = sc * t1 /\ y2 = sc * t2
    OBVIOUS
  <2>3. cscale(h.per_symbol, s) = <<x1, x2>> /\ cscale(h.per_tone, sc) = <<y1, y2>>
    BY <2>1, <2>2 DEF cscale
  <2>4. Affine(h, s, sc) = <<b1 + (x1 + y1), b2 + (x2 + y2)>>
    BY <2>1, <2>3 DEF Affine, cadd
  <2>5. c = <<b1 + y1, b2 + y2>>
    BY <2>1, <2>3 DEF cadd
  <2>6. t[1] = s1 /\ t[2] = s2
    BY <2>1
  <2> HIDE DEF c, t
  <2>7. c[1] = b1 + y1 /\ c[2] = b2 + y2
    BY <2>5
  <2>8. b1 + (x1 + y1) = (b1 + y1) + x1 /\ b2 + (x2 + y2) = (b2 + y2) + x2
    OBVIOUS
  <2> QED
    BY <2>2, <2>4, <2>6, <2>7, <2>8
<1> QED
  BY <1>1, <1>2, <1>3

\* From one symbol to another, any symbol lies on the line.
LEMMA AlongTheLine ==
  ASSUME NEW c \in Int, NEW t \in Int, NEW l \in Int, NEW r \in Int, NEW s \in Int
  PROVE  (r - l) * (12 * (c + l * t)) + (s - l) * (12 * (c + r * t) - 12 * (c + l * t))
           = (12 * (r - l)) * (c + s * t)
<1>1. PICK d \in Int, e \in Int : d = r - l /\ e = s - l
  OBVIOUS
<1>2. PICK x \in Int, a \in Int, b \in Int : x = l * t /\ a = d * t /\ b = e * t
  OBVIOUS
<1>3. r * t = x + a /\ s * t = x + b
  <2>1. (l + d) * t = l * t + d * t /\ (l + e) * t = l * t + e * t
    OBVIOUS
  <2>2. r = l + d /\ s = l + e
    BY <1>1
  <2> QED
    BY <1>2, <2>1, <2>2
<1>4. 12 * (c + r * t) - 12 * (c + l * t) = 12 * a
  BY <1>2, <1>3
<1>5. e * (12 * a) = 12 * (d * b)
  <2>1. e * (12 * (d * t)) = 12 * (d * (e * t))
    OBVIOUS
  <2> QED
    BY <1>2, <2>1
<1>6. PICK y \in Int : y = c + x
  OBVIOUS
<1>7. d * (12 * y) + 12 * (d * b) = (12 * d) * (y + b)
  OBVIOUS
<1>8. c + l * t = y /\ c + s * t = y + b
  BY <1>2, <1>3, <1>6
<1> QED
  BY <1>1, <1>4, <1>5, <1>7, <1>8

LEMMA BetweenTwoSymbols ==
  ASSUME NEW h \in Channels, NEW sc \in Int, NEW l \in Int, NEW r \in Int, NEW s \in Int,
         NEW left, left = cscale(Affine(h, l, sc), 12), NEW right, right = cscale(Affine(h, r, sc), 12)
  PROVE  cadd(cscale(left, r - l), cscale(csub(right, left), s - l)) = cscale(Affine(h, s, sc), 12 * (r - l))
<1>1. PICK c \in Complex, t \in Complex :
        \A z \in Int : Affine(h, z, sc) = <<c[1] + z * t[1], c[2] + z * t[2]>>
  BY AffineAlongSymbols
<1>2. PICK c1 \in Int, c2 \in Int, t1 \in Int, t2 \in Int : c1 = c[1] /\ c2 = c[2] /\ t1 = t[1] /\ t2 = t[2]
  BY DEF Complex
<1>3. /\ Affine(h, l, sc) = <<c1 + l * t1, c2 + l * t2>>
      /\ Affine(h, r, sc) = <<c1 + r * t1, c2 + r * t2>>
      /\ Affine(h, s, sc) = <<c1 + s * t1, c2 + s * t2>>
  BY <1>1, <1>2, Zenon
<1>4. left = <<12 * (c1 + l * t1), 12 * (c2 + l * t2)>> /\ right = <<12 * (c1 + r * t1), 12 * (c2 + r * t2)>>
  BY <1>3 DEF cscale
<1>5. cadd(cscale(left, r - l), cscale(csub(right, left), s - l))
        = <<(r - l) * (12 * (c1 + l * t1)) + (s - l) * (12 * (c1 + r * t1) - 12 * (c1 + l * t1)),
            (r - l) * (12 * (c2 + l * t2)) + (s - l) * (12 * (c2 + r * t2) - 12 * (c2 + l * t2))>>
  BY <1>4 DEF cadd, cscale, csub
<1>6. cscale(Affine(h, s, sc), 12 * (r - l)) = <<(12 * (r - l)) * (c1 + s * t1), (12 * (r - l)) * (c2 + s * t2)>>
  BY <1>3 DEF cscale
<1>7. (r - l) * (12 * (c1 + l * t1)) + (s - l) * (12 * (c1 + r * t1) - 12 * (c1 + l * t1)) = (12 * (r - l)) * (c1 + s * t1)
  BY AlongTheLine
<1>8. (r - l) * (12 * (c2 + l * t2)) + (s - l) * (12 * (c2 + r * t2) - 12 * (c2 + l * t2)) = (12 * (r - l)) * (c2 + s * t2)
  BY AlongTheLine
<1> QED
  BY <1>5, <1>6, <1>7, <1>8

\* The pilot symbols on both sides of a symbol, when j of them have passed.
LEMMA Neighbours ==
  ASSUME NEW pattern, NEW N \in Nat, N > 1, Len(pattern) = N, NEW symbol, NEW j \in 0 .. N,
         {k \in DOMAIN pattern : pattern[k] < symbol} = 1 .. j
  PROVE  IF j = 0 THEN lerp_bounds(pattern, symbol) = <<1, 1>>
         ELSE \E i \in 1 .. N - 1 : lerp_bounds(pattern, symbol) = <<i, i + 1>>
<1>1. Cardinality(1 .. j) = j
  BY FS_Interval
<1>2. lerp_bounds(pattern, symbol)
        = IF j + 1 > N THEN <<N - 1, N>> ELSE <<Max({1, (j + 1) - 1}), j + 1>>
  BY <1>1 DEF lerp_bounds
<1>3. (j + 1) - 1 = j /\ Max({1, j}) = IF 1 < j THEN j ELSE 1
  BY MaxOfTwo
<1>4. CASE j = 0
  BY <1>2, <1>3, <1>4
<1>5. CASE j = N
  <2>1. N - 1 \in 1 .. N - 1 /\ (N - 1) + 1 = N
    OBVIOUS
  <2> QED
    BY <1>2, <1>5, <2>1
<1>6. CASE j # 0 /\ j # N
  <2>1. j \in 1 .. N - 1 /\ ~(j + 1 > N) /\ Max({1, j}) = j
    BY <1>3, <1>6
  <2> QED
    BY <1>2, <1>3, <1>6, <2>1
<1> QED
  BY <1>4, <1>5, <1>6

LEMMA FourPassed ==
  ASSUME NEW s \in 0 .. 13
  PROVE  \E j \in 0 .. 4 : /\ {k \in {1, 2, 3, 4} : <<0, 4, 7, 11>>[k] < s} = 1 .. j
                           /\ (j = 0 => s = 0)
<1> DEFINE P(j) == {k \in {1, 2, 3, 4} : <<0, 4, 7, 11>>[k] < s} = 1 .. j
<1>1. CASE s = 0
  BY <1>1
<1>2. CASE s \in 1 .. 4
  <2>1. {k \in {1, 2, 3, 4} : <<0, 4, 7, 11>>[k] < s} = {1} /\ 1 .. 1 = {1}
    BY <1>2
  <2> QED
    BY <2>1
<1>3. CASE s \in 5 .. 7
  <2>1. {k \in {1, 2, 3, 4} : <<0, 4, 7, 11>>[k] < s} = {1, 2} /\ 1 .. 2 = {1, 2}
    BY <1>3
  <2> QED
    BY <2>1
<1>4. CASE s \in 8 .. 11
  <2>1. {k \in {1, 2, 3, 4} : <<0, 4, 7, 11>>[k] < s} = {1, 2, 3} /\ 1 .. 3 = {1, 2, 3}
    BY <1>4
  <2> QED
    BY <2>1
<1>5. CASE s \in 12 .. 13
  <2>1. {k \in {1, 2, 3, 4} : <<0, 4, 7, 11>>[k] < s} = {1, 2, 3, 4} /\ 1 .. 4 = {1, 2, 3, 4}
    BY <1>5
  <2> QED
    BY <2>1
<1> QED
  BY <1>1, <1>2, <1>3, <1>4, <1>5

LEMMA TwoPassed ==
  ASSUME NEW s \in 0 .. 13
  PROVE  \E j \in 0 .. 2 : {k \in {1, 2} : <<1, 8>>[k] < s} = 1 .. j /\ (j = 0 <=> s < 2)
<1>1. CASE s < 2
  BY <1>1
<1>2. CASE s \in 2 .. 8
  <2>1. {k \in {1, 2} : <<1, 8>>[k] < s} = {1} /\ 1 .. 1 = {1}
    BY <1>2
  <2> QED
    BY <1>2, <2>1
<1>3. CASE s \in 9 .. 13
  <2>1. {k \in {1, 2} : <<1, 8>>[k] < s} = {1, 2} /\ 1 .. 2 = {1, 2}
    BY <1>3
  <2> QED
    BY <1>3, <2>1
<1> QED
  BY <1>1, <1>2, <1>3

\* The rows of a port's pilot symbols over an affine channel.
RowsOf(ls, h, cell_id, port, n) ==
  \A k \in DOMAIN crs_port_pattern(port) :
    IsRow(ls[k], h, crs_port_pattern(port)[k],
          crs_frequency_offset(cell_id, port, crs_port_pattern(port)[k]), n)

\* The estimate lies on the line through the two pilot symbols it is taken from;
\* from one alone it is that one's.
LEMMA FromTwoPilots ==
  ASSUME NEW cell_id \in Nat, NEW port \in 0 .. 3, NEW h \in Channels, NEW n \in Nat, n > 1, NEW ls,
         RowsOf(ls, h, cell_id, port, n), NEW symbol \in Int, NEW sc \in Nat,
         NEW a \in DOMAIN crs_port_pattern(port), NEW b \in DOMAIN crs_port_pattern(port),
         lerp_bounds(crs_port_pattern(port), symbol) = <<a, b>>,
         NEW l \in Int, l = crs_port_pattern(port)[a], NEW r \in Int, r = crs_port_pattern(port)[b]
  PROVE  Equals(estimate_channel(cell_id, port, ls, symbol, sc), Affine(h, IF l = r THEN l ELSE symbol, sc))
<1> DEFINE freq(k) == interpolate_freq(ls[k], crs_frequency_offset(cell_id, port, crs_port_pattern(port)[k]), sc)
           e == estimate_channel(cell_id, port, ls, symbol, sc)
<1>1. \A s \in Int : crs_frequency_offset(cell_id, port, s) \in 0 .. 5
  BY OffsetTyped
<1>2. freq(a) = cscale(Affine(h, l, sc), 12)
  <2>1. IsRow(ls[a], h, l, crs_frequency_offset(cell_id, port, l), n)
    BY DEF RowsOf
  <2> QED
    BY <1>1, <2>1, TonesAreExact
<1>3. freq(b) = cscale(Affine(h, r, sc), 12)
  <2>1. IsRow(ls[b], h, r, crs_frequency_offset(cell_id, port, r), n)
    BY DEF RowsOf
  <2> QED
    BY <1>1, <2>1, TonesAreExact
<1>4. e = [num |-> lerp_symbol(symbol, l, freq(a), r, freq(b)).num,
           den |-> 12 * lerp_symbol(symbol, l, freq(a), r, freq(b)).den]
  BY DEF estimate_channel
<1> HIDE DEF freq, e
<1>5. CASE l = r
  <2>1. lerp_symbol(symbol, l, freq(a), r, freq(b)) = [num |-> freq(a), den |-> 1]
    BY <1>5 DEF lerp_symbol
  <2>2. e.num = cscale(Affine(h, l, sc), 12) /\ e.den = 12
    BY <1>2, <1>4, <2>1
  <2>3. Equals(e, Affine(h, l, sc))
    BY <2>2 DEF Equals
  <2> QED
    BY <1>5, <2>3 DEF e
<1>6. CASE l # r
  <2>1. lerp_symbol(symbol, l, freq(a), r, freq(b))
          = [num |-> cadd(cscale(freq(a), r - l), cscale(csub(freq(b), freq(a)), symbol - l)), den |-> r - l]
    BY <1>6 DEF lerp_symbol
  <2>2. cadd(cscale(freq(a), r - l), cscale(csub(freq(b), freq(a)), symbol - l))
          = cscale(Affine(h, symbol, sc), 12 * (r - l))
    BY <1>2, <1>3, BetweenTwoSymbols
  <2>3. e.num = cscale(Affine(h, symbol, sc), 12 * (r - l)) /\ e.den = 12 * (r - l)
    BY <1>4, <2>1, <2>2
  <2>4. 12 * (r - l) # 0
    BY <1>6
  <2>5. Equals(e, Affine(h, symbol, sc))
    BY <2>3, <2>4 DEF Equals
  <2> QED
    BY <1>6, <2>5 DEF e
<1> QED
  BY <1>5, <1>6

\* Every port's channel, held before the first pilots of ports 2 and 3.
LEMMA ElementsAreExact ==
  ASSUME NEW cell_id \in Nat, NEW port \in 0 .. 3, NEW h \in Channels, NEW n \in Nat, n > 1, NEW ls,
         RowsOf(ls, h, cell_id, port, n), NEW symbol \in 0 .. 13, NEW sc \in Nat
  PROVE  Equals(estimate_channel(cell_id, port, ls, symbol, sc),
                Affine(h, IF port >= 2 THEN Max({symbol, 1}) ELSE symbol, sc))
<1> DEFINE pattern == crs_port_pattern(port)
           N == Len(pattern)
           held == IF port >= 2 THEN Max({symbol, 1}) ELSE symbol
           First == IF port >= 2 THEN 1 ELSE 0
<1>1. N \in Nat /\ N > 1 /\ DOMAIN pattern = 1 .. N /\ (\A k \in 1 .. N : pattern[k] \in Int)
      /\ pattern[1] = First /\ (\A k \in 1 .. N - 1 : pattern[k] # pattern[k + 1])
  <2>1. CASE port \in {0, 1}
    <3>1. pattern = <<0, 4, 7, 11>> /\ N = 4 /\ DOMAIN pattern = 1 .. 4 /\ First = 0
      BY <2>1 DEF crs_port_pattern
    <3> HIDE DEF pattern, N, First
    <3> QED
      BY <3>1
  <2>2. CASE port \in {2, 3}
    <3>1. pattern = <<1, 8>> /\ N = 2 /\ DOMAIN pattern = 1 .. 2 /\ First = 1
      BY <2>2 DEF crs_port_pattern
    <3> HIDE DEF pattern, N, First
    <3> QED
      BY <3>1
  <2> QED
    BY <2>1, <2>2
<1>2. PICK j \in 0 .. N : /\ {k \in DOMAIN pattern : pattern[k] < symbol} = 1 .. j
                          /\ IF j = 0 THEN held = First ELSE held = symbol
  <2>1. CASE port \in {0, 1}
    <3>1. pattern = <<0, 4, 7, 11>> /\ N = 4 /\ DOMAIN pattern = {1, 2, 3, 4} /\ First = 0 /\ held = symbol
      BY <2>1 DEF crs_port_pattern
    <3> HIDE DEF pattern, N, First, held
    <3>2. PICK j \in 0 .. 4 : /\ {k \in {1, 2, 3, 4} : <<0, 4, 7, 11>>[k] < symbol} = 1 .. j
                              /\ (j = 0 => symbol = 0)
      BY FourPassed
    <3> QED
      BY <3>1, <3>2
  <2>2. CASE port \in {2, 3}
    <3>1. pattern = <<1, 8>> /\ N = 2 /\ DOMAIN pattern = {1, 2} /\ First = 1 /\ held = Max({symbol, 1})
      BY <2>2 DEF crs_port_pattern
    <3>2. Max({symbol, 1}) = IF symbol < 1 THEN 1 ELSE symbol
      BY MaxOfTwo
    <3> HIDE DEF pattern, N, First, held
    <3>3. PICK j \in 0 .. 2 : {k \in {1, 2} : <<1, 8>>[k] < symbol} = 1 .. j /\ (j = 0 <=> symbol < 2)
      BY TwoPassed
    <3> QED
      BY <3>1, <3>2, <3>3
  <2> HIDE DEF pattern, N, held, First
  <2>3. port \in {0, 1} \/ port \in {2, 3}
    OBVIOUS
  <2> QED
    BY <2>1, <2>2, <2>3
<1>3. held \in Int /\ First \in Int
  BY <1>2 DEF First
<1> HIDE DEF pattern, N, held, First
<1>4. IF j = 0 THEN lerp_bounds(pattern, symbol) = <<1, 1>>
      ELSE \E i \in 1 .. N - 1 : lerp_bounds(pattern, symbol) = <<i, i + 1>>
  BY <1>1, <1>2, Neighbours DEF N
<1>5. CASE j = 0
  <2>1. lerp_bounds(pattern, symbol) = <<1, 1>> /\ held = First
    BY <1>2, <1>4, <1>5
  <2>2. 1 \in DOMAIN pattern /\ pattern[1] = First
    BY <1>1
  <2>3. Equals(estimate_channel(cell_id, port, ls, symbol, sc), Affine(h, IF First = First THEN First ELSE symbol, sc))
    BY <1>3, <2>1, <2>2, FromTwoPilots DEF pattern
  <2> QED
    BY <2>1, <2>3 DEF held
<1>6. CASE j # 0
  <2>1. PICK i \in 1 .. N - 1 : lerp_bounds(pattern, symbol) = <<i, i + 1>>
    BY <1>4, <1>6
  <2>2. i \in DOMAIN pattern /\ i + 1 \in DOMAIN pattern
    BY <1>1
  <2>3. PICK l \in Int, r \in Int : l = pattern[i] /\ r = pattern[i + 1] /\ l # r
    BY <1>1, <2>2
  <2>4. PICK i1 \in DOMAIN pattern : i1 = i + 1
    BY <2>2
  <2>5. Equals(estimate_channel(cell_id, port, ls, symbol, sc), Affine(h, IF l = r THEN l ELSE symbol, sc))
    BY <2>1, <2>2, <2>3, <2>4, FromTwoPilots DEF pattern
  <2>6. held = symbol
    BY <1>2, <1>6
  <2> QED
    BY <2>3, <2>5, <2>6 DEF held
<1> QED
  BY <1>5, <1>6

-----------------------------------------------------------------------------
\* What is asked of the estimator.

LEMMA EvaluatedSame ==
  ASSUME NEW S, NEW n \in Nat, NEW f \in [1 .. n -> S]
  PROVE  Evaluated(f) = f
<1>1. f \in Seq(S) /\ Len(f) = n
  OBVIOUS
<1>2. SubSeq(f, 1, n) = [i \in 1 .. n |-> f[i]]
  OBVIOUS
<1> QED
  BY <1>1, <1>2 DEF Evaluated

\* The samples a port's pilots of one symbol give.
PilotRow(in, port, symbol) ==
  LET values == Evaluated(crs_values(in.cell_id, in.subframe, symbol, in.pilots))
      sent == Evaluated(StandardPilots(in.cell_id, in.subframe, symbol, in.pilots))
  IN  LsSamples(values, Evaluated([p \in 1 .. in.pilots |->
        PilotSample(in.cell_id, in.channels, symbol,
                    crs_subcarrier(in.cell_id, port, symbol, p - 1), sent)]))

PortRows(in, tx) ==
  LET pattern == crs_port_pattern(tx - 1)
  IN  Evaluated([k \in DOMAIN pattern |-> Evaluated(PilotRow(in, tx - 1, pattern[k]))])

LEMMA EstimateAsked ==
  ASSUME NEW in \in Inputs.estimates
  PROVE  /\ in.cell_id \in 0 .. 503 /\ in.subframe \in 0 .. 9 /\ in.pilots \in Nat /\ in.pilots > 1
         /\ in.channels \in Seq(Channels)
         /\ in.cell_id \in Nat /\ Len(in.channels) \in Nat /\ Len(in.channels) <= 4
         /\ in.elements \subseteq (0 .. 13) \X Nat
<1>1. /\ in.cell_id \in 0 .. 503 /\ in.subframe \in 0 .. 9 /\ in.pilots \in Nat /\ in.pilots > 1
      /\ in.channels \in Seq(Channels) /\ Len(in.channels) \in {1, 2, 4}
      /\ in.elements \subseteq (0 .. 13) \X Nat
  BY EstimateInputsAssumption DEF kLteNumSymbolsNormalCp
<1>2. (\A N \in {1, 2, 4} : N \in Nat /\ N <= 4) /\ \A c \in 0 .. 503 : c \in Nat
  OBVIOUS
<1>3. in.cell_id \in Nat /\ Len(in.channels) \in Nat /\ Len(in.channels) <= 4
  BY <1>1, <1>2, Zenon
<1> QED
  BY <1>1, <1>3

LEMMA PortsAsked ==
  ASSUME NEW in \in Inputs.estimates, NEW tx \in 1 .. Len(in.channels)
  PROVE  tx - 1 \in 0 .. 3
<1>1. PICK N \in Nat : N = Len(in.channels) /\ N <= 4
  BY EstimateAsked
<1>2. tx \in 1 .. N
  BY <1>1, Zenon
<1> QED
  BY <1>1, <1>2

LEMMA CornersAreComplex == Corners \subseteq Complex
  BY DEF Corners, Complex

\* Twice the channel, once the pilot is taken off.
LEMMA RowIsHeard ==
  ASSUME NEW in \in Inputs.estimates, NEW tx \in 1 .. Len(in.channels),
         NEW symbol \in Range(crs_port_pattern(tx - 1))
  PROVE  /\ IsRow(PilotRow(in, tx - 1, symbol), in.channels[tx], symbol,
                  crs_frequency_offset(in.cell_id, tx - 1, symbol), in.pilots)
         /\ Evaluated(PilotRow(in, tx - 1, symbol)) = PilotRow(in, tx - 1, symbol)
<1>1. PICK n \in Nat, cell_id \in 0 .. 503, subframe \in 0 .. 9, channels \in Seq(Channels) :
        /\ n = in.pilots /\ cell_id = in.cell_id /\ subframe = in.subframe /\ channels = in.channels
        /\ Len(channels) <= 4
  BY EstimateAsked
<1>2. PICK port \in 0 .. 3 : port = tx - 1
  BY PortsAsked
<1>3. tx \in 1 .. Len(channels) /\ Len(channels) <= 4 /\ cell_id \in Nat /\ symbol \in Range(crs_port_pattern(port))
  <2>1. tx \in 1 .. Len(channels)
    BY <1>1
  <2>2. Len(channels) <= 4
    BY <1>1
  <2>3. symbol \in Range(crs_port_pattern(port))
    BY <1>2, Zenon
  <2> QED
    BY <2>1, <2>2, <2>3
<1>4. symbol \in 0 .. 13
  BY <1>2, <1>3, PatternRange
<1>5. PICK offset \in 0 .. 5 : offset = crs_frequency_offset(cell_id, port, symbol)
  BY <1>3, OffsetTyped
<1>6. PICK values \in [1 .. n -> Corners] :
        values = crs_values(cell_id, subframe, symbol, n) /\ values = StandardPilots(cell_id, subframe, symbol, n)
  <2>1. crs_values(cell_id, subframe, symbol, n) \in [1 .. n -> Corners]
        /\ crs_values(cell_id, subframe, symbol, n) = StandardPilots(cell_id, subframe, symbol, n)
    BY <1>4, PilotsAreStandard
  <2> QED
    BY <2>1, Zenon
<1>7. Evaluated(values) = values
  BY <1>6, EvaluatedSame
<1>8. \A p \in 1 .. n :
        PilotSample(cell_id, channels, symbol, crs_subcarrier(cell_id, tx - 1, symbol, p - 1), values)
          = cmul(Affine(channels[tx], symbol, crs_subcarrier(cell_id, tx - 1, symbol, p - 1)), values[p])
  <2>1. Sends(cell_id, channels, tx, symbol, n, values)
    BY <1>3, <1>6 DEF Sends
  <2> QED
    BY <2>1, PilotHeard
<1> DEFINE tone(p) == crs_subcarrier(cell_id, port, symbol, p - 1)
           samples == [p \in 1 .. n |-> PilotSample(cell_id, channels, symbol, tone(p), values)]
           h == channels[tx]
<1>9. h \in Channels
  BY <1>3
<1>10. ASSUME NEW p \in 1 .. n
       PROVE  /\ tone(p) = 6 * (p - 1) + offset
              /\ samples[p] = cmul(Affine(h, symbol, 6 * (p - 1) + offset), values[p])
              /\ samples[p] \in Complex
              /\ cmul(samples[p], cconj(values[p])) = cscale(Affine(h, symbol, 6 * (p - 1) + offset), 2)
              /\ cscale(Affine(h, symbol, 6 * (p - 1) + offset), 2) \in Complex
  <2>1. tone(p) = 6 * (p - 1) + offset /\ tone(p) \in Int
    BY <1>5 DEF crs_subcarrier
  <2>2. PilotSample(cell_id, channels, symbol, tone(p), values) = cmul(Affine(h, symbol, tone(p)), values[p])
    <3>1. tone(p) = crs_subcarrier(cell_id, tx - 1, symbol, p - 1)
      BY <1>2
    <3> QED
      BY <1>8, <3>1
  <2>3. Affine(h, symbol, tone(p)) \in Complex
    BY <1>4, <1>9, <2>1, AffineTyped
  <2>4. values[p] \in Corners /\ values[p] \in Complex
    BY <1>6, CornersAreComplex
  <2>5. samples[p] = PilotSample(cell_id, channels, symbol, tone(p), values)
    OBVIOUS
  <2> HIDE DEF tone, samples, h
  <2>6. cmul(Affine(h, symbol, tone(p)), values[p]) \in Complex
    BY <2>3, <2>4, ProductTyped
  <2>7. cmul(cmul(Affine(h, symbol, tone(p)), values[p]), cconj(values[p])) = cscale(Affine(h, symbol, tone(p)), 2)
    BY <2>3, <2>4, PilotTakenOff
  <2>8. cscale(Affine(h, symbol, tone(p)), 2) \in Complex
    BY <2>3, ScaleTyped
  <2> QED
    BY <2>1, <2>2, <2>5, <2>6, <2>7, <2>8
<1>11. samples \in [1 .. n -> Complex]
  BY <1>10
<1>12. Evaluated(samples) = samples
  BY <1>11, EvaluatedSame, Zenon
<1>13. PilotRow(in, tx - 1, symbol) = LsSamples(values, samples)
  BY <1>1, <1>2, <1>6, <1>7, <1>12 DEF PilotRow
<1>14. LsSamples(values, samples) = [p \in 1 .. n |-> cmul(samples[p], cconj(values[p]))]
  BY <1>6 DEF LsSamples
<1> HIDE DEF samples, h, tone
<1>15. IsRow(LsSamples(values, samples), h, symbol, offset, n)
  BY <1>10, <1>14 DEF IsRow
<1>16. Evaluated(LsSamples(values, samples)) = LsSamples(values, samples)
  BY <1>15, EvaluatedSame DEF IsRow
<1> QED
  BY <1>1, <1>2, <1>5, <1>13, <1>15, <1>16 DEF h

\* The rows of a port are what its estimate is exact for.
LEMMA PortIsHeard ==
  ASSUME NEW in \in Inputs.estimates, NEW tx \in 1 .. Len(in.channels)
  PROVE  /\ RowsOf(PortRows(in, tx), in.channels[tx], in.cell_id, tx - 1, in.pilots)
         /\ \E m \in Nat : PortRows(in, tx) \in [1 .. m -> Seq(Complex)]
                           /\ DOMAIN crs_port_pattern(tx - 1) = 1 .. m
<1>1. PICK port \in 0 .. 3 : port = tx - 1
  BY PortsAsked
<1>2. PICK pattern : pattern = crs_port_pattern(port)
  OBVIOUS
<1>3. PICK m \in Nat : DOMAIN pattern = 1 .. m /\ Range(pattern) = {pattern[k] : k \in 1 .. m}
  <2>1. pattern = <<0, 4, 7, 11>> \/ pattern = <<1, 8>>
    BY <1>2 DEF crs_port_pattern
  <2>2. \E m \in Nat : DOMAIN pattern = 1 .. m
    <3>1. DOMAIN <<0, 4, 7, 11>> = 1 .. 4 /\ DOMAIN <<1, 8>> = 1 .. 2
      OBVIOUS
    <3> QED
      BY <2>1, <3>1
  <2> QED
    BY <2>2 DEF Range
<1> DEFINE rows == [k \in 1 .. m |-> PilotRow(in, port, pattern[k])]
<1>4. ASSUME NEW k \in 1 .. m
      PROVE  /\ IsRow(PilotRow(in, port, pattern[k]), in.channels[tx], pattern[k],
                      crs_frequency_offset(in.cell_id, port, pattern[k]), in.pilots)
             /\ Evaluated(PilotRow(in, port, pattern[k])) = PilotRow(in, port, pattern[k])
  <2>1. pattern[k] \in Range(crs_port_pattern(tx - 1))
    BY <1>1, <1>2, <1>3
  <2> QED
    BY <1>1, <2>1, RowIsHeard
<1>5. ASSUME NEW k \in 1 .. m PROVE rows[k] \in Seq(Complex)
  <2>1. in.pilots \in Nat
    BY EstimateAsked
  <2>2. rows[k] \in [1 .. in.pilots -> Complex]
    BY <1>4 DEF IsRow
  <2> QED
    BY <2>1, <2>2
<1>6. rows \in [1 .. m -> Seq(Complex)]
  BY <1>5
<1>7. Evaluated(rows) = rows
  BY <1>6, EvaluatedSame
<1>8. PortRows(in, tx) = rows
  <2>1. [k \in DOMAIN pattern |-> Evaluated(PilotRow(in, port, pattern[k]))] = rows
    BY <1>3, <1>4
  <2>2. PortRows(in, tx) = Evaluated([k \in DOMAIN pattern |-> Evaluated(PilotRow(in, port, pattern[k]))])
    BY <1>1, <1>2 DEF PortRows
  <2> QED
    BY <1>7, <2>1, <2>2
<1>9. \A k \in DOMAIN pattern : IsRow(rows[k], in.channels[tx], pattern[k],
                                      crs_frequency_offset(in.cell_id, port, pattern[k]), in.pilots)
  BY <1>3, <1>4
<1> HIDE DEF rows
<1>10. RowsOf(rows, in.channels[tx], in.cell_id, port, in.pilots)
  BY <1>2, <1>9 DEF RowsOf
<1> QED
  BY <1>1, <1>2, <1>3, <1>6, <1>8, <1>10

-----------------------------------------------------------------------------
\* The residual of rows that lie on a line.

LEMMA Straight ==
  ASSUME NEW c \in Int, NEW t \in Int, NEW x \in Int
  PROVE  2 * (2 * (c + (x + 6) * t)) - (2 * (c + x * t) + 2 * (c + (x + 12) * t)) = 0
<1>1. PICK y \in Int : y = x * t
  OBVIOUS
<1>2. (x + 6) * t = y + 6 * t /\ (x + 12) * t = y + 12 * t
  BY <1>1
<1> QED
  BY <1>1, <1>2

LEMMA NoBendOnALine ==
  ASSUME NEW h \in Channels, NEW symbol \in Int, NEW x \in Int, NEW a, NEW b, NEW c,
         a = cscale(Affine(h, symbol, x), 2), b = cscale(Affine(h, symbol, x + 6), 2),
         c = cscale(Affine(h, symbol, x + 12), 2)
  PROVE  cnorm2(csub(cscale(b, 2), cadd(a, c))) = 0
<1>1. PICK u \in Complex, v \in Complex :
        \A z \in Int : Affine(h, symbol, z) = <<u[1] + z * v[1], u[2] + z * v[2]>>
  BY AffineAlongTones
<1>2. PICK u1 \in Int, u2 \in Int, v1 \in Int, v2 \in Int : u1 = u[1] /\ u2 = u[2] /\ v1 = v[1] /\ v2 = v[2]
  BY DEF Complex
<1>3. /\ a = <<2 * (u1 + x * v1), 2 * (u2 + x * v2)>>
      /\ b = <<2 * (u1 + (x + 6) * v1), 2 * (u2 + (x + 6) * v2)>>
      /\ c = <<2 * (u1 + (x + 12) * v1), 2 * (u2 + (x + 12) * v2)>>
  <2>1. x + 6 \in Int /\ x + 12 \in Int
    OBVIOUS
  <2>2. /\ Affine(h, symbol, x) = <<u1 + x * v1, u2 + x * v2>>
        /\ Affine(h, symbol, x + 6) = <<u1 + (x + 6) * v1, u2 + (x + 6) * v2>>
        /\ Affine(h, symbol, x + 12) = <<u1 + (x + 12) * v1, u2 + (x + 12) * v2>>
    BY <1>1, <1>2, <2>1, Zenon
  <2> QED
    BY <2>2 DEF cscale
<1>4. csub(cscale(b, 2), cadd(a, c))
        = <<2 * (2 * (u1 + (x + 6) * v1)) - (2 * (u1 + x * v1) + 2 * (u1 + (x + 12) * v1)),
            2 * (2 * (u2 + (x + 6) * v2)) - (2 * (u2 + x * v2) + 2 * (u2 + (x + 12) * v2))>>
  BY <1>3 DEF csub, cscale, cadd
<1>5. csub(cscale(b, 2), cadd(a, c)) = <<0, 0>>
  BY <1>4, Straight
<1> QED
  BY <1>5 DEF cnorm2

LEMMA NothingButZero ==
  ASSUME NEW n \in Nat, NEW seq, seq = [k \in 1 .. n |-> 0]
  PROVE  Total(seq) = 0
<1>1. PICK c \in Int : c = 0
  OBVIOUS
<1>2. Total([k \in 1 .. n |-> c]) = c * n
  BY TotalOfConstant
<1>3. seq = [k \in 1 .. n |-> c] /\ c * n = 0
  BY <1>1
<1> QED
  BY <1>2, <1>3

LEMMA RowsAreStraight ==
  ASSUME NEW h \in Channels, NEW symbol \in Int, NEW offset \in Int, NEW n \in Nat, n > 1, NEW ls,
         IsRow(ls, h, symbol, offset, n)
  PROVE  second_differences(ls) = 0
<1>1. ls \in [1 .. n -> Complex]
      /\ \A p \in 1 .. n : ls[p] = cscale(Affine(h, symbol, 6 * (p - 1) + offset), 2)
  BY DEF IsRow
<1>2. second_differences(ls) = Total([k \in 1 .. n - 2 |-> Bend(ls, k)])
  BY <1>1, BendsTyped
<1>3. ASSUME NEW k \in 1 .. n - 2
      PROVE  Bend(ls, k) = 0
  <2>1. PICK x \in Int : x = 6 * (k - 1) + offset
    OBVIOUS
  <2>2. /\ k \in 1 .. n /\ k + 1 \in 1 .. n /\ k + 2 \in 1 .. n
        /\ 6 * ((k + 1) - 1) + offset = x + 6 /\ 6 * ((k + 2) - 1) + offset = x + 12
    BY <2>1
  <2>3. /\ ls[k] = cscale(Affine(h, symbol, x), 2)
        /\ ls[k + 1] = cscale(Affine(h, symbol, x + 6), 2)
        /\ ls[k + 2] = cscale(Affine(h, symbol, x + 12), 2)
    BY <1>1, <2>1, <2>2, Zenon
  <2> QED
    BY <2>3, NoBendOnALine DEF Bend
<1>4. PICK m \in Nat : m = n - 2
  OBVIOUS
<1>5. [k \in 1 .. n - 2 |-> Bend(ls, k)] = [k \in 1 .. m |-> 0]
  BY <1>3, <1>4
<1>6. Total([k \in 1 .. m |-> 0]) = 0
  <2>1. PICK seq : seq = [k \in 1 .. m |-> 0]
    OBVIOUS
  <2> QED
    BY <2>1, NothingButZero
<1> QED
  BY <1>2, <1>5, <1>6

\* Parts of any lengths put one behind the other.
LEMMA FlattenTyped ==
  ASSUME NEW S, NEW seqs \in Seq(Seq(S))
  PROVE  FlattenSeq(seqs) \in Seq(S)
<1>1. Len(seqs) \in Nat /\ \A i \in 1 .. Len(seqs) : seqs[i] \in Seq(S)
  OBVIOUS
<1>2. CASE Len(seqs) = 0
  <2>1. FlattenSeq(seqs) = seqs /\ seqs = <<>>
    BY <1>2 DEF FlattenSeq
  <2> QED
    BY <2>1
<1>3. CASE Len(seqs) # 0
  <2>1. PICK f : FlattenEquation(f, seqs) /\ FlattenSeq(seqs) = f[Len(seqs)]
    BY <1>3, FlattenExists
  <2>2. \A i \in 1 .. Len(seqs) : f[i] = IF i = 1 THEN seqs[i] ELSE f[i - 1] \o seqs[i]
    <3> DEFINE F(i) == IF i = 1 THEN seqs[i] ELSE f[i - 1] \o seqs[i]
    <3>1. f = [i \in 1 .. Len(seqs) |-> F(i)]
      BY <2>1 DEF FlattenEquation
    <3> HIDE DEF F
    <3>2. \A i \in 1 .. Len(seqs) : f[i] = F(i)
      BY <3>1
    <3> QED
      BY <3>2 DEF F
  <2> DEFINE T == {i \in Nat : i \in 1 .. Len(seqs) => f[i] \in Seq(S)}
  <2>3. 0 \in T
    BY <1>1
  <2>4. ASSUME NEW i \in Nat, i \in T PROVE i + 1 \in T
    <3> SUFFICES ASSUME i + 1 \in 1 .. Len(seqs) PROVE f[i + 1] \in Seq(S)
      OBVIOUS
    <3>1. seqs[i + 1] \in Seq(S)
      BY <1>1
    <3>2. f[i + 1] = IF i + 1 = 1 THEN seqs[i + 1] ELSE f[(i + 1) - 1] \o seqs[i + 1]
      BY <2>2
    <3>3. CASE i = 0
      BY <3>1, <3>2, <3>3
    <3>4. CASE i # 0
      <4>1. i \in 1 .. Len(seqs) /\ i + 1 # 1 /\ (i + 1) - 1 = i
        BY <1>1, <3>4
      <4>2. f[i] \in Seq(S)
        BY <2>4, <4>1
      <4> QED
        BY <3>1, <3>2, <4>1, <4>2
    <3> QED
      BY <3>3, <3>4
  <2> HIDE DEF T
  <2>5. \A i \in Nat : i \in T
    BY <2>3, <2>4, NumberByNumber
  <2>6. Len(seqs) \in T /\ Len(seqs) \in 1 .. Len(seqs)
    BY <1>1, <1>3, <2>5
  <2> QED
    BY <2>1, <2>6 DEF T
<1> QED
  BY <1>2, <1>3

\* Straight rows leave nothing.
LEMMA NoResidual ==
  ASSUME NEW S, \A ls \in S : second_differences(ls) = 0, NEW rows \in Seq(Seq(S))
  PROVE  sigma2_estimate(FlattenSeq(rows)).num = 0
<1>1. PICK z \in Seq(S) : z = FlattenSeq(rows)
  BY FlattenTyped
<1>2. PICK m \in Nat : m = Len(z) /\ DOMAIN z = 1 .. m
  OBVIOUS
<1>3. [r \in DOMAIN z |-> second_differences(z[r])] = [r \in 1 .. m |-> 0]
  <2>1. \A r \in 1 .. m : z[r] \in S
    BY <1>2
  <2> QED
    BY <1>2, <2>1
<1>4. Total([r \in 1 .. m |-> 0]) = 0
  <2>1. PICK seq : seq = [r \in 1 .. m |-> 0]
    OBVIOUS
  <2> QED
    BY <2>1, NothingButZero
<1>5. sigma2_estimate(z).num = Total([r \in DOMAIN z |-> second_differences(z[r])])
  BY DEF sigma2_estimate
<1> QED
  BY <1>1, <1>3, <1>4, <1>5

\* The rows of every port, and what they leave.
LEMMA PortIsStraight ==
  ASSUME NEW in \in Inputs.estimates, NEW tx \in 1 .. Len(in.channels)
  PROVE  PortRows(in, tx) \in Seq({ls \in Seq(Complex) : second_differences(ls) = 0})
<1> DEFINE S == {ls \in Seq(Complex) : second_differences(ls) = 0}
<1>1. PICK port \in 0 .. 3 : port = tx - 1
  BY PortsAsked
<1>2. PICK pattern : pattern = crs_port_pattern(port)
  OBVIOUS
<1>3. PICK n \in Nat, cell_id \in Nat, h \in Channels :
        n = in.pilots /\ n > 1 /\ cell_id = in.cell_id /\ h = in.channels[tx]
  <2>1. in.channels[tx] \in Channels /\ in.cell_id \in Nat
    BY EstimateAsked
  <2> QED
    BY <2>1, EstimateAsked
<1>4. PICK rows : rows = PortRows(in, tx)
  OBVIOUS
<1>5. PICK m \in Nat : rows \in [1 .. m -> Seq(Complex)] /\ DOMAIN pattern = 1 .. m
  BY <1>1, <1>2, <1>4, PortIsHeard
<1>6. \A k \in DOMAIN pattern : IsRow(rows[k], h, pattern[k], crs_frequency_offset(cell_id, port, pattern[k]), n)
  <2>1. RowsOf(rows, h, cell_id, port, n)
    BY <1>1, <1>3, <1>4, PortIsHeard
  <2> QED
    BY <1>2, <2>1 DEF RowsOf
<1>7. \A k \in 1 .. m : pattern[k] \in Int
  <2>1. pattern = <<0, 4, 7, 11>> \/ pattern = <<1, 8>>
    BY <1>2 DEF crs_port_pattern
  <2>2. (\A k \in DOMAIN <<0, 4, 7, 11>> : <<0, 4, 7, 11>>[k] \in Int) /\ \A k \in DOMAIN <<1, 8>> : <<1, 8>>[k] \in Int
    OBVIOUS
  <2> QED
    BY <1>5, <2>1, <2>2
<1>8. ASSUME NEW k \in 1 .. m PROVE rows[k] \in S
  <2>1. PICK symbol \in Int : symbol = pattern[k]
    BY <1>7
  <2>2. PICK offset \in Int : offset = crs_frequency_offset(cell_id, port, symbol)
    <3>1. crs_frequency_offset(cell_id, port, symbol) \in 0 .. 5
      BY OffsetTyped
    <3> QED
      BY <3>1
  <2>3. IsRow(rows[k], h, symbol, offset, n)
    BY <1>5, <1>6, <2>1, <2>2
  <2>4. second_differences(rows[k]) = 0
    BY <1>3, <2>3, RowsAreStraight
  <2> QED
    BY <1>5, <2>4
<1> HIDE DEF S
<1>9. rows \in [1 .. m -> S]
  BY <1>5, <1>8
<1>10. rows \in Seq(S)
  BY <1>9
<1> QED
  BY <1>4, <1>10 DEF S

LEMMA ChannelAnswered ==
  ASSUME EstimateChannel
  PROVE  EstimateIsExact'
<1> DEFINE heard(in) == Evaluated([tx \in DOMAIN in.channels |-> PortRows(in, tx)])
           answered(in, rows) ==
             [h |-> [tx \in DOMAIN rows |-> [at \in in.elements |->
                       estimate_channel(in.cell_id, tx - 1, rows[tx], at[1], at[2])]],
              residual |-> sigma2_estimate(FlattenSeq(rows))]
<1>1. PICK in \in Inputs.estimates : Ask("estimate", in, answered(in, heard(in)))
  BY Zenon DEF EstimateChannel, PortRows, PilotRow
<1>2. PICK N \in Nat : N = Len(in.channels) /\ DOMAIN in.channels = 1 .. N
  BY EstimateAsked
<1> DEFINE S == {ls \in Seq(Complex) : second_differences(ls) = 0}
           all == [tx \in 1 .. N |-> PortRows(in, tx)]
<1>3. all \in [1 .. N -> Seq(S)]
  <2>1. \A tx \in 1 .. N : PortRows(in, tx) \in Seq(S)
    BY <1>2, PortIsStraight
  <2> HIDE DEF S
  <2> QED
    BY <2>1
<1>4. heard(in) = all
  <2>1. heard(in) = Evaluated(all)
    BY <1>2
  <2> HIDE DEF all, heard, S
  <2> QED
    BY <1>3, <2>1, EvaluatedSame
<1>5. all \in Seq(Seq(S))
  <2> HIDE DEF all, S
  <2> QED
    BY <1>3
<1>6. answered(in, all).residual.num = 0
  <2>1. \A ls \in S : second_differences(ls) = 0
    OBVIOUS
  <2> HIDE DEF all, S
  <2>2. sigma2_estimate(FlattenSeq(all)).num = 0
    BY <1>5, <2>1, NoResidual
  <2> QED
    BY <2>2
<1>7. ASSUME NEW tx \in 1 .. N, NEW at \in in.elements
      PROVE  LET symbol == IF tx >= 3 THEN Max({at[1], 1}) ELSE at[1]
             IN  Equals(answered(in, all).h[tx][at], Affine(in.channels[tx], symbol, at[2]))
  <2>1. PICK symbol \in 0 .. 13, sc \in Nat : symbol = at[1] /\ sc = at[2]
    BY EstimateAsked
  <2>2. PICK port \in 0 .. 3 : port = tx - 1
    BY <1>2, PortsAsked
  <2>3. PICK n \in Nat, cell_id \in Nat, h \in Channels :
          n = in.pilots /\ n > 1 /\ cell_id = in.cell_id /\ h = in.channels[tx]
    <3>1. in.channels[tx] \in Channels /\ in.cell_id \in Nat
      BY <1>2, EstimateAsked
    <3> QED
      BY <3>1, EstimateAsked
  <2>4. RowsOf(all[tx], h, cell_id, port, n)
    <3>1. RowsOf(PortRows(in, tx), in.channels[tx], in.cell_id, tx - 1, in.pilots)
      BY <1>2, PortIsHeard
    <3>2. all[tx] = PortRows(in, tx)
      OBVIOUS
    <3> HIDE DEF all
    <3> QED
      BY <2>2, <2>3, <3>1, <3>2
  <2>5. answered(in, all).h[tx][at] = estimate_channel(cell_id, port, all[tx], symbol, sc)
    <3>1. DOMAIN all = 1 .. N
      OBVIOUS
    <3> HIDE DEF all
    <3> QED
      BY <2>1, <2>2, <2>3, <3>1
  <2> HIDE DEF all, answered
  <2>6. Equals(estimate_channel(cell_id, port, all[tx], symbol, sc),
               Affine(h, IF port >= 2 THEN Max({symbol, 1}) ELSE symbol, sc))
    BY <2>3, <2>4, ElementsAreExact
  <2>7. tx >= 3 <=> port >= 2
    BY <2>2
  <2> QED
    BY <2>1, <2>3, <2>5, <2>6, <2>7
<1>8. DOMAIN answered(in, all).h = 1 .. N
  OBVIOUS
<1>9. answer'.kind = "estimate" /\ answer'.in = in /\ answer'.out = answered(in, all)
  BY <1>1, <1>4 DEF Ask
<1> HIDE DEF answered, all, heard
<1> QED
  BY <1>6, <1>7, <1>8, <1>9 DEF EstimateIsExact, Answered

LEMMA NoiseAnswered ==
  ASSUME EstimateNoise
  PROVE  EstimateIsExact'
<1>1. PICK n \in Inputs.noise : Ask("noise", n, sigma2_estimate(SignRows[n]))
  BY DEF EstimateNoise
<1>2. n \in Nat /\ n >= 2
  BY EstimateInputsAssumption
<1>3. PICK e : e = sigma2_estimate(SignRows[n])
  OBVIOUS
<1>4. 4 * e.num = e.den
  BY <1>2, <1>3, ResidualIsThePower
<1>5. answer'.kind = "noise" /\ answer'.out = e
  BY <1>1, <1>3 DEF Ask
<1> QED
  BY <1>4, <1>5 DEF EstimateIsExact, Answered

\* Answers of other kinds are no estimates.
LEMMA NoEstimates ==
  ASSUME \/ HandOver \/ PdschLlrs \/ ControlLlrs \/ DecodeWord \/ RecoverRate
         \/ DecodeAllocation \/ ParseDci \/ BuildLayout \/ EqualiseDiversity \/ EqualiseLayers
         \/ ReceiveDci \/ NewReceiver
  PROVE  answer'.kind \notin {"estimate", "noise"}
<1>1. CASE HandOver BY <1>1 DEF HandOver
<1>2. CASE DecodeWord BY <1>2 DEF DecodeWord, Ask
<1>3. CASE RecoverRate BY <1>3 DEF RecoverRate, Ask
<1>4. CASE DecodeAllocation BY <1>4 DEF DecodeAllocation, Ask
<1>5. CASE ParseDci BY <1>5 DEF ParseDci, Ask
<1>6. CASE BuildLayout BY <1>6 DEF BuildLayout, Ask
<1>7. CASE EqualiseDiversity
  <2>1. \E in, out : Ask("diversity", in, out)
    BY <1>7, Zenon DEF EqualiseDiversity
  <2> QED
    BY <2>1 DEF Ask
<1>8. CASE EqualiseLayers
  <2>1. \E in, out : Ask("layers", in, out)
    BY <1>8, Zenon DEF EqualiseLayers
  <2> QED
    BY <2>1 DEF Ask
<1>9. CASE PdschLlrs BY <1>9 DEF PdschLlrs
<1>10. CASE ControlLlrs
  <2>1. \E in, out : Ask("control", in, out)
    BY <1>10, Zenon DEF ControlLlrs
  <2> QED
    BY <2>1 DEF Ask
<1>11. CASE ReceiveDci
  <2>1. \E in, out : Ask("candidate", in, out)
    BY <1>11, Zenon DEF ReceiveDci
  <2> QED
    BY <2>1 DEF Ask
<1>12. CASE NewReceiver BY <1>12 DEF NewReceiver, NoAnswer
<1> QED
  BY <1>1, <1>2, <1>3, <1>4, <1>5, <1>6, <1>7, <1>8, <1>9, <1>10, <1>11, <1>12

\* Over every channel that is affine in time and frequency, of any cell, subframe,
\* number of ports and bandwidth, the estimate is the channel at every element of
\* every port and the residual is nothing; over noise alone, of rows of any
\* length, the residual is the power on average (mmse_equalizer_cpu.cpp:763,
\* mmse_cuda_runtime.cu:115).
THEOREM ChannelsAreEstimatedExactly == Spec => []EstimateIsExact
<1>1. Init => EstimateIsExact
  BY DEF Init, EstimateIsExact, Answered, NoAnswer
<1>2. EstimateIsExact /\ [Next]_receiverVars => EstimateIsExact'
  <2> SUFFICES ASSUME EstimateIsExact, [Next]_receiverVars PROVE EstimateIsExact'
    OBVIOUS
  <2>1. CASE EstimateChannel
    BY <2>1, ChannelAnswered
  <2>2. CASE EstimateNoise
    BY <2>2, NoiseAnswered
  <2>3. CASE Search \/ UNCHANGED receiverVars
    <3>1. answer' = answer
      BY <2>3 DEF Search, receiverVars
    <3> QED
      BY <3>1, Zenon DEF EstimateIsExact, Answered
  <2>4. CASE answer'.kind \notin {"estimate", "noise"}
    BY <2>4, Zenon DEF EstimateIsExact, Answered
  <2> QED
    BY <2>1, <2>2, <2>3, <2>4, NoEstimates, Zenon DEF Next
<1> QED
  BY <1>1, <1>2, PTL DEF Spec

-----------------------------------------------------------------------------
(* The words of a DCI: DciFormat1A. *)

\* A number is read bit after bit.
LEMMA ValueInOrder ==
  ASSUME NEW n \in Nat, NEW bits \in [1 .. n -> {0, 1}]
  PROVE  \E p \in [0 .. n -> Nat] :
           /\ p[0] = 0 /\ p[n] = Value(bits)
           /\ \A k \in 1 .. n : p[k] = 2 * p[k - 1] + bits[k]
<1> DEFINE F(it) == [s \in SUBSET (1 .. n) |->
                       IF s = {} THEN 0 ELSE 2 * it[s \ {Max(s)}] + bits[Max(s)]]
           step == [k \in 1 .. n |-> [v \in Nat |-> 2 * v + bits[k]]]
           chosen == CHOOSE it : it = F(it)
<1>1. step \in [1 .. n -> [Nat -> Nat]] /\ 0 \in Nat
  OBVIOUS
<1>2. \A k \in 1 .. n : \A v \in Nat : step[k][v] = 2 * v + bits[k]
  OBVIOUS
<1> HIDE DEF step
<1>3. PICK it \in [SUBSET (1 .. n) -> Nat] : FoldsBy(it, n, 0, step)
  BY <1>1, SetFoldExists
<1>4. it = F(it)
  <2> SUFFICES ASSUME NEW s \in SUBSET (1 .. n)
               PROVE  it[s] = IF s = {} THEN 0 ELSE 2 * it[s \ {Max(s)}] + bits[Max(s)]
    OBVIOUS
  <2>1. CASE s = {}
    BY <1>3, <2>1 DEF FoldsBy
  <2>2. CASE s # {}
    <3>1. Max(s) \in 1 .. n /\ it[s \ {Max(s)}] \in Nat
      BY <1>3, <2>2, LastOfSome
    <3> QED
      BY <1>2, <1>3, <2>2, <3>1 DEF FoldsBy
  <2> QED
    BY <2>1, <2>2
<1>5. Value(bits) = chosen[1 .. n]
  BY DEF Value, FoldLeft, MapThenFoldSet
<1>6. chosen = F(chosen)
  <2> HIDE DEF F
  <2> QED
    BY <1>4
<1> HIDE DEF chosen
<1>7. chosen[{}] = 0
  BY <1>6
<1>8. \A s \in SUBSET (1 .. n) :
        s # {} /\ chosen[s \ {Max(s)}] \in Nat => chosen[s] = step[Max(s)][chosen[s \ {Max(s)}]]
  <2> SUFFICES ASSUME NEW s \in SUBSET (1 .. n), s # {}, chosen[s \ {Max(s)}] \in Nat
               PROVE  chosen[s] = step[Max(s)][chosen[s \ {Max(s)}]]
    OBVIOUS
  <2>1. Max(s) \in 1 .. n
    BY LastOfSome
  <2> QED
    BY <1>2, <1>6, <2>1
<1> HIDE DEF F
<1>9. PICK p \in [0 .. n -> Nat] :
        /\ p[0] = 0 /\ p[n] = chosen[1 .. n]
        /\ \A k \in 1 .. n : p[k] = step[k][p[k - 1]]
  <2>1. IsFold(chosen, Nat, n, 0, step)
    BY <1>1, <1>7, <1>8 DEF IsFold
  <2>2. StepsOfFold(chosen, Nat, n, 0, step)
    BY <2>1, FoldStepByStep
  <2> QED
    BY <2>2 DEF StepsOfFold
<1>10. \A k \in 1 .. n : p[k] = 2 * p[k - 1] + bits[k]
  <2> SUFFICES ASSUME NEW k \in 1 .. n PROVE p[k] = 2 * p[k - 1] + bits[k]
    OBVIOUS
  <2>1. k - 1 \in 0 .. n
    OBVIOUS
  <2> QED
    BY <1>2, <1>9, <2>1
<1> QED
  BY <1>5, <1>9, <1>10

\* A register of bits, and a step of the checksum.
Register == [1 .. kCrcBits -> {0, 1}]

\* Where x^16 + x^12 + x^5 + 1 has its ones.
LEMMA PolynomialBits ==
  /\ BitsOf(4129, kCrcBits) \in Register
  /\ \A i \in 1 .. kCrcBits : BitsOf(4129, kCrcBits)[i] = IF i \in {4, 11, 16} THEN 1 ELSE 0
<1> DEFINE bit(i) == (4129 \div 2^(16 - i)) % 2
<1>1. ASSUME NEW i \in 1 .. 16
      PROVE  bit(i) = IF i \in {4, 11, 16} THEN 1 ELSE 0
  <2>1. CASE i = 1  BY <2>1
  <2>2. CASE i = 2  BY <2>2
  <2>3. CASE i = 3  BY <2>3
  <2>4. CASE i = 4  BY <2>4
  <2>5. CASE i = 5  BY <2>5
  <2>6. CASE i = 6  BY <2>6
  <2>7. CASE i = 7  BY <2>7
  <2>8. CASE i = 8  BY <2>8
  <2>9. CASE i = 9  BY <2>9
  <2>10. CASE i = 10 BY <2>10
  <2>11. CASE i = 11 BY <2>11
  <2>12. CASE i = 12 BY <2>12
  <2>13. CASE i = 13 BY <2>13
  <2>14. CASE i = 14 BY <2>14
  <2>15. CASE i = 15 BY <2>15
  <2>16. CASE i = 16 BY <2>16
  <2> QED
    BY <2>1, <2>2, <2>3, <2>4, <2>5, <2>6, <2>7, <2>8, <2>9, <2>10, <2>11, <2>12, <2>13, <2>14, <2>15, <2>16
<1>2. BitsOf(4129, kCrcBits) = [i \in 1 .. 16 |-> bit(i)]
  BY DEF BitsOf, kCrcBits
<1> HIDE DEF bit
<1>3. \A i \in 1 .. 16 : bit(i) \in {0, 1}
  BY <1>1
<1> QED
  BY <1>1, <1>2, <1>3 DEF Register, kCrcBits

\* One entry leaves at the front, another comes in at the end.
LEMMA OneIn ==
  ASSUME NEW S, NEW s \in Seq(S), NEW m \in Nat, Len(s) = m + 1, NEW e \in S
  PROVE  /\ Append(Tail(s), e) \in Seq(S) /\ Len(Append(Tail(s), e)) = m + 1
         /\ \A i \in 1 .. m : Append(Tail(s), e)[i] = s[i + 1]
         /\ Append(Tail(s), e)[m + 1] = e
<1>1. s # <<>>
  BY EmptySeq
<1>2. /\ Tail(s) \in Seq(S) /\ Len(Tail(s)) = Len(s) - 1
      /\ \A i \in 1 .. Len(Tail(s)) : Tail(s)[i] = s[i + 1]
  BY <1>1, HeadTailProperties
<1>3. PICK t \in Seq(S) : t = Tail(s) /\ Len(t) = m /\ \A i \in 1 .. m : t[i] = s[i + 1]
  <2>1. Len(Tail(s)) = m
    BY <1>2
  <2> QED
    BY <1>2, <2>1, Zenon
<1>4. /\ Append(t, e) \in Seq(S) /\ Len(Append(t, e)) = Len(t) + 1
      /\ \A i \in 1 .. Len(t) : Append(t, e)[i] = t[i]
      /\ Append(t, e)[Len(t) + 1] = e
  BY AppendProperties
<1> QED
  BY <1>3, <1>4

\* A step shifts the register; what leaves it, and the bit read, decide whether
\* the polynomial is added.
LEMMA RegisterSteps ==
  ASSUME NEW crc \in Register, NEW bit \in {0, 1}
  PROVE  /\ crc_step(crc, bit) \in Register
         /\ \A i \in 1 .. 16 :
              crc_step(crc, bit)[i] =
                ((IF i = 16 THEN 0 ELSE crc[i + 1])
                 + (IF i \in {4, 11, 16} THEN (crc[1] + bit) % 2 ELSE 0)) % 2
<1> DEFINE shifted == Append(Tail(crc), 0)
<1>1. crc \in Seq({0, 1}) /\ Len(crc) = 16
  <2>1. crc \in [1 .. 16 -> {0, 1}] /\ crc = [i \in 1 .. 16 |-> crc[i]]
    BY DEF Register, kCrcBits
  <2> QED
    BY <2>1
<1>3. shifted \in Seq({0, 1}) /\ Len(shifted) = 16 /\ \A i \in 1 .. 16 : shifted[i] = IF i = 16 THEN 0 ELSE crc[i + 1]
  <2>1. PICK m \in Nat : m = 15
    OBVIOUS
  <2>2. Len(crc) = m + 1 /\ 0 \in {0, 1}
    BY <1>1, <2>1
  <2>3. /\ shifted \in Seq({0, 1}) /\ Len(shifted) = m + 1
        /\ \A i \in 1 .. m : shifted[i] = crc[i + 1]
        /\ shifted[m + 1] = 0
    BY <1>1, <2>2, OneIn
  <2> HIDE DEF shifted
  <2>4. \A i \in 1 .. 16 : i = 16 \/ i \in 1 .. 15
    OBVIOUS
  <2> QED
    BY <2>1, <2>3, <2>4
<1> HIDE DEF shifted
<1>4. DOMAIN shifted = 1 .. 16 /\ \A i \in 1 .. 16 : shifted[i] \in {0, 1}
  <2>1. PICK t \in Seq({0, 1}) : t = shifted /\ Len(t) = 16
    BY <1>3
  <2>2. DOMAIN t = 1 .. Len(t) /\ \A i \in 1 .. Len(t) : t[i] \in {0, 1}
    BY ElementOfSeq, LenProperties
  <2> QED
    BY <2>1, <2>2
<1>5. crc[1] \in {0, 1}
  BY DEF Register, kCrcBits
<1>6. CASE (crc[1] + bit) % 2 = 1
  <2>1. crc_step(crc, bit) = [i \in 1 .. 16 |-> (shifted[i] + BitsOf(4129, kCrcBits)[i]) % 2]
    <3>1. crc_step(crc, bit) = Xor(shifted, BitsOf(4129, kCrcBits))
      BY <1>6 DEF crc_step, shifted
    <3> QED
      BY <1>4, <3>1, Zenon DEF Xor
  <2>2. \A i \in 1 .. 16 : BitsOf(4129, kCrcBits)[i] = IF i \in {4, 11, 16} THEN 1 ELSE 0
    BY PolynomialBits DEF kCrcBits
  <2>3. \A i \in 1 .. 16 : crc_step(crc, bit)[i] = (shifted[i] + (IF i \in {4, 11, 16} THEN 1 ELSE 0)) % 2
    BY <2>1, <2>2
  <2>4. crc_step(crc, bit) \in Register
    <3>1. \A i \in 1 .. 16 : (shifted[i] + BitsOf(4129, kCrcBits)[i]) % 2 \in {0, 1}
      BY <1>4, <2>2
    <3> QED
      BY <2>1, <3>1 DEF Register, kCrcBits
  <2> QED
    BY <1>3, <1>6, <2>3, <2>4
<1>7. CASE (crc[1] + bit) % 2 # 1
  <2>1. crc_step(crc, bit) = shifted /\ (crc[1] + bit) % 2 = 0
    BY <1>5, <1>7 DEF crc_step, shifted
  <2>2. shifted \in Register
    BY <1>3, <1>4 DEF Register, kCrcBits
  <2>3. \A i \in 1 .. 16 : shifted[i] = (shifted[i] + 0) % 2
    BY <1>4
  <2> QED
    BY <1>3, <2>1, <2>2, <2>3
<1> QED
  BY <1>6, <1>7

\* The register after each bit.
LEMMA RegisterInOrder ==
  ASSUME NEW n \in Nat, NEW bits \in [1 .. n -> {0, 1}]
  PROVE  \E p \in [0 .. n -> Register] :
           /\ p[0] = [i \in 1 .. 16 |-> 0] /\ p[n] = calculate_pdcch_crc16(bits)
           /\ \A k \in 1 .. n : p[k] = crc_step(p[k - 1], bits[k])
<1> DEFINE empty == BitsOf(0, kCrcBits)
           F(it) == [s \in SUBSET (1 .. n) |->
                       IF s = {} THEN empty ELSE crc_step(it[s \ {Max(s)}], bits[Max(s)])]
           step == [k \in 1 .. n |-> [v \in Register |-> crc_step(v, bits[k])]]
           chosen == CHOOSE it : it = F(it)
<1>0. empty \in Register /\ empty = [i \in 1 .. 16 |-> 0]
  <2>1. ASSUME NEW i \in 1 .. 16
        PROVE  (0 \div 2^(16 - i)) % 2 = 0
    <3>1. CASE i \in 1 .. 8
      <4>1. CASE i = 1  BY <4>1
      <4>2. CASE i = 2  BY <4>2
      <4>3. CASE i = 3  BY <4>3
      <4>4. CASE i = 4  BY <4>4
      <4>5. CASE i = 5  BY <4>5
      <4>6. CASE i = 6  BY <4>6
      <4>7. CASE i = 7  BY <4>7
      <4>8. CASE i = 8  BY <4>8
      <4> QED
        BY <3>1, <4>1, <4>2, <4>3, <4>4, <4>5, <4>6, <4>7, <4>8
    <3>2. CASE i \in 9 .. 16
      <4>1. CASE i = 9  BY <4>1
      <4>2. CASE i = 10 BY <4>2
      <4>3. CASE i = 11 BY <4>3
      <4>4. CASE i = 12 BY <4>4
      <4>5. CASE i = 13 BY <4>5
      <4>6. CASE i = 14 BY <4>6
      <4>7. CASE i = 15 BY <4>7
      <4>8. CASE i = 16 BY <4>8
      <4> QED
        BY <3>2, <4>1, <4>2, <4>3, <4>4, <4>5, <4>6, <4>7, <4>8
    <3> QED
      BY <3>1, <3>2
  <2>2. empty = [i \in 1 .. 16 |-> 0]
    BY <2>1 DEF BitsOf, kCrcBits
  <2> QED
    BY <2>2 DEF Register, kCrcBits
<1> HIDE DEF empty
<1>1. step \in [1 .. n -> [Register -> Register]]
  BY RegisterSteps
<1>2. \A k \in 1 .. n : \A v \in Register : step[k][v] = crc_step(v, bits[k])
  OBVIOUS
<1> HIDE DEF step
<1>3. PICK it \in [SUBSET (1 .. n) -> Register] : FoldsBy(it, n, empty, step)
  BY <1>0, <1>1, SetFoldExists
<1>4. it = F(it)
  <2> SUFFICES ASSUME NEW s \in SUBSET (1 .. n)
               PROVE  it[s] = IF s = {} THEN empty ELSE crc_step(it[s \ {Max(s)}], bits[Max(s)])
    OBVIOUS
  <2>1. CASE s = {}
    BY <1>3, <2>1 DEF FoldsBy
  <2>2. CASE s # {}
    <3>1. Max(s) \in 1 .. n /\ it[s \ {Max(s)}] \in Register
      BY <1>3, <2>2, LastOfSome
    <3> QED
      BY <1>2, <1>3, <2>2, <3>1 DEF FoldsBy
  <2> QED
    BY <2>1, <2>2
<1>5. calculate_pdcch_crc16(bits) = chosen[1 .. n]
  BY DEF calculate_pdcch_crc16, FoldLeft, MapThenFoldSet, empty
<1>6. chosen = F(chosen)
  <2> HIDE DEF F
  <2> QED
    BY <1>4
<1> HIDE DEF chosen
<1>7. chosen[{}] = empty
  BY <1>6
<1>8. \A s \in SUBSET (1 .. n) :
        s # {} /\ chosen[s \ {Max(s)}] \in Register => chosen[s] = step[Max(s)][chosen[s \ {Max(s)}]]
  <2> SUFFICES ASSUME NEW s \in SUBSET (1 .. n), s # {}, chosen[s \ {Max(s)}] \in Register
               PROVE  chosen[s] = step[Max(s)][chosen[s \ {Max(s)}]]
    OBVIOUS
  <2>1. Max(s) \in 1 .. n
    BY LastOfSome
  <2> QED
    BY <1>2, <1>6, <2>1
<1> HIDE DEF F
<1>9. PICK p \in [0 .. n -> Register] :
        /\ p[0] = empty /\ p[n] = chosen[1 .. n]
        /\ \A k \in 1 .. n : p[k] = step[k][p[k - 1]]
  <2>1. IsFold(chosen, Register, n, empty, step)
    BY <1>0, <1>1, <1>7, <1>8 DEF IsFold
  <2>2. StepsOfFold(chosen, Register, n, empty, step)
    BY <2>1, FoldStepByStep
  <2> QED
    BY <2>2 DEF StepsOfFold
<1>10. \A k \in 1 .. n : p[k] = crc_step(p[k - 1], bits[k])
  <2> SUFFICES ASSUME NEW k \in 1 .. n PROVE p[k] = crc_step(p[k - 1], bits[k])
    OBVIOUS
  <2>1. k - 1 \in 0 .. n
    OBVIOUS
  <2> QED
    BY <1>2, <1>9, <2>1
<1> QED
  BY <1>0, <1>5, <1>9, <1>10

\* A word in which a bit and those behind it have been divided.
Dividends(n) == [1 .. n + 16 -> {0, 1}]

\* A step of the long division of Remainder.
Subtracted(w, n, k) ==
  IF w[k] = 0 THEN w
  ELSE SubSeq([j \in 1 .. n + 16 |-> IF j - k \in {0, 4, 11, 16} THEN 1 - w[j] ELSE w[j]], 1, n + 16)

\* A step divides without carries.
LEMMA SubtractedBits ==
  ASSUME NEW n \in Nat, NEW k \in 1 .. n, NEW w \in Dividends(n)
  PROVE  /\ Subtracted(w, n, k) \in Dividends(n)
         /\ \A j \in 1 .. n + 16 :
              Subtracted(w, n, k)[j] =
                (w[j] + (IF j - k \in {0, 4, 11, 16} THEN w[k] ELSE 0)) % 2
<1>1. \A j \in 1 .. n + 16 : w[j] \in {0, 1}
  BY DEF Dividends
<1>2. w[k] \in {0, 1}
  BY <1>1
<1>3. CASE w[k] = 0
  <2>1. Subtracted(w, n, k) = w
    BY <1>3 DEF Subtracted
  <2>2. \A j \in 1 .. n + 16 : w[j] = (w[j] + 0) % 2
    BY <1>1
  <2> QED
    BY <1>3, <2>1, <2>2
<1>4. CASE w[k] = 1
  <2> DEFINE flipped == [j \in 1 .. n + 16 |-> IF j - k \in {0, 4, 11, 16} THEN 1 - w[j] ELSE w[j]]
  <2>1. \A j \in 1 .. n + 16 : flipped[j] \in {0, 1} /\ flipped[j] = (w[j] + (IF j - k \in {0, 4, 11, 16} THEN 1 ELSE 0)) % 2
    <3> SUFFICES ASSUME NEW j \in 1 .. n + 16
                 PROVE  /\ flipped[j] \in {0, 1}
                        /\ flipped[j] = (w[j] + (IF j - k \in {0, 4, 11, 16} THEN 1 ELSE 0)) % 2
      OBVIOUS
    <3>1. flipped[j] = IF j - k \in {0, 4, 11, 16} THEN 1 - w[j] ELSE w[j]
      OBVIOUS
    <3>2. w[j] \in {0, 1}
      BY <1>1
    <3> HIDE DEF flipped
    <3> QED
      BY <3>1, <3>2
  <2>2. flipped = [j \in 1 .. n + 16 |-> flipped[j]]
    OBVIOUS
  <2>3. Subtracted(w, n, k) = SubSeq(flipped, 1, n + 16)
    BY <1>4 DEF Subtracted
  <2> HIDE DEF flipped
  <2>4. PICK m \in Nat : m = n + 16
    OBVIOUS
  <2>5. flipped \in [1 .. m -> {0, 1}]
    BY <2>1, <2>2, <2>4
  <2>6. flipped \in Seq({0, 1}) /\ Len(flipped) = m
    BY <2>5
  <2>7. SubSeq(flipped, 0 + 1, 0 + m) = [i \in 1 .. m |-> flipped[0 + i]]
    <3>1. 0 \in Nat /\ 0 + m <= Len(flipped)
      BY <2>6
    <3> QED
      BY <2>6, <3>1, PartOfSequence
  <2>8. Subtracted(w, n, k) = flipped
    BY <2>2, <2>3, <2>4, <2>7
  <2> QED
    BY <1>4, <2>1, <2>4, <2>5, <2>8 DEF Dividends
<1> QED
  BY <1>2, <1>3, <1>4

\* The division, bit after bit.
LEMMA DivisionInOrder ==
  ASSUME NEW n \in Nat, NEW bits \in [1 .. n -> {0, 1}], NEW start \in Dividends(n),
         start = bits \o [k \in 1 .. 16 |-> 0]
  PROVE  \E p \in [0 .. n -> Dividends(n)] :
           /\ p[0] = start /\ Remainder(bits) = SubSeq(p[n], n + 1, n + 16)
           /\ \A k \in 1 .. n : p[k] = Subtracted(p[k - 1], n, k)
<1> DEFINE numbers == [k \in 1 .. n |-> k]
           subtract(w, k) ==
             IF w[k] = 0 THEN w
             ELSE SubSeq([j \in 1 .. Len(bits) + 16 |-> IF j - k \in {0, 4, 11, 16} THEN 1 - w[j] ELSE w[j]],
                         1, Len(bits) + 16)
           G(it) == [s \in SUBSET DOMAIN numbers |->
                       IF s = {} THEN start ELSE subtract(it[s \ {Max(s)}], numbers[Max(s)])]
           F(it) == [s \in SUBSET (1 .. n) |->
                       IF s = {} THEN start ELSE Subtracted(it[s \ {Max(s)}], n, Max(s))]
           step == [k \in 1 .. n |-> [v \in Dividends(n) |-> Subtracted(v, n, k)]]
           chosen == CHOOSE it : it = G(it)
<1>0. Len(bits) = n /\ [k \in 1 .. Len(bits) |-> k] = numbers
  OBVIOUS
<1>1. step \in [1 .. n -> [Dividends(n) -> Dividends(n)]]
  BY SubtractedBits
<1>2. \A k \in 1 .. n : \A v \in Dividends(n) : step[k][v] = Subtracted(v, n, k)
  OBVIOUS
<1> HIDE DEF step
<1>3. PICK it \in [SUBSET (1 .. n) -> Dividends(n)] : FoldsBy(it, n, start, step)
  BY <1>1, SetFoldExists
<1>4. \A h : G(h) = F(h)
  <2> SUFFICES ASSUME NEW h PROVE G(h) = F(h)
    OBVIOUS
  <2>1. DOMAIN numbers = 1 .. n
    OBVIOUS
  <2>2. ASSUME NEW s \in SUBSET (1 .. n), s # {}
        PROVE  subtract(h[s \ {Max(s)}], numbers[Max(s)]) = Subtracted(h[s \ {Max(s)}], n, Max(s))
    <3>1. Max(s) \in 1 .. n
      BY <2>2, LastOfSome
    <3>2. numbers[Max(s)] = Max(s)
      BY <3>1
    <3> QED
      BY <1>0, <3>2 DEF Subtracted
  <2> HIDE DEF numbers, subtract
  <2> QED
    BY <2>1, <2>2
<1>5. it = F(it)
  <2> SUFFICES ASSUME NEW s \in SUBSET (1 .. n)
               PROVE  it[s] = IF s = {} THEN start ELSE Subtracted(it[s \ {Max(s)}], n, Max(s))
    OBVIOUS
  <2>1. CASE s = {}
    BY <1>3, <2>1 DEF FoldsBy
  <2>2. CASE s # {}
    <3>1. Max(s) \in 1 .. n /\ it[s \ {Max(s)}] \in Dividends(n)
      BY <1>3, <2>2, LastOfSome
    <3> QED
      BY <1>2, <1>3, <2>2, <3>1 DEF FoldsBy
  <2> QED
    BY <2>1, <2>2
<1>6. Remainder(bits) = SubSeq(chosen[DOMAIN numbers], Len(bits) + 1, Len(bits) + 16)
  BY <1>0 DEF Remainder, FoldLeft, MapThenFoldSet
<1>7. chosen = G(chosen)
  <2>1. it = G(it)
    BY <1>4, <1>5
  <2> HIDE DEF G
  <2> QED
    BY <2>1
<1> HIDE DEF chosen
<1>8. chosen = F(chosen) /\ DOMAIN numbers = 1 .. n
  BY <1>4, <1>7
<1> HIDE DEF G, numbers
<1>9. chosen[{}] = start
  BY <1>8
<1>10. \A s \in SUBSET (1 .. n) :
        s # {} /\ chosen[s \ {Max(s)}] \in Dividends(n) => chosen[s] = step[Max(s)][chosen[s \ {Max(s)}]]
  <2> SUFFICES ASSUME NEW s \in SUBSET (1 .. n), s # {}, chosen[s \ {Max(s)}] \in Dividends(n)
               PROVE  chosen[s] = step[Max(s)][chosen[s \ {Max(s)}]]
    OBVIOUS
  <2>1. Max(s) \in 1 .. n
    BY LastOfSome
  <2> QED
    BY <1>2, <1>8, <2>1
<1> HIDE DEF F
<1>11. IsFold(chosen, Dividends(n), n, start, step)
  BY <1>1, <1>9, <1>10 DEF IsFold
<1>12. StepsOfFold(chosen, Dividends(n), n, start, step)
  BY <1>11, FoldStepByStep
<1>13. PICK p \in [0 .. n -> Dividends(n)] :
         /\ p[0] = start /\ p[n] = chosen[1 .. n]
         /\ \A k \in 1 .. n : p[k] = step[k][p[k - 1]]
  BY <1>12 DEF StepsOfFold
<1>14. \A k \in 1 .. n : p[k] = Subtracted(p[k - 1], n, k)
  <2> SUFFICES ASSUME NEW k \in 1 .. n PROVE p[k] = Subtracted(p[k - 1], n, k)
    OBVIOUS
  <2>1. k - 1 \in 0 .. n
    OBVIOUS
  <2> QED
    BY <1>2, <1>13, <2>1
<1> QED
  BY <1>0, <1>6, <1>8, <1>13, <1>14

\* For every payload the register of calculate_pdcch_crc16, which takes one bit
\* at a time (pdcch_module_api.h:1108), holds the remainder of the long division.
THEOREM ChecksumIsRemainder ==
  ASSUME NEW n \in Nat, NEW bits \in [1 .. n -> {0, 1}]
  PROVE  Remainder(bits) = calculate_pdcch_crc16(bits) /\ Remainder(bits) \in Register
<1> DEFINE zeros == [k \in 1 .. 16 |-> 0]
           start == bits \o zeros
<1>1. zeros \in [1 .. 16 -> {0, 1}] /\ \A i \in 1 .. 16 : zeros[i] = 0
  OBVIOUS
<1> HIDE DEF zeros
<1>2. /\ start \in Dividends(n)
      /\ \A i \in 1 .. n : start[i] = bits[i]
      /\ \A i \in 1 .. 16 : start[n + i] = 0
  <2>1. PICK m \in Nat : m = 16
    OBVIOUS
  <2>2. zeros \in [1 .. m -> {0, 1}]
    BY <1>1, <2>1
  <2>3. TwoWords({0, 1}, n, bits, m, zeros)
    BY <2>2 DEF TwoWords
  <2>4. OneWord(bits \o zeros, {0, 1}, n, bits, m, zeros)
    BY <2>3, OneBehindTheOther
  <2> QED
    BY <1>1, <2>1, <2>4 DEF Dividends, OneWord
<1>3. PICK p \in [0 .. n -> Dividends(n)] :
        /\ p[0] = start /\ Remainder(bits) = SubSeq(p[n], n + 1, n + 16)
        /\ \A k \in 1 .. n : p[k] = Subtracted(p[k - 1], n, k)
  BY <1>2, DivisionInOrder DEF zeros
<1>4. PICK r \in [0 .. n -> Register] :
        /\ r[0] = [i \in 1 .. 16 |-> 0] /\ r[n] = calculate_pdcch_crc16(bits)
        /\ \A k \in 1 .. n : r[k] = crc_step(r[k - 1], bits[k])
  BY RegisterInOrder
<1> HIDE DEF start
<1> DEFINE Rest(k) == \A j \in k + 1 .. n + 16 :
                        p[k][j] = (start[j] + (IF j - k <= 16 THEN r[k][j - k] ELSE 0)) % 2
           T == {k \in Nat : k <= n => Rest(k)}
<1>5. \A j \in 1 .. n + 16 : start[j] \in {0, 1}
  BY <1>2 DEF Dividends
<1>6. ASSUME NEW k \in 0 .. n
      PROVE  (\A j \in 1 .. n + 16 : p[k][j] \in {0, 1}) /\ (\A i \in 1 .. 16 : r[k][i] \in {0, 1})
  BY <1>3, <1>4 DEF Dividends, Register, kCrcBits
<1>7. 0 \in T
  <2> SUFFICES ASSUME NEW j \in 0 + 1 .. n + 16
               PROVE  p[0][j] = (start[j] + (IF j - 0 <= 16 THEN r[0][j - 0] ELSE 0)) % 2
    OBVIOUS
  <2>1. j \in 1 .. n + 16 /\ start[j] \in {0, 1}
    BY <1>5
  <2>2. j <= 16 => r[0][j - 0] = 0
    BY <1>4, <2>1
  <2> QED
    BY <1>3, <2>1, <2>2
<1>8. ASSUME NEW k \in Nat, k \in T
      PROVE  k + 1 \in T
  <2> SUFFICES ASSUME k + 1 <= n, NEW j \in (k + 1) + 1 .. n + 16
               PROVE  p[k + 1][j] = (start[j] + (IF j - (k + 1) <= 16 THEN r[k + 1][j - (k + 1)] ELSE 0)) % 2
    OBVIOUS
  <2> DEFINE f == p[k][k + 1]
             i == j - (k + 1)
  <2>1. /\ k \in 0 .. n /\ k + 1 \in 0 .. n /\ k + 1 \in 1 .. n /\ (k + 1) - 1 = k
        /\ j \in 1 .. n + 16 /\ k + 1 \in 1 .. n + 16 /\ j \in k + 1 .. n + 16 /\ k + 1 \in k + 1 .. n + 16
        /\ i \in Nat /\ i # 0 /\ j - k = i + 1 /\ (k + 1) - k = 1
    OBVIOUS
  <2>2. Rest(k)
    BY <1>8, <2>1
  <2>3. f = (bits[k + 1] + r[k][1]) % 2
    <3>1. f = (start[k + 1] + r[k][1]) % 2
      BY <2>1, <2>2
    <3> QED
      BY <1>2, <2>1, <3>1
  <2>4. p[k][j] = (start[j] + (IF i + 1 <= 16 THEN r[k][i + 1] ELSE 0)) % 2
    BY <2>1, <2>2
  <2>5. p[k + 1][j] = (p[k][j] + (IF i \in {0, 4, 11, 16} THEN f ELSE 0)) % 2
    <3>1. p[k] \in Dividends(n) /\ p[k + 1] = Subtracted(p[k], n, k + 1)
      BY <1>3, <2>1
    <3> QED
      BY <2>1, <3>1, SubtractedBits
  <2>6. ASSUME i <= 16
        PROVE  r[k + 1][i] = ((IF i = 16 THEN 0 ELSE r[k][i + 1]) + (IF i \in {4, 11, 16} THEN f ELSE 0)) % 2
    <3>1. r[k] \in Register /\ r[k + 1] = crc_step(r[k], bits[k + 1]) /\ bits[k + 1] \in {0, 1}
      BY <1>4, <2>1
    <3>2. (r[k][1] + bits[k + 1]) % 2 = f
      <4>1. r[k][1] \in {0, 1}
        BY <1>6, <2>1
      <4> QED
        BY <2>3, <3>1, <4>1
    <3>3. i \in 1 .. 16
      BY <2>1, <2>6
    <3> HIDE DEF f, i
    <3>4. crc_step(r[k], bits[k + 1])[i] =
            ((IF i = 16 THEN 0 ELSE r[k][i + 1])
             + (IF i \in {4, 11, 16} THEN (r[k][1] + bits[k + 1]) % 2 ELSE 0)) % 2
      BY <3>1, <3>3, RegisterSteps, Zenon
    <3> QED
      BY <3>1, <3>2, <3>4, Zenon
  <2>7. /\ f \in {0, 1} /\ start[j] \in {0, 1} /\ p[k][j] \in {0, 1}
        /\ i + 1 <= 16 => r[k][i + 1] \in {0, 1}
    <3>1. i + 1 <= 16 => i + 1 \in 1 .. 16
      BY <2>1
    <3> QED
      BY <1>5, <1>6, <2>1, <3>1
  <2>8. CASE i <= 15
    <3>1. i + 1 <= 16 /\ i # 16 /\ i <= 16 /\ i # 0
      BY <2>1, <2>8
    <3> HIDE DEF f, i
    <3>2. PICK next \in {0, 1}, s \in {0, 1}, w \in {0, 1} : next = r[k][i + 1] /\ s = start[j] /\ w = p[k][j]
      BY <2>7, <3>1
    <3>3. w = (s + next) % 2
      BY <2>4, <3>1, <3>2
    <3>4. CASE i \in {4, 11, 16}
      <4>1. p[k + 1][j] = (w + f) % 2 /\ r[k + 1][i] = (next + f) % 2
        BY <2>5, <2>6, <3>1, <3>2, <3>4
      <4>2. (w + f) % 2 = (s + ((next + f) % 2)) % 2
        BY <2>7, <3>3
      <4> QED
        BY <3>1, <3>2, <4>1, <4>2 DEF i
    <3>5. CASE i \notin {4, 11, 16}
      <4>1. p[k + 1][j] = (w + 0) % 2 /\ r[k + 1][i] = (next + 0) % 2
        BY <2>5, <2>6, <3>1, <3>2, <3>5
      <4>2. (w + 0) % 2 = (s + ((next + 0) % 2)) % 2
        BY <3>3
      <4> QED
        BY <3>1, <3>2, <4>1, <4>2 DEF i
    <3> QED
      BY <3>4, <3>5
  <2>9. CASE i = 16
    <3>1. p[k][j] = start[j] % 2 /\ r[k + 1][16] = f % 2
      <4>1. ~(i + 1 <= 16) /\ start[j] + 0 = start[j] /\ i <= 16 /\ i \in {4, 11, 16} /\ 0 + f = f
        BY <2>7, <2>9
      <4> HIDE DEF f, i
      <4> QED
        BY <2>4, <2>6, <2>9, <4>1
    <3>2. p[k + 1][j] = (p[k][j] + f) % 2
      BY <2>5, <2>9
    <3> HIDE DEF f
    <3> QED
      BY <2>7, <2>9, <3>1, <3>2
  <2>10. CASE i > 16
    <3>1. ~(i + 1 <= 16) /\ i \notin {0, 4, 11, 16} /\ ~(i <= 16)
      BY <2>1, <2>10
    <3>2. p[k + 1][j] = (p[k][j] + 0) % 2 /\ p[k][j] = (start[j] + 0) % 2
      BY <2>4, <2>5, <3>1
    <3> QED
      BY <2>7, <3>1, <3>2
  <2> QED
    BY <2>1, <2>8, <2>9, <2>10
<1> HIDE DEF T
<1>9. \A k \in Nat : k \in T
  BY <1>7, <1>8, NumberByNumber
<1>10. \A j \in n + 1 .. n + 16 : p[n][j] = (start[j] + (IF j - n <= 16 THEN r[n][j - n] ELSE 0)) % 2
  BY <1>9 DEF T
<1>11. ASSUME NEW i \in 1 .. 16
       PROVE  p[n][n + i] = r[n][i]
  <2>1. n + i \in n + 1 .. n + 16 /\ (n + i) - n = i /\ n \in 0 .. n
    OBVIOUS
  <2>2. p[n][n + i] = (start[n + i] + r[n][i]) % 2
    BY <1>10, <2>1
  <2>3. start[n + i] = 0 /\ r[n][i] \in {0, 1}
    BY <1>2, <1>6, <2>1
  <2> QED
    BY <2>2, <2>3
<1>12. Remainder(bits) = [i \in 1 .. 16 |-> p[n][n + i]]
  <2>1. PICK m \in Nat : m = 16
    OBVIOUS
  <2>2. p[n] \in Seq({0, 1}) /\ Len(p[n]) = n + 16
    <3>1. PICK l \in Nat : l = n + 16
      OBVIOUS
    <3>2. p[n] \in [1 .. l -> {0, 1}]
      BY <1>3, <3>1 DEF Dividends
    <3> QED
      BY <3>1, <3>2
  <2>3. SubSeq(p[n], n + 1, n + m) = [i \in 1 .. m |-> p[n][n + i]]
    <3>1. n + m <= Len(p[n])
      BY <2>1, <2>2
    <3> QED
      BY <2>2, <3>1, PartOfSequence
  <2> QED
    BY <1>3, <2>1, <2>3
<1>13. r[n] \in Register /\ r[n] = [i \in 1 .. 16 |-> r[n][i]]
  BY <1>4 DEF Register, kCrcBits
<1>14. Remainder(bits) = r[n]
  BY <1>11, <1>12, <1>13
<1> QED
  BY <1>4, <1>13, <1>14

\* The powers of two that occur, each twice the one before it.
LEMMA PowersDouble ==
  /\ 2^0 = 1
  /\ \A m \in 0 .. 15 : /\ 2^m \in Nat \ {0} /\ 2^(m + 1) = 2 * 2^m
                        /\ \A x \in Nat : x \div 2^(m + 1) = (x \div 2^m) \div 2
<1>1. ASSUME NEW m \in 0 .. 15
      PROVE  /\ 2^m \in Nat \ {0} /\ 2^(m + 1) = 2 * 2^m
             /\ \A x \in Nat : x \div 2^(m + 1) = (x \div 2^m) \div 2
  <2>1. CASE m = 0  BY <2>1
  <2>2. CASE m = 1  BY <2>2
  <2>3. CASE m = 2  BY <2>3
  <2>4. CASE m = 3  BY <2>4
  <2>5. CASE m = 4  BY <2>5
  <2>6. CASE m = 5  BY <2>6
  <2>7. CASE m = 6  BY <2>7
  <2>8. CASE m = 7  BY <2>8
  <2>9. CASE m = 8  BY <2>9
  <2>10. CASE m = 9 BY <2>10
  <2>11. CASE m = 10 BY <2>11
  <2>12. CASE m = 11 BY <2>12
  <2>13. CASE m = 12 BY <2>13
  <2>14. CASE m = 13 BY <2>14
  <2>15. CASE m = 14 BY <2>15
  <2>16. CASE m = 15 BY <2>16
  <2> QED
    BY <2>1, <2>2, <2>3, <2>4, <2>5, <2>6, <2>7, <2>8, <2>9, <2>10, <2>11, <2>12, <2>13, <2>14, <2>15, <2>16
<1> QED
  BY <1>1

\* A number that fits is read back from its bits.
LEMMA BitsOfNumber ==
  ASSUME NEW w \in 0 .. 16, NEW v \in Nat, v < 2^w
  PROVE  BitsOf(v, w) \in [1 .. w -> {0, 1}] /\ Value(BitsOf(v, w)) = v
<1> DEFINE part(m) == v \div 2^m
           bits == BitsOf(v, w)
<1>1. /\ part(0) = v
      /\ \A m \in 0 .. 15 : part(m + 1) = part(m) \div 2
      /\ \A m \in 0 .. 16 : part(m) \in Nat
  <2>1. \A m \in 0 .. 16 : part(m) \in Nat
    <3> SUFFICES ASSUME NEW m \in 0 .. 16 PROVE part(m) \in Nat
      OBVIOUS
    <3>1. CASE m = 16
      BY <3>1
    <3>2. CASE m # 16
      <4>1. m \in 0 .. 15
        BY <3>2
      <4>2. PICK d \in Nat : d = 2^m /\ d # 0
        BY <4>1, PowersDouble
      <4>3. v \div d \in Nat
        BY <4>2
      <4> QED
        BY <4>2, <4>3
    <3> QED
      BY <3>1, <3>2
  <2>2. part(0) = v
    BY PowersDouble
  <2>3. \A m \in 0 .. 15 : part(m + 1) = part(m) \div 2
    BY PowersDouble
  <2> QED
    BY <2>1, <2>2, <2>3
<1>2. part(w) = 0
  <2>1. CASE w = 16
    BY <2>1
  <2>2. CASE w # 16
    <3>1. w \in 0 .. 15
      BY <2>2
    <3>2. PICK d \in Nat : d = 2^w /\ d # 0
      BY <3>1, PowersDouble
    <3>3. v \div d = 0
      BY <3>2
    <3> QED
      BY <3>2, <3>3
  <2> QED
    BY <2>1, <2>2
<1>3. bits = [k \in 1 .. w |-> part(w - k) % 2]
  BY DEF BitsOf
<1> HIDE DEF part
<1>4. \A k \in 1 .. w : w - k \in 0 .. 15 /\ part(w - k) \in Nat
  BY <1>1
<1>5. bits \in [1 .. w -> {0, 1}] /\ \A k \in 1 .. w : bits[k] = part(w - k) % 2
  <2>1. \A k \in 1 .. w : part(w - k) % 2 \in {0, 1}
    BY <1>4
  <2> QED
    BY <1>3, <2>1
<1> HIDE DEF bits
<1>6. PICK p \in [0 .. w -> Nat] :
        /\ p[0] = 0 /\ p[w] = Value(bits)
        /\ \A k \in 1 .. w : p[k] = 2 * p[k - 1] + bits[k]
  <2>1. w \in Nat
    OBVIOUS
  <2> QED
    BY <1>5, <2>1, ValueInOrder
<1> DEFINE T == {k \in Nat : k <= w => p[k] = part(w - k)}
<1>7. 0 \in T
  <2>1. w - 0 = w
    OBVIOUS
  <2> QED
    BY <1>2, <1>6, <2>1
<1>8. ASSUME NEW k \in Nat, k \in T
      PROVE  k + 1 \in T
  <2> SUFFICES ASSUME k + 1 <= w PROVE p[k + 1] = part(w - (k + 1))
    OBVIOUS
  <2>1. PICK m \in 0 .. 15 : m = w - (k + 1) /\ m + 1 = w - k
    <3>1. w - (k + 1) \in 0 .. 15 /\ (w - (k + 1)) + 1 = w - k
      OBVIOUS
    <3> QED
      BY <3>1
  <2>2. k + 1 \in 1 .. w /\ (k + 1) - 1 = k /\ k <= w
    OBVIOUS
  <2>3. p[k + 1] = 2 * part(m + 1) + (part(m) % 2)
    <3>1. p[k] = part(m + 1)
      BY <1>8, <2>1, <2>2
    <3>2. p[k + 1] = 2 * p[k] + bits[k + 1]
      BY <1>6, <2>2
    <3>3. bits[k + 1] = part(m) % 2
      BY <1>5, <2>1, <2>2
    <3> QED
      BY <3>1, <3>2, <3>3
  <2>4. PICK q \in Nat : q = part(m)
    <3>1. m \in 0 .. 16
      OBVIOUS
    <3> QED
      BY <1>1, <3>1
  <2>5. p[k + 1] = 2 * (q \div 2) + (q % 2)
    BY <1>1, <2>3, <2>4
  <2>6. 2 * (q \div 2) + (q % 2) = q
    OBVIOUS
  <2> QED
    BY <2>1, <2>4, <2>5, <2>6, Zenon
<1> HIDE DEF T
<1>9. p[w] = part(w - w)
  <2>1. w \in T
    <3>1. w \in Nat
      OBVIOUS
    <3> QED
      BY <1>7, <1>8, <3>1, NumberByNumber
  <2> QED
    BY <2>1 DEF T
<1>10. w - w = 0
  OBVIOUS
<1> QED
  BY <1>1, <1>5, <1>6, <1>9, <1>10 DEF bits

\* Taken together twice, a register leaves nothing behind.
LEMMA RegistersCancel ==
  ASSUME NEW a \in Register, NEW b \in Register
  PROVE  Xor(a, b) \in Register /\ Xor(Xor(a, b), a) = b
<1>1. DOMAIN a = 1 .. 16 /\ \A i \in 1 .. 16 : a[i] \in {0, 1} /\ b[i] \in {0, 1}
  BY DEF Register, kCrcBits
<1>2. PICK c : c = Xor(a, b)
  OBVIOUS
<1>3. c = [i \in 1 .. 16 |-> (a[i] + b[i]) % 2]
  BY <1>1, <1>2 DEF Xor
<1>4. \A i \in 1 .. 16 : c[i] \in {0, 1} /\ (c[i] + a[i]) % 2 = b[i]
  BY <1>1, <1>3
<1>5. c \in Register
  BY <1>3, <1>4 DEF Register, kCrcBits
<1>6. Xor(c, a) = [i \in 1 .. 16 |-> b[i]]
  <2>1. DOMAIN c = 1 .. 16
    BY <1>3
  <2> QED
    BY <1>4, <2>1 DEF Xor
<1>7. b = [i \in 1 .. 16 |-> b[i]]
  BY DEF Register, kCrcBits
<1> QED
  BY <1>2, <1>5, <1>6, <1>7

\* A word shows the RNTI it was masked with, on host and device.
LEMMA WordShowsRnti ==
  ASSUME NEW n \in Nat, NEW payload \in [1 .. n -> {0, 1}], NEW rnti \in Nat, rnti < 2^16
  PROVE  LET word == WithCrc(payload, rnti)
         IN  /\ Len(word) = n + 16
             /\ SubSeq(word, 1, n) = payload
             /\ check_pdcch_crc_rnti(word, rnti).matches_expected_rnti
             /\ \A other : other # rnti => ~check_pdcch_crc_rnti(word, other).matches_expected_rnti
             /\ n = 28 => pdcch_crc_kernel(word, rnti).matches_expected_rnti
<1> DEFINE crc == calculate_pdcch_crc16(payload)
           mask == BitsOf(rnti, 16)
           word == WithCrc(payload, rnti)
<1>1. crc \in Register /\ Remainder(payload) = crc
  BY ChecksumIsRemainder
<1>2. mask \in Register /\ Value(mask) = rnti
  <2>1. 16 \in 0 .. 16
    OBVIOUS
  <2> QED
    BY <2>1, BitsOfNumber DEF Register, kCrcBits
<1> HIDE DEF crc, mask
<1>3. PICK parity \in Register : parity = Xor(crc, mask) /\ Xor(parity, crc) = mask
  BY <1>1, <1>2, RegistersCancel
<1>4. word = payload \o parity
  BY <1>1, <1>3 DEF WithCrc, mask
<1> HIDE DEF word
<1>5. PICK m \in Nat : m = 16
  OBVIOUS
<1>6. OneWord(payload \o parity, {0, 1}, n, payload, m, parity)
  <2>1. TwoWords({0, 1}, n, payload, m, parity)
    BY <1>3, <1>5 DEF TwoWords, Register, kCrcBits
  <2> QED
    BY <2>1, OneBehindTheOther
<1>7. /\ word \in Seq({0, 1}) /\ Len(word) = n + m
      /\ \A i \in 1 .. n : word[i] = payload[i]
      /\ \A i \in 1 .. m : word[n + i] = parity[i]
  BY <1>4, <1>6 DEF OneWord
<1>8. SubSeq(word, 1, n) = payload
  <2>1. SubSeq(word, 0 + 1, 0 + n) = [i \in 1 .. n |-> word[0 + i]]
    <3>1. 0 \in Nat /\ 0 + n <= Len(word)
      BY <1>7
    <3> QED
      BY <1>7, <3>1, PartOfSequence
  <2>2. payload = [i \in 1 .. n |-> payload[i]]
    OBVIOUS
  <2> QED
    BY <1>7, <2>1, <2>2
<1>9. SubSeq(word, n + 1, n + 16) = parity
  <2>1. SubSeq(word, n + 1, n + m) = [i \in 1 .. m |-> word[n + i]]
    <3>1. n + m <= Len(word)
      BY <1>7
    <3> QED
      BY <1>7, <3>1, PartOfSequence
  <2>2. parity = [i \in 1 .. m |-> parity[i]]
    BY <1>5 DEF Register, kCrcBits
  <2> QED
    BY <1>5, <1>7, <2>1, <2>2
<1>10. Len(word) = n + 16 /\ Len(word) - kCrcBits = n /\ Len(word) - kCrcBits + 1 = n + 1
  BY <1>5, <1>7 DEF kCrcBits
<1>11. \A other : check_pdcch_crc_rnti(word, other).matches_expected_rnti <=> rnti = other
  <2> SUFFICES ASSUME NEW other
               PROVE  check_pdcch_crc_rnti(word, other).matches_expected_rnti <=> rnti = other
    OBVIOUS
  <2>1. check_pdcch_crc_rnti(word, other).matches_expected_rnti <=>
          Value(Xor(SubSeq(word, n + 1, n + 16), calculate_pdcch_crc16(SubSeq(word, 1, n)))) = other
    BY <1>10 DEF check_pdcch_crc_rnti
  <2> QED
    BY <1>2, <1>3, <1>8, <1>9, <2>1 DEF crc
<1>12. ASSUME n = 28
       PROVE  pdcch_crc_kernel(word, rnti).matches_expected_rnti
  <2>1. pdcch_crc_kernel(word, rnti).matches_expected_rnti <=>
          Value(Xor(SubSeq(word, 29, 44), calculate_pdcch_crc16(SubSeq(word, 1, 28)))) = rnti
    BY DEF pdcch_crc_kernel
  <2>2. n + 1 = 29 /\ n + 16 = 44
    BY <1>12
  <2>3. SubSeq(word, 29, 44) = parity
    BY <1>9, <2>2
  <2>4. SubSeq(word, 1, 28) = payload
    BY <1>8, <1>12
  <2> QED
    BY <1>2, <1>3, <2>1, <2>3, <2>4 DEF crc
<1> QED
  BY <1>8, <1>10, <1>11, <1>12 DEF word

\* The recursion of bit_width has one solution that is defined on all of Nat.
LEMMA BitWidthRecurs == \A n \in Nat : bit_width[n] = IF n = 0 THEN 0 ELSE 1 + bit_width[n \div 2]
<1> DEFINE step == [v \in Nat |-> 1 + v]
           F(h) == [n \in Nat |-> IF n = 0 THEN 0 ELSE 1 + h[n \div 2]]
           chosen == CHOOSE h : h = F(h)
<1>1. PICK f \in [Nat -> Nat] : GoesByHalves(f, 0, step)
  <2>1. step \in [Nat -> Nat] /\ 0 \in Nat
    OBVIOUS
  <2> HIDE DEF step
  <2> QED
    BY <2>1, ByHalvesExists
<1>2. f = F(f)
  <2> SUFFICES ASSUME NEW n \in Nat PROVE f[n] = IF n = 0 THEN 0 ELSE 1 + f[n \div 2]
    OBVIOUS
  <2>1. n \div 2 \in Nat
    OBVIOUS
  <2>2. f[n \div 2] \in Nat
    BY <2>1
  <2> QED
    BY <1>1, <2>2 DEF GoesByHalves
<1>3. bit_width = chosen
  BY DEF bit_width
<1>4. chosen = F(chosen)
  <2> HIDE DEF F
  <2> QED
    BY <1>2
<1> HIDE DEF chosen
<1> QED
  BY <1>3, <1>4

\* A number from 2^w on, and below the next power, takes w + 1 bits.
LEMMA WidthOfNumber ==
  \A w \in 0 .. 15 : \A n \in Nat : 2^w <= n /\ n < 2^(w + 1) => bit_width[n] = w + 1
<1> DEFINE T == {w \in Nat : w <= 15 => \A n \in Nat : 2^w <= n /\ n < 2^(w + 1) => bit_width[n] = w + 1}
<1>1. 0 \in T
  <2>1. bit_width[0] = 0 /\ bit_width[1] = 1 + bit_width[1 \div 2] /\ 1 \div 2 = 0
    BY BitWidthRecurs
  <2>2. \A n \in Nat : 2^0 <= n /\ n < 2^(0 + 1) => n = 1
    OBVIOUS
  <2> QED
    BY <2>1, <2>2
<1>2. ASSUME NEW w \in Nat, w \in T
      PROVE  w + 1 \in T
  <2> SUFFICES ASSUME w + 1 <= 15, NEW n \in Nat, 2^(w + 1) <= n, n < 2^((w + 1) + 1)
               PROVE  bit_width[n] = (w + 1) + 1
    OBVIOUS
  <2>1. w \in 0 .. 15 /\ w + 1 \in 0 .. 15 /\ w <= 15
    OBVIOUS
  <2>2. PICK d \in Nat : d = 2^w /\ d # 0 /\ 2^(w + 1) = 2 * d
    BY <2>1, PowersDouble
  <2>3. 2^((w + 1) + 1) = 2 * (2 * d)
    BY <2>1, <2>2, PowersDouble
  <2>4. PICK half \in Nat : half = n \div 2 /\ d <= half /\ half < 2 * d /\ n # 0
    <3>1. 2 * d <= n /\ n < 2 * (2 * d)
      BY <2>2, <2>3
    <3>2. n \div 2 \in Nat /\ d <= n \div 2 /\ n \div 2 < 2 * d /\ n # 0
      BY <2>2, <3>1
    <3> QED
      BY <3>2
  <2>5. bit_width[half] = w + 1
    <3>1. 2^w <= half /\ half < 2^(w + 1)
      BY <2>2, <2>4
    <3> QED
      BY <1>2, <2>1, <3>1
  <2>6. bit_width[n] = 1 + bit_width[half]
    BY <2>4, BitWidthRecurs
  <2> QED
    BY <2>5, <2>6
<1> HIDE DEF T
<1>3. \A w \in Nat : w \in T
  BY <1>1, <1>2, NumberByNumber
<1> QED
  BY <1>3 DEF T

\* How many bits an allocation takes.
LEMMA RivWidths ==
  /\ pdcch_dci_riv_bit_count(6) = 5 /\ pdcch_dci_riv_bit_count(15) = 7
  /\ pdcch_dci_riv_bit_count(25) = 9 /\ pdcch_dci_riv_bit_count(50) = 11
  /\ pdcch_dci_riv_bit_count(75) = 12 /\ pdcch_dci_riv_bit_count(100) = 13
<1>2. pdcch_dci_riv_bit_count(6) = 5
  <2>1. (6 * (6 + 1)) \div 2 - 1 = 20
    OBVIOUS
  <2>2. 4 \in 0 .. 15 /\ 2^4 <= 20 /\ 20 < 2^(4 + 1)
    OBVIOUS
  <2>3. bit_width[20] = 4 + 1
    BY <2>2, WidthOfNumber
  <2> QED
    BY <2>1, <2>3 DEF pdcch_dci_riv_bit_count
<1>3. pdcch_dci_riv_bit_count(15) = 7
  <2>1. (15 * (15 + 1)) \div 2 - 1 = 119
    OBVIOUS
  <2>2. 6 \in 0 .. 15 /\ 2^6 <= 119 /\ 119 < 2^(6 + 1)
    OBVIOUS
  <2>3. bit_width[119] = 6 + 1
    BY <2>2, WidthOfNumber
  <2> QED
    BY <2>1, <2>3 DEF pdcch_dci_riv_bit_count
<1>4. pdcch_dci_riv_bit_count(25) = 9
  <2>1. (25 * (25 + 1)) \div 2 - 1 = 324
    OBVIOUS
  <2>2. 8 \in 0 .. 15 /\ 2^8 <= 324 /\ 324 < 2^(8 + 1)
    OBVIOUS
  <2>3. bit_width[324] = 8 + 1
    BY <2>2, WidthOfNumber
  <2> QED
    BY <2>1, <2>3 DEF pdcch_dci_riv_bit_count
<1>5. pdcch_dci_riv_bit_count(50) = 11
  <2>1. (50 * (50 + 1)) \div 2 - 1 = 1274
    OBVIOUS
  <2>2. 10 \in 0 .. 15 /\ 2^10 <= 1274 /\ 1274 < 2^(10 + 1)
    OBVIOUS
  <2>3. bit_width[1274] = 10 + 1
    BY <2>2, WidthOfNumber
  <2> QED
    BY <2>1, <2>3 DEF pdcch_dci_riv_bit_count
<1>6. pdcch_dci_riv_bit_count(75) = 12
  <2>1. (75 * (75 + 1)) \div 2 - 1 = 2849
    OBVIOUS
  <2>2. 11 \in 0 .. 15 /\ 2^11 <= 2849 /\ 2849 < 2^(11 + 1)
    OBVIOUS
  <2>3. bit_width[2849] = 11 + 1
    BY <2>2, WidthOfNumber
  <2> QED
    BY <2>1, <2>3 DEF pdcch_dci_riv_bit_count
<1>7. pdcch_dci_riv_bit_count(100) = 13
  <2>1. (100 * (100 + 1)) \div 2 - 1 = 5049
    OBVIOUS
  <2>2. 12 \in 0 .. 15 /\ 2^12 <= 5049 /\ 5049 < 2^(12 + 1)
    OBVIOUS
  <2>3. bit_width[5049] = 12 + 1
    BY <2>2, WidthOfNumber
  <2> QED
    BY <2>1, <2>3 DEF pdcch_dci_riv_bit_count
<1> QED
  BY <1>2, <1>3, <1>4, <1>5, <1>6, <1>7

\* The widths of the fields, in the order they are read.
Width(config, k) == WidthsOf(config)[FieldOrder[k]]

\* The names of the fields, which the order enumerates without repetition.
FieldNames == {"cif", "format", "distributed", "riv", "mcs", "harq", "ndi", "rv", "tpc", "dai"}

LEMMA OrderOfFields ==
  /\ FieldOrder \in [1 .. 10 -> FieldNames] /\ DOMAIN FieldOrder = 1 .. 10
  /\ Range(FieldOrder) = FieldNames
  /\ \A j, k \in 1 .. 10 : FieldOrder[j] = FieldOrder[k] => j = k
<1>1. FieldOrder \in [1 .. 10 -> FieldNames] /\ DOMAIN FieldOrder = 1 .. 10
  BY DEF FieldOrder, FieldNames
<1>2. /\ FieldOrder[1] = "cif" /\ FieldOrder[2] = "format" /\ FieldOrder[3] = "distributed"
      /\ FieldOrder[4] = "riv" /\ FieldOrder[5] = "mcs" /\ FieldOrder[6] = "harq"
      /\ FieldOrder[7] = "ndi" /\ FieldOrder[8] = "rv" /\ FieldOrder[9] = "tpc" /\ FieldOrder[10] = "dai"
  BY DEF FieldOrder
<1>3. 1 .. 10 = {1, 2, 3, 4, 5, 6, 7, 8, 9, 10}
  OBVIOUS
<1>4. Range(FieldOrder) = FieldNames
  BY <1>1, <1>2, <1>3 DEF Range, FieldNames
<1>5. \A j, k \in 1 .. 10 : FieldOrder[j] = FieldOrder[k] => j = k
  BY <1>2, <1>3
<1> QED
  BY <1>1, <1>4, <1>5

\* Every width is known.
LEMMA WidthsOfFields ==
  ASSUME NEW config, SupportedConfig(config)
  PROVE  /\ \A k \in 1 .. 10 : Width(config, k) \in 0 .. 16
         /\ Width(config, 1) = (IF config.cif_enabled THEN 3 ELSE 0)
         /\ Width(config, 2) = 1 /\ Width(config, 3) = 1
         /\ Width(config, 4) = pdcch_dci_riv_bit_count(config.n_prb)
         /\ Width(config, 5) = 5 /\ Width(config, 6) = (IF config.tdd THEN 4 ELSE 3)
         /\ Width(config, 7) = 1 /\ Width(config, 8) = 2 /\ Width(config, 9) = 2
         /\ Width(config, 10) = (IF config.tdd THEN 2 ELSE 0)
<1>1. /\ Width(config, 1) = (IF config.cif_enabled THEN 3 ELSE 0)
      /\ Width(config, 2) = 1 /\ Width(config, 3) = 1
      /\ Width(config, 4) = pdcch_dci_riv_bit_count(config.n_prb)
      /\ Width(config, 5) = 5 /\ Width(config, 6) = (IF config.tdd THEN 4 ELSE 3)
      /\ Width(config, 7) = 1 /\ Width(config, 8) = 2 /\ Width(config, 9) = 2
      /\ Width(config, 10) = (IF config.tdd THEN 2 ELSE 0)
  BY DEF Width, WidthsOf, FieldOrder
<1>2. pdcch_dci_riv_bit_count(config.n_prb) \in 0 .. 16
  BY RivWidths DEF SupportedConfig, SupportedBandwidths
<1>3. \A k \in 1 .. 10 : k \in {1, 2, 3, 4, 5, 6, 7, 8, 9, 10}
  OBVIOUS
<1>4. \A k \in 1 .. 10 : Width(config, k) \in 0 .. 16
  BY <1>1, <1>2, <1>3
<1> QED
  BY <1>1, <1>4

\* An offset adds up the widths before it.
LEMMA WidthsInOrder ==
  ASSUME NEW config, SupportedConfig(config), NEW n \in 0 .. 10
  PROVE  \E p \in [0 .. n -> Nat] :
           /\ p[0] = 0 /\ p[n] = OffsetOf(WidthsOf(config), n + 1)
           /\ \A k \in 1 .. n : p[k] = p[k - 1] + Width(config, k)
<1> DEFINE widths == WidthsOf(config)
           names == SubSeq(FieldOrder, 1, (n + 1) - 1)
           G(it) == [s \in SUBSET DOMAIN names |->
                       IF s = {} THEN 0 ELSE it[s \ {Max(s)}] + widths[names[Max(s)]]]
           F(it) == [s \in SUBSET (1 .. n) |->
                       IF s = {} THEN 0 ELSE it[s \ {Max(s)}] + Width(config, Max(s))]
           step == [k \in 1 .. n |-> [v \in Nat |-> v + Width(config, k)]]
           chosen == CHOOSE it : it = G(it)
<1>1. n \in Nat /\ \A k \in 1 .. n : k \in 1 .. 10
  OBVIOUS
<1>2. \A k \in 1 .. n : Width(config, k) \in Nat
  <2>1. \A w \in 0 .. 16 : w \in Nat
    OBVIOUS
  <2> QED
    BY <1>1, <2>1, WidthsOfFields
<1>3. names = [k \in 1 .. n |-> FieldOrder[k]]
  <2>1. FieldOrder \in Seq(FieldNames) /\ Len(FieldOrder) = 10
    BY DEF FieldOrder, FieldNames
  <2>2. SubSeq(FieldOrder, 0 + 1, 0 + n) = [i \in 1 .. n |-> FieldOrder[0 + i]]
    <3>1. 0 \in Nat /\ 0 + n <= Len(FieldOrder)
      BY <2>1
    <3> QED
      BY <1>1, <2>1, <3>1, PartOfSequence
  <2>3. 0 + 1 = 1 /\ 0 + n = (n + 1) - 1 /\ \A i \in 1 .. n : 0 + i = i
    OBVIOUS
  <2> QED
    BY <2>2, <2>3
<1>4. \A h : G(h) = F(h)
  <2> SUFFICES ASSUME NEW h PROVE G(h) = F(h)
    OBVIOUS
  <2>1. DOMAIN names = 1 .. n
    BY <1>3
  <2>2. ASSUME NEW s \in SUBSET (1 .. n), s # {}
        PROVE  widths[names[Max(s)]] = Width(config, Max(s))
    <3>1. Max(s) \in 1 .. n
      BY <1>1, <2>2, LastOfSome
    <3>2. names[Max(s)] = FieldOrder[Max(s)]
      BY <1>3, <3>1
    <3> QED
      BY <3>2 DEF Width
  <2> HIDE DEF names, widths
  <2> QED
    BY <2>1, <2>2
<1>5. step \in [1 .. n -> [Nat -> Nat]] /\ 0 \in Nat
  BY <1>2
<1>6. \A k \in 1 .. n : \A v \in Nat : step[k][v] = v + Width(config, k)
  OBVIOUS
<1> HIDE DEF step
<1>7. PICK it \in [SUBSET (1 .. n) -> Nat] : FoldsBy(it, n, 0, step)
  BY <1>1, <1>5, SetFoldExists
<1>8. it = F(it)
  <2> SUFFICES ASSUME NEW s \in SUBSET (1 .. n)
               PROVE  it[s] = IF s = {} THEN 0 ELSE it[s \ {Max(s)}] + Width(config, Max(s))
    OBVIOUS
  <2>1. CASE s = {}
    BY <1>7, <2>1 DEF FoldsBy
  <2>2. CASE s # {}
    <3>1. Max(s) \in 1 .. n /\ it[s \ {Max(s)}] \in Nat
      BY <1>1, <1>7, <2>2, LastOfSome
    <3> QED
      BY <1>6, <1>7, <2>2, <3>1 DEF FoldsBy
  <2> QED
    BY <2>1, <2>2
<1>9. OffsetOf(widths, n + 1) = chosen[DOMAIN names]
  BY DEF OffsetOf, FoldLeft, MapThenFoldSet
<1>10. chosen = G(chosen)
  <2>1. it = G(it)
    BY <1>4, <1>8
  <2> HIDE DEF G
  <2> QED
    BY <2>1
<1> HIDE DEF chosen
<1>11. chosen = F(chosen) /\ DOMAIN names = 1 .. n
  BY <1>3, <1>4, <1>10
<1> HIDE DEF G, names
<1>12. chosen[{}] = 0
  BY <1>11
<1>13. \A s \in SUBSET (1 .. n) :
        s # {} /\ chosen[s \ {Max(s)}] \in Nat => chosen[s] = step[Max(s)][chosen[s \ {Max(s)}]]
  <2> SUFFICES ASSUME NEW s \in SUBSET (1 .. n), s # {}, chosen[s \ {Max(s)}] \in Nat
               PROVE  chosen[s] = step[Max(s)][chosen[s \ {Max(s)}]]
    OBVIOUS
  <2>1. Max(s) \in 1 .. n
    BY <1>1, LastOfSome
  <2> QED
    BY <1>6, <1>11, <2>1
<1> HIDE DEF F
<1>14. IsFold(chosen, Nat, n, 0, step)
  BY <1>1, <1>5, <1>12, <1>13 DEF IsFold
<1>15. StepsOfFold(chosen, Nat, n, 0, step)
  BY <1>14, FoldStepByStep
<1>16. PICK p \in [0 .. n -> Nat] :
         /\ p[0] = 0 /\ p[n] = chosen[1 .. n]
         /\ \A k \in 1 .. n : p[k] = step[k][p[k - 1]]
  BY <1>15 DEF StepsOfFold
<1>17. \A k \in 1 .. n : p[k] = p[k - 1] + Width(config, k)
  <2> SUFFICES ASSUME NEW k \in 1 .. n PROVE p[k] = p[k - 1] + Width(config, k)
    OBVIOUS
  <2>1. k - 1 \in 0 .. n
    OBVIOUS
  <2> QED
    BY <1>6, <1>16, <2>1
<1> QED
  BY <1>9, <1>11, <1>16, <1>17

\* Each field begins where the one before it ends.
LEMMA OffsetsAddUp ==
  ASSUME NEW config, SupportedConfig(config)
  PROVE  /\ OffsetOf(WidthsOf(config), 1) = 0
         /\ \A k \in 1 .. 11 : OffsetOf(WidthsOf(config), k) \in Nat
         /\ \A k \in 1 .. 10 : OffsetOf(WidthsOf(config), k + 1)
                                 = OffsetOf(WidthsOf(config), k) + Width(config, k)
<1> DEFINE at(k) == OffsetOf(WidthsOf(config), k)
           Adds(p, n) == /\ p[0] = 0 /\ p[n] = at(n + 1)
                         /\ \A k \in 1 .. n : p[k] = p[k - 1] + Width(config, k)
<1>1. \A n \in 0 .. 10 : \E p \in [0 .. n -> Nat] : Adds(p, n)
  BY WidthsInOrder
<1> HIDE DEF at
<1>2. at(1) = 0
  <2>1. PICK p \in [0 .. 0 -> Nat] : Adds(p, 0)
    BY <1>1
  <2> QED
    BY <2>1
<1>3. \A k \in 1 .. 11 : at(k) \in Nat
  <2> SUFFICES ASSUME NEW k \in 1 .. 11 PROVE at(k) \in Nat
    OBVIOUS
  <2>1. PICK n \in 0 .. 10 : k = n + 1
    <3>1. k - 1 \in 0 .. 10 /\ k = (k - 1) + 1
      OBVIOUS
    <3> QED
      BY <3>1
  <2>2. PICK p \in [0 .. n -> Nat] : Adds(p, n)
    BY <1>1
  <2>3. n \in 0 .. n
    OBVIOUS
  <2> QED
    BY <2>1, <2>2, <2>3
<1>4. ASSUME NEW k \in 1 .. 10
      PROVE  at(k + 1) = at(k) + Width(config, k)
  <2>1. PICK n \in 0 .. 9 : k = n + 1
    <3>1. k - 1 \in 0 .. 9 /\ k = (k - 1) + 1
      OBVIOUS
    <3> QED
      BY <3>1
  <2>2. n \in 0 .. 10 /\ k \in 0 .. 10
    OBVIOUS
  <2>3. PICK p \in [0 .. n -> Nat] : Adds(p, n)
    BY <1>1, <2>2
  <2>4. PICK q \in [0 .. k -> Nat] : Adds(q, k)
    BY <1>1, <2>2
  <2> DEFINE T == {j \in Nat : j <= n => p[j] = q[j]}
  <2>5. 0 \in T
    BY <2>3, <2>4
  <2>6. ASSUME NEW j \in Nat, j \in T
        PROVE  j + 1 \in T
    <3> SUFFICES ASSUME j + 1 <= n PROVE p[j + 1] = q[j + 1]
      OBVIOUS
    <3>1. j + 1 \in 1 .. n /\ j + 1 \in 1 .. k /\ (j + 1) - 1 = j /\ j <= n
      BY <2>1
    <3>2. p[j + 1] = p[j] + Width(config, j + 1) /\ q[j + 1] = q[j] + Width(config, j + 1)
      BY <2>3, <2>4, <3>1
    <3> QED
      BY <2>6, <3>1, <3>2
  <2> HIDE DEF T
  <2>7. n \in T
    <3>1. n \in Nat
      OBVIOUS
    <3> QED
      BY <2>5, <2>6, <3>1, NumberByNumber
  <2>8. p[n] = q[n]
    BY <2>7 DEF T
  <2>9. k \in 1 .. k /\ k - 1 = n
    BY <2>1
  <2>10. q[k] = q[k - 1] + Width(config, k)
    BY <2>4, <2>9
  <2> QED
    BY <2>1, <2>3, <2>4, <2>8, <2>9, <2>10
<1> QED
  BY <1>2, <1>3, <1>4 DEF at

\* Where field k begins.
At(config, k) == OffsetOf(WidthsOf(config), k)

\* Where the fields that are named begin, and how many bits there are.
LEMMA PlacesOfFields ==
  ASSUME NEW config, SupportedConfig(config)
  PROVE  /\ \A k \in 1 .. 11 : At(config, k) \in Nat
         /\ \A k \in 1 .. 10 : At(config, k + 1) = At(config, k) + Width(config, k)
         /\ At(config, 8) = At(config, 5) + (IF config.tdd THEN 10 ELSE 9)
         /\ At(config, 9) = At(config, 8) + 2 /\ At(config, 10) = At(config, 9) + 2
         /\ pdcch_dci_format1a_payload_bit_count(config) \in Nat \ {0}
         /\ At(config, 11) <= pdcch_dci_format1a_payload_bit_count(config)
<1>1. /\ At(config, 1) = 0 /\ \A k \in 1 .. 11 : At(config, k) \in Nat
      /\ \A k \in 1 .. 10 : At(config, k + 1) = At(config, k) + Width(config, k)
  BY OffsetsAddUp DEF At
<1>2. /\ At(config, 2) = At(config, 1) + Width(config, 1)
      /\ At(config, 3) = At(config, 2) + Width(config, 2)
      /\ At(config, 4) = At(config, 3) + Width(config, 3)
      /\ At(config, 5) = At(config, 4) + Width(config, 4)
      /\ At(config, 6) = At(config, 5) + Width(config, 5)
      /\ At(config, 7) = At(config, 6) + Width(config, 6)
      /\ At(config, 8) = At(config, 7) + Width(config, 7)
      /\ At(config, 9) = At(config, 8) + Width(config, 8)
      /\ At(config, 10) = At(config, 9) + Width(config, 9)
      /\ At(config, 11) = At(config, 10) + Width(config, 10)
  <2>1. \A k \in {1, 2, 3, 4, 5, 6, 7, 8, 9, 10} : k \in 1 .. 10
    OBVIOUS
  <2>2. \A k \in {1, 2, 3, 4, 5, 6, 7, 8, 9, 10} : At(config, k + 1) = At(config, k) + Width(config, k)
    BY <1>1, <2>1
  <2> QED
    BY <2>2
<1>3. At(config, 5) \in Nat /\ At(config, 8) \in Nat
  <2>1. 5 \in 1 .. 11 /\ 8 \in 1 .. 11
    OBVIOUS
  <2> QED
    BY <1>1, <2>1
<1> DEFINE riv == pdcch_dci_riv_bit_count(config.n_prb)
           count == pdcch_dci_format1a_payload_bit_count(config)
<1>4. /\ riv \in Nat
      /\ At(config, 5) = (IF config.cif_enabled THEN 3 ELSE 0) + 1 + 1 + riv
      /\ At(config, 8) = At(config, 5) + (IF config.tdd THEN 10 ELSE 9)
      /\ At(config, 9) = At(config, 8) + 2 /\ At(config, 10) = At(config, 9) + 2
      /\ At(config, 11) = At(config, 8) + 4 + (IF config.tdd THEN 2 ELSE 0)
  <2>1. riv \in Nat
    <3>1. Width(config, 4) = riv /\ Width(config, 4) \in 0 .. 16
      <4>1. 4 \in 1 .. 10
        OBVIOUS
      <4> QED
        BY <4>1, WidthsOfFields
      <3> QED
        BY <3>1
  <2> HIDE DEF riv
  <2> QED
    BY <1>1, <1>2, <1>3, <2>1, WidthsOfFields DEF riv
<1>5. /\ config.n_prb \in {6, 15, 25, 50, 75, 100} /\ config.n_prb \in SupportedBandwidths
      /\ config.tdd \in BOOLEAN /\ config.cif_enabled \in BOOLEAN
      /\ config.tdd \/ config.cif_enabled => config.n_prb = 100
  BY DEF SupportedConfig, SupportedBandwidths
<1>6. CASE config.tdd \/ config.cif_enabled
  <2>1. count = (IF config.cif_enabled THEN 3 ELSE 0) + 2 + riv + 5 + (IF config.tdd THEN 4 ELSE 3) + 5
                  + (IF config.tdd THEN 2 ELSE 0)
    BY <1>5, <1>6 DEF pdcch_dci_format1a_payload_bit_count
  <2> HIDE DEF riv, count
  <2>2. count \in Nat \ {0} /\ At(config, 11) <= count
    BY <1>4, <1>5, <2>1
  <2> QED
    BY <1>1, <1>4, <2>2 DEF count
<1>7. CASE ~(config.tdd \/ config.cif_enabled)
  <2>1. count = kFddPayloadBits[config.n_prb]
    BY <1>5, <1>7 DEF pdcch_dci_format1a_payload_bit_count
  <2>2. At(config, 11) = 15 + riv
    <3> HIDE DEF riv, count
    <3> QED
      BY <1>4, <1>7
  <2>3. count \in Nat \ {0} /\ 15 + riv <= count
    <3>1. CASE config.n_prb = 6   BY <2>1, <3>1, RivWidths DEF kFddPayloadBits, SupportedBandwidths
    <3>2. CASE config.n_prb = 15  BY <2>1, <3>2, RivWidths DEF kFddPayloadBits, SupportedBandwidths
    <3>3. CASE config.n_prb = 25  BY <2>1, <3>3, RivWidths DEF kFddPayloadBits, SupportedBandwidths
    <3>4. CASE config.n_prb = 50  BY <2>1, <3>4, RivWidths DEF kFddPayloadBits, SupportedBandwidths
    <3>5. CASE config.n_prb = 75  BY <2>1, <3>5, RivWidths DEF kFddPayloadBits, SupportedBandwidths
    <3>6. CASE config.n_prb = 100 BY <2>1, <3>6, RivWidths DEF kFddPayloadBits, SupportedBandwidths
    <3> QED
      BY <1>5, <3>1, <3>2, <3>3, <3>4, <3>5, <3>6
  <2> HIDE DEF riv, count
  <2> QED
    BY <1>1, <1>4, <2>2, <2>3 DEF count
<1> QED
  BY <1>6, <1>7

-----------------------------------------------------------------------------
\* Every field, in the order of reading, fits the bits it has.
Fits(field, config) ==
  \A k \in 1 .. 10 : field[FieldOrder[k]] \in Nat /\ field[FieldOrder[k]] < 2^Width(config, k)

FieldBits(field, config, k) == BitsOf(field[FieldOrder[k]], Width(config, k))

\* What a payload holds: each field where it begins, and zeros behind the last.
Holds(payload, field, config) ==
  /\ payload \in [1 .. pdcch_dci_format1a_payload_bit_count(config) -> {0, 1}]
  /\ \A k \in 1 .. 10 : \A j \in 1 .. Width(config, k) :
       /\ At(config, k) + j \in 1 .. At(config, 11)
       /\ payload[At(config, k) + j] = FieldBits(field, config, k)[j]
  /\ ZeroFrom(payload, At(config, 11))

\* The order of reading does not matter for that.
LEMMA FieldsFitTheirBits ==
  ASSUME NEW field, NEW config, FieldsFit(field, config)
  PROVE  Fits(field, config)
BY OrderOfFields, Zenon DEF FieldsFit, Fits, Width

\* The transmitter puts each field where the receiver looks for it.
LEMMA PayloadHoldsTheFields ==
  ASSUME NEW config, SupportedConfig(config), NEW field, Fits(field, config)
  PROVE  Holds(EncodeDci(field, config), field, config)
<1> DEFINE count == pdcch_dci_format1a_payload_bit_count(config)
           parts == [k \in 1 .. 10 |-> FieldBits(field, config, k)]
           ends == [k \in 0 .. 10 |-> At(config, k + 1)]
           bits == FlattenSeq(parts)
<1>1. ASSUME NEW k \in 1 .. 10
      PROVE  /\ FieldBits(field, config, k) \in [1 .. Width(config, k) -> {0, 1}]
             /\ Width(config, k) \in Nat
  <2>1. PICK w \in 0 .. 16 : w = Width(config, k)
    BY WidthsOfFields
  <2>2. BitsOf(field[FieldOrder[k]], w) \in [1 .. w -> {0, 1}]
    BY <2>1, BitsOfNumber DEF Fits
  <2> QED
    BY <2>1, <2>2 DEF FieldBits
<1>2. ASSUME NEW k \in 1 .. 10
      PROVE  parts[k] \in Seq({0, 1}) /\ Len(parts[k]) = Width(config, k)
  <2>1. PICK w \in Nat : w = Width(config, k) /\ parts[k] \in [1 .. w -> {0, 1}]
    BY <1>1
  <2> HIDE DEF parts
  <2> QED
    BY <2>1
<1>3. parts \in Seq(Seq({0, 1})) /\ Len(parts) = 10 /\ \A k \in 1 .. 10 : parts[k] = FieldBits(field, config, k)
  <2>1. parts = [k \in 1 .. 10 |-> parts[k]]
    OBVIOUS
  <2>2. PICK n \in Nat : n = 10
    OBVIOUS
  <2>3. \A k \in 1 .. n : parts[k] \in Seq({0, 1})
    BY <1>2, <2>2
  <2>4. parts \in [1 .. n -> Seq({0, 1})]
    BY <2>1, <2>2, <2>3
  <2>5. parts \in Seq(Seq({0, 1})) /\ Len(parts) = n
    BY <2>4, SequenceOfNumbered
  <2> QED
    BY <2>2, <2>5
<1>4. /\ \A k \in 1 .. 11 : At(config, k) \in Nat
      /\ \A k \in 1 .. 10 : At(config, k + 1) = At(config, k) + Width(config, k)
      /\ count \in Nat /\ At(config, 11) <= count
  BY PlacesOfFields
<1>5. At(config, 1) = 0
  BY OffsetsAddUp DEF At
<1> HIDE DEF parts
<1>6. \A k \in 0 .. 10 : k + 1 \in 1 .. 11 /\ ends[k] = At(config, k + 1)
  OBVIOUS
<1>7. EndsOfParts(ends, parts)
  <2>1. ends \in [0 .. Len(parts) -> Nat]
    BY <1>3, <1>4, <1>6
  <2>2. ends[0] = 0
    BY <1>5, <1>6
  <2>3. ASSUME NEW k \in 1 .. Len(parts)
        PROVE  ends[k] = ends[k - 1] + Len(parts[k])
    <3>1. k \in 1 .. 10 /\ k - 1 \in 0 .. 10 /\ k \in 0 .. 10 /\ (k - 1) + 1 = k
      BY <1>3
    <3>2. ends[k] = At(config, k + 1) /\ ends[k - 1] = At(config, k)
      BY <1>6, <3>1
    <3> QED
      BY <1>2, <1>4, <3>1, <3>2
  <2> HIDE DEF ends
  <2> QED
    BY <2>1, <2>2, <2>3 DEF EndsOfParts
<1> HIDE DEF ends
<1>8. Joint(bits, {0, 1}, parts, ends, Len(parts))
  BY <1>3, <1>7, JoinedParts
<1> HIDE DEF bits
<1>9. PICK n \in Nat, m \in Nat : n = At(config, 11) /\ m = count - n /\ n + m = count
  <2>1. At(config, 11) \in Nat /\ count - At(config, 11) \in Nat
    <3>1. 11 \in 1 .. 11
      OBVIOUS
    <3> QED
      BY <1>4, <3>1
  <2>2. At(config, 11) + (count - At(config, 11)) = count
    BY <1>4, <2>1
  <2> QED
    BY <2>1, <2>2
<1>10. bits \in [1 .. n -> {0, 1}] /\ Len(bits) = n
  <2>1. ends[10] = n
    <3>1. 10 \in 0 .. 10 /\ 10 + 1 = 11
      OBVIOUS
    <3> QED
      BY <1>6, <1>9, <3>1
  <2>2. bits \in Seq({0, 1}) /\ Len(bits) = n
    BY <1>3, <1>8, <2>1 DEF Joint
  <2> QED
    BY <2>2, LenProperties
<1> DEFINE zeros == [k \in 1 .. m |-> 0]
           payload == EncodeDci(field, config)
<1>11. payload = bits \o zeros
  <2>1. parts = [k \in DOMAIN FieldOrder |-> BitsOf(field[FieldOrder[k]], WidthsOf(config)[FieldOrder[k]])]
    BY OrderOfFields DEF parts, FieldBits, Width
  <2>2. payload = bits \o [k \in 1 .. count - Len(bits) |-> 0]
    BY <2>1 DEF EncodeDci, bits
  <2> QED
    BY <1>9, <1>10, <2>2
<1> HIDE DEF payload
<1>12. zeros \in [1 .. m -> {0, 1}] /\ \A i \in 1 .. m : zeros[i] = 0
  OBVIOUS
<1> HIDE DEF zeros
<1>13. OneWord(payload, {0, 1}, n, bits, m, zeros)
  <2>1. TwoWords({0, 1}, n, bits, m, zeros)
    BY <1>10, <1>12 DEF TwoWords
  <2> QED
    BY <1>11, <2>1, OneBehindTheOther
<1>14. payload \in [1 .. count -> {0, 1}]
  BY <1>9, <1>13 DEF OneWord
<1>15. ASSUME NEW k \in 1 .. 10, NEW j \in 1 .. Width(config, k)
       PROVE  /\ At(config, k) + j \in 1 .. n
              /\ payload[At(config, k) + j] = FieldBits(field, config, k)[j]
  <2>1. k \in 1 .. 11 /\ k - 1 \in 0 .. 10 /\ k \in 0 .. 10 /\ (k - 1) + 1 = k
    OBVIOUS
  <2>2. PICK first \in Nat, last \in Nat, size \in Nat :
          /\ first = At(config, k) /\ last = At(config, k + 1) /\ size = Width(config, k)
          /\ last = first + size
    <3>1. k + 1 \in 1 .. 11
      OBVIOUS
    <3> QED
      BY <1>1, <1>4, <2>1, <3>1
  <2>3. ends[k] = last /\ ends[k - 1] = first /\ ends[10] = n
    <3>1. ends[k] = last
      BY <1>6, <2>1, <2>2, Zenon
    <3>2. ends[k - 1] = first
      BY <1>6, <2>1, <2>2, Zenon
    <3>3. 10 \in 0 .. 10 /\ 10 + 1 = 11
      OBVIOUS
    <3> QED
      BY <1>6, <1>9, <3>1, <3>2, <3>3, Zenon
  <2>4. last <= n /\ \A i \in 1 .. size : bits[first + i] = parts[k][i]
    <3>1. k \in 1 .. Len(parts)
      BY <1>3
    <3>2. /\ ends[k] <= ends[Len(parts)]
          /\ \A i \in 1 .. Len(parts[k]) : bits[ends[k - 1] + i] = parts[k][i]
      BY <1>8, <3>1 DEF Joint
    <3>3. Len(parts[k]) = size /\ Len(parts) = 10
      BY <1>2, <1>3, <2>2
    <3> QED
      BY <2>3, <3>2, <3>3
  <2>5. first + j \in 1 .. n
    <3>1. last <= n
      BY <2>4
    <3>2. last = first + size /\ j \in 1 .. size
      BY <2>2
    <3> QED
      BY <3>1, <3>2
  <2>6. payload[first + j] = bits[first + j]
    BY <1>13, <2>5 DEF OneWord
  <2> QED
    BY <1>3, <2>2, <2>4, <2>5, <2>6
<1>16. ZeroFrom(payload, n)
  <2>1. Len(payload) = n + m
    BY <1>13 DEF OneWord
  <2> SUFFICES ASSUME NEW k \in n + 1 .. n + m PROVE payload[k] = 0
    BY <2>1 DEF ZeroFrom
  <2>2. PICK i \in 1 .. m : k = n + i
    <3>1. k - n \in 1 .. m /\ k = n + (k - n)
      OBVIOUS
    <3> QED
      BY <3>1
  <2> QED
    BY <1>12, <1>13, <2>2 DEF OneWord
<1> QED
  BY <1>9, <1>14, <1>15, <1>16 DEF Holds, payload

\* A field is read as the number it was written as.
LEMMA FieldIsRead ==
  ASSUME NEW config, SupportedConfig(config), NEW field, Fits(field, config),
         NEW payload, Holds(payload, field, config), NEW k \in 1 .. 10
  PROVE  NumberAt(payload, At(config, k), Width(config, k)) = field[FieldOrder[k]]
<1> DEFINE count == pdcch_dci_format1a_payload_bit_count(config)
<1>1. PICK w \in 0 .. 16 : w = Width(config, k)
  BY WidthsOfFields
<1>2. BitsOf(field[FieldOrder[k]], w) \in [1 .. w -> {0, 1}] /\ Value(BitsOf(field[FieldOrder[k]], w)) = field[FieldOrder[k]]
  BY <1>1, BitsOfNumber DEF Fits
<1>3. PICK first \in Nat, last \in Nat, n \in Nat :
        first = At(config, k) /\ last = At(config, 11) /\ n = count /\ last <= n
  <2>1. k \in 1 .. 11 /\ 11 \in 1 .. 11
    OBVIOUS
  <2> QED
    BY <2>1, PlacesOfFields
<1>4. payload \in Seq({0, 1}) /\ Len(payload) = n
  <2>1. payload \in [1 .. n -> {0, 1}]
    BY <1>3 DEF Holds
  <2> QED
    BY <2>1
<1>5. \A j \in 1 .. w : first + j \in 1 .. last /\ payload[first + j] = FieldBits(field, config, k)[j]
  BY <1>1, <1>3 DEF Holds
<1>6. CASE w = 0
  <2>1. SubSeq(payload, first + 1, first + w) = <<>>
    BY <1>4, <1>6
  <2>2. BitsOf(field[FieldOrder[k]], w) = <<>>
    BY <1>2, <1>6
  <2> QED
    BY <1>1, <1>2, <1>3, <2>1, <2>2 DEF NumberAt
<1>7. CASE w # 0
  <2>1. first + w <= Len(payload)
    <3>1. w \in 1 .. w
      BY <1>7
    <3>2. first + w \in 1 .. last
      BY <1>5, <3>1
    <3> QED
      BY <1>3, <1>4, <3>2
  <2>2. w \in Nat
    OBVIOUS
  <2>3. SubSeq(payload, first + 1, first + w) = [i \in 1 .. w |-> payload[first + i]]
    BY <1>4, <2>1, <2>2, PartOfSequence
  <2>4. BitsOf(field[FieldOrder[k]], w) = [i \in 1 .. w |-> BitsOf(field[FieldOrder[k]], w)[i]]
    BY <1>2
  <2>5. \A i \in 1 .. w : payload[first + i] = BitsOf(field[FieldOrder[k]], w)[i]
    BY <1>1, <1>5 DEF FieldBits
  <2>6. SubSeq(payload, first + 1, first + w) = BitsOf(field[FieldOrder[k]], w)
    BY <2>3, <2>4, <2>5
  <2> QED
    BY <1>1, <1>2, <1>3, <2>6 DEF NumberAt
<1> QED
  BY <1>6, <1>7

\* The fields the parser reads.
FieldsRead(payload, config) ==
  [name \in Range(FieldOrder) |->
     LET k == CHOOSE j \in DOMAIN FieldOrder : FieldOrder[j] = name
     IN  NumberAt(payload, OffsetOf(WidthsOf(config), k), WidthsOf(config)[name])]

\* All fields are read back.
LEMMA FieldsAreRead ==
  ASSUME NEW config, SupportedConfig(config), NEW field, Fits(field, config),
         NEW payload, Holds(payload, field, config)
  PROVE  \A name \in FieldNames : FieldsRead(payload, config)[name] = field[name]
<1> SUFFICES ASSUME NEW name \in FieldNames
             PROVE  FieldsRead(payload, config)[name] = field[name]
  OBVIOUS
<1> DEFINE k == CHOOSE j \in DOMAIN FieldOrder : FieldOrder[j] = name
<1>1. k \in 1 .. 10 /\ FieldOrder[k] = name
  <2>1. \E j \in DOMAIN FieldOrder : FieldOrder[j] = name
    BY OrderOfFields DEF Range
  <2> QED
    BY <2>1, OrderOfFields
<1>2. FieldsRead(payload, config)[name] = NumberAt(payload, At(config, k), WidthsOf(config)[name])
  BY OrderOfFields DEF FieldsRead, At
<1> HIDE DEF k
<1>3. NumberAt(payload, At(config, k), Width(config, k)) = field[FieldOrder[k]]
  BY <1>1, FieldIsRead
<1> QED
  BY <1>1, <1>2, <1>3 DEF Width

\* Behind the preamble and its mask an order has nothing but zeros.
LEMMA OrderEndsInZeros ==
  ASSUME NEW config, SupportedConfig(config), NEW field, PaddedOrder(field, config),
         NEW payload, Holds(payload, field, config)
  PROVE  ZeroFrom(payload, At(config, 5) + 10)
<1>1. PICK n \in Nat : n = pdcch_dci_format1a_payload_bit_count(config) /\ Len(payload) = n
  <2>1. PICK n \in Nat : n = pdcch_dci_format1a_payload_bit_count(config)
    BY PlacesOfFields
  <2>2. payload \in [1 .. n -> {0, 1}]
    BY <2>1 DEF Holds
  <2> QED
    BY <2>1, <2>2
<1>2. /\ Width(config, 8) = 2 /\ Width(config, 9) = 2
      /\ Width(config, 10) = (IF config.tdd THEN 2 ELSE 0) /\ config.tdd \in BOOLEAN
  BY WidthsOfFields DEF SupportedConfig
<1>3. FieldOrder[8] = "rv" /\ FieldOrder[9] = "tpc" /\ FieldOrder[10] = "dai"
  BY DEF FieldOrder
<1>4. PICK m \in Nat, last \in Nat :
        /\ m = At(config, 5) /\ last = At(config, 11)
        /\ At(config, 8) = m + (IF config.tdd THEN 10 ELSE 9)
        /\ At(config, 9) = At(config, 8) + 2 /\ At(config, 10) = At(config, 9) + 2
        /\ last = At(config, 10) + (IF config.tdd THEN 2 ELSE 0)
  <2>1. 5 \in 1 .. 11 /\ 11 \in 1 .. 11 /\ 10 \in 1 .. 10 /\ 10 + 1 = 11
    OBVIOUS
  <2>2. At(config, 5) \in Nat /\ At(config, 11) \in Nat
    BY <2>1, PlacesOfFields
  <2>3. At(config, 11) = At(config, 10) + Width(config, 10)
    BY <2>1, PlacesOfFields
  <2> QED
    BY <1>2, <2>2, <2>3, PlacesOfFields
<1>5. \A j \in 1 .. 2 : BitsOf(0, 2)[j] = 0
  <2>1. BitsOf(0, 2)[1] = (0 \div 2^(2 - 1)) % 2 /\ BitsOf(0, 2)[2] = (0 \div 2^(2 - 2)) % 2
    BY DEF BitsOf
  <2>2. 2^(2 - 1) = 2 /\ 2^(2 - 2) = 1
    OBVIOUS
  <2> QED
    BY <2>1, <2>2
<1>6. BitsOf(2, 2)[2] = 0
  <2>1. BitsOf(2, 2)[2] = (2 \div 2^(2 - 2)) % 2
    BY DEF BitsOf
  <2>2. 2^(2 - 2) = 1
    OBVIOUS
  <2> QED
    BY <2>1, <2>2
<1>7. \A j \in 1 .. 2 : payload[At(config, 9) + j] = 0
  <2>1. \A j \in 1 .. 2 : payload[At(config, 9) + j] = BitsOf(0, 2)[j]
    BY <1>2, <1>3 DEF Holds, FieldBits, PaddedOrder
  <2> QED
    BY <1>5, <2>1
<1>8. config.tdd => \A j \in 1 .. 2 : payload[At(config, 10) + j] = 0 /\ payload[At(config, 8) + j] = 0
  <2>1. config.tdd => \A j \in 1 .. 2 : /\ payload[At(config, 10) + j] = BitsOf(0, 2)[j]
                                        /\ payload[At(config, 8) + j] = BitsOf(0, 2)[j]
    BY <1>2, <1>3 DEF Holds, FieldBits, PaddedOrder
  <2> QED
    BY <1>5, <2>1
<1>9. ~config.tdd => payload[At(config, 8) + 2] = 0
  <2>1. ~config.tdd => payload[At(config, 8) + 2] = BitsOf(0, 2)[2] \/ payload[At(config, 8) + 2] = BitsOf(2, 2)[2]
    BY <1>2, <1>3 DEF Holds, FieldBits, PaddedOrder
  <2> QED
    BY <1>5, <1>6, <2>1
<1>10. \A i \in last + 1 .. n : payload[i] = 0
  BY <1>1, <1>4 DEF Holds, ZeroFrom
<1> SUFFICES ASSUME NEW i \in m + 10 + 1 .. n PROVE payload[i] = 0
  BY <1>1, <1>4 DEF ZeroFrom
<1>11. CASE i > last
  BY <1>10, <1>11
<1>12. CASE i <= last /\ config.tdd
  <2>1. \/ i = At(config, 8) + 1 \/ i = At(config, 8) + 2 \/ i = At(config, 9) + 1
        \/ i = At(config, 9) + 2 \/ i = At(config, 10) + 1 \/ i = At(config, 10) + 2
    BY <1>4, <1>12
  <2> QED
    BY <1>7, <1>8, <1>12, <2>1
<1>13. CASE i <= last /\ ~config.tdd
  <2>1. i = At(config, 8) + 2 \/ i = At(config, 9) + 1 \/ i = At(config, 9) + 2
    BY <1>4, <1>13
  <2> QED
    BY <1>7, <1>9, <1>13, <2>1
<1> QED
  BY <1>2, <1>4, <1>11, <1>12, <1>13

\* The number of a run never has every bit set.
LEMMA RunIsNoOrder ==
  ASSUME NEW start, NEW length, NEW n, RunOfBand(start, length, n)
  PROVE  EncodeRiv(start, length, n) # 2^pdcch_dci_riv_bit_count(n) - 1
<1>1. n \in {6, 15, 25, 50, 75, 100} /\ start \in Nat /\ length \in Nat /\ length >= 1 /\ start + length <= n
  BY DEF RunOfBand, SupportedBandwidths
<1>2. n \div 2 \in Nat
  BY <1>1
<1>3. EncodeRiv(start, length, n) < (n * (n + 1)) \div 2
  BY <1>1, <1>2, NumbersInRange DEF EncodeRiv
<1>4. PICK w \in Nat : /\ w = pdcch_dci_riv_bit_count(n)
                       /\ n = 6 => w = 5
                       /\ n = 15 => w = 7
                       /\ n = 25 => w = 9
                       /\ n = 50 => w = 11
                       /\ n = 75 => w = 12
                       /\ n = 100 => w = 13
  BY <1>1, RivWidths
<1> DEFINE power == [v \in Nat |-> 2^v]
<1>5. /\ power[5] = 32 /\ power[7] = 128 /\ power[9] = 512
      /\ power[11] = 2048 /\ power[12] = 4096 /\ power[13] = 8192
  OBVIOUS
<1> HIDE DEF power
<1>6. (n * (n + 1)) \div 2 <= power[w] - 1 /\ (n * (n + 1)) \div 2 \in Int /\ power[w] \in Int
  <2>1. CASE n = 6   BY <1>4, <1>5, <2>1
  <2>2. CASE n = 15  BY <1>4, <1>5, <2>2
  <2>3. CASE n = 25  BY <1>4, <1>5, <2>3
  <2>4. CASE n = 50  BY <1>4, <1>5, <2>4
  <2>5. CASE n = 75  BY <1>4, <1>5, <2>5
  <2>6. CASE n = 100 BY <1>4, <1>5, <2>6
  <2> QED
    BY <1>1, <2>1, <2>2, <2>3, <2>4, <2>5, <2>6
<1>7. EncodeRiv(start, length, n) \in Int
  BY <1>1, <1>2 DEF EncodeRiv
<1>8. EncodeRiv(start, length, n) # power[w] - 1
  BY <1>3, <1>6, <1>7
<1> QED
  BY <1>4, <1>8 DEF power

\* A DCI that agrees with the fields it was made of.
Agrees(dci, field, rnti, config) ==
  /\ dci.rnti = rnti /\ dci.cif_present = config.cif_enabled
  /\ dci.is_pdcch_order <=> field.riv = 2^WidthsOf(config).riv - 1
  /\ ~dci.is_pdcch_order =>
       /\ dci.carrier_indicator = field.cif /\ dci.mcs_tbs_index = field.mcs
       /\ dci.harq_process = field.harq /\ dci.redundancy_version = field.rv
       /\ dci.downlink_assignment_index = field.dai
       /\ EncodeRiv(dci.start_prb, dci.n_prb, config.n_prb) = field.riv
       /\ IF rnti = kSiRnti THEN dci.n_prb_1a = 2 + field.tpc
          ELSE dci.transmit_power_control = field.tpc /\ dci.new_data_indicator = field.ndi

\* The two readings of a payload: a random-access order and an assignment.
LEMMA OrderIsParsed ==
  ASSUME NEW config, NEW field, NEW rnti, NEW payload, NEW offset,
         ZeroFrom(payload, offset + 10), field.riv = 2^WidthsOf(config).riv - 1
  PROVE  /\ parse_pdcch_order(payload, offset, rnti, config).status = "kOk"
         /\ Agrees(parse_pdcch_order(payload, offset, rnti, config).dci, field, rnti, config)
BY DEF parse_pdcch_order, Parsed, DefaultDci, Agrees

LEMMA AssignmentIsParsed ==
  ASSUME NEW config, NEW field, NEW rnti, NEW payload, NEW read, NEW start, NEW length,
         RunOfBand(start, length, config.n_prb),
         field.riv = EncodeRiv(start, length, config.n_prb),
         field.tpc \in Nat, rnti = kSiRnti => field.tpc < 2,
         \A name \in FieldNames : read[name] = field[name]
  PROVE  /\ parse_pdcch_assignment(payload, read, rnti, config).status = "kOk"
         /\ Agrees(parse_pdcch_assignment(payload, read, rnti, config).dci, field, rnti, config)
<1> DEFINE out == parse_pdcch_assignment(payload, read, rnti, config)
<1>1. /\ read.cif = field.cif /\ read.riv = field.riv /\ read.mcs = field.mcs /\ read.harq = field.harq
      /\ read.ndi = field.ndi /\ read.rv = field.rv /\ read.tpc = field.tpc /\ read.dai = field.dai
  BY DEF FieldNames
<1>2. decode_pdcch_type2_riv(read.riv, config.n_prb) =
        [status |-> "kOk", run |-> [start |-> start, length |-> length]]
  BY <1>1, AllocationsAreReadBack DEF RunOfBand
<1>3. ~(rnti = kSiRnti /\ read.tpc >= 2)
  BY <1>1
<1>4. out.status = "kOk"
  BY <1>2, <1>3 DEF parse_pdcch_assignment, Parsed
<1>5. /\ out.dci.rnti = rnti /\ out.dci.carrier_indicator = read.cif
      /\ out.dci.mcs_tbs_index = read.mcs /\ out.dci.harq_process = read.harq
  BY <1>2, <1>3 DEF parse_pdcch_assignment, Parsed, DefaultDci
<1>6. /\ out.dci.redundancy_version = read.rv /\ out.dci.downlink_assignment_index = read.dai
      /\ out.dci.start_prb = start /\ out.dci.n_prb = length
  BY <1>2, <1>3 DEF parse_pdcch_assignment, Parsed, DefaultDci
<1>7. ~out.dci.is_pdcch_order
  BY <1>2, <1>3 DEF parse_pdcch_assignment, Parsed, DefaultDci
<1>8. out.dci.cif_present = config.cif_enabled
  BY <1>2, <1>3 DEF parse_pdcch_assignment, Parsed, DefaultDci
<1>9. rnti = kSiRnti => out.dci.n_prb_1a = IF read.tpc % 2 = 1 THEN 3 ELSE 2
  BY <1>2, <1>3 DEF parse_pdcch_assignment, Parsed, DefaultDci
<1>10. rnti # kSiRnti => out.dci.transmit_power_control = read.tpc /\ out.dci.new_data_indicator = read.ndi
  <2> SUFFICES ASSUME rnti # kSiRnti
               PROVE  out.dci.transmit_power_control = read.tpc /\ out.dci.new_data_indicator = read.ndi
    OBVIOUS
  <2>1. out.dci.transmit_power_control = read.tpc
    BY <1>2, <1>3, Zenon DEF parse_pdcch_assignment, Parsed, DefaultDci
  <2>2. out.dci.new_data_indicator = read.ndi
    BY <1>2, <1>3, Zenon DEF parse_pdcch_assignment, Parsed, DefaultDci
  <2> QED
    BY <2>1, <2>2
<1> HIDE DEF out
<1>11. rnti = kSiRnti => out.dci.n_prb_1a = 2 + field.tpc
  <2>1. rnti = kSiRnti => field.tpc \in {0, 1}
    OBVIOUS
  <2> QED
    BY <1>1, <1>9, <2>1
<1>12. field.riv # 2^WidthsOf(config).riv - 1
  BY RunIsNoOrder DEF WidthsOf
<1> QED
  BY <1>1, <1>4, <1>5, <1>6, <1>7, <1>8, <1>10, <1>11, <1>12, Zenon DEF Agrees, out

\* Whatever is sent is read back.
LEMMA PayloadIsParsed ==
  ASSUME NEW field, NEW rnti, NEW config, Sendable(field, rnti, config)
  PROVE  LET out == parse_pdcch_dci_format1a(EncodeDci(field, config), rnti, config)
         IN  out.status = "kOk" /\ Agrees(out.dci, field, rnti, config)
<1> DEFINE payload == EncodeDci(field, config)
           read == FieldsRead(payload, config)
           out == parse_pdcch_dci_format1a(payload, rnti, config)
           count == pdcch_dci_format1a_payload_bit_count(config)
<1>1. SupportedConfig(config) /\ Fits(field, config) /\ field.format = 1
  BY FieldsFitTheirBits DEF Sendable
<1>2. Holds(payload, field, config)
  BY <1>1, PayloadHoldsTheFields
<1>3. \A name \in FieldNames : read[name] = field[name]
  BY <1>1, <1>2, FieldsAreRead
<1>4. count # 0 /\ Len(payload) = count
  <2>1. PICK n \in Nat \ {0} : n = count
    BY <1>1, PlacesOfFields
  <2>2. payload \in [1 .. n -> {0, 1}]
    BY <1>2, <2>1 DEF Holds
  <2> HIDE DEF payload, count
  <2> QED
    BY <2>1, <2>2
<1>5. read.format = 1 /\ read.distributed = field.distributed /\ read.riv = field.riv
  BY <1>1, <1>3 DEF FieldNames
<1>6. ZeroFrom(payload, At(config, 11))
  BY <1>2 DEF Holds
<1>7. out = IF read.distributed = 0 /\ read.riv = 2^WidthsOf(config).riv - 1
            THEN parse_pdcch_order(payload, At(config, 5), rnti, config)
            ELSE IF ~ZeroFrom(payload, At(config, 11)) THEN Parsed("kInvalidArgument", DefaultDci)
            ELSE parse_pdcch_assignment(payload, read, rnti, config)
  <2> HIDE DEF payload
  <2> QED
    BY <1>4, <1>5, Zenon DEF parse_pdcch_dci_format1a, FieldsRead, At
<1> HIDE DEF payload, out, read
<1>8. CASE PaddedOrder(field, config)
  <2>1. field.distributed = 0 /\ field.riv = 2^WidthsOf(config).riv - 1
    BY <1>8 DEF PaddedOrder
  <2>2. ZeroFrom(payload, At(config, 5) + 10)
    BY <1>1, <1>2, <1>8, OrderEndsInZeros
  <2>3. out = parse_pdcch_order(payload, At(config, 5), rnti, config)
    BY <1>5, <1>7, <2>1, Zenon
  <2> QED
    BY <2>1, <2>2, <2>3, OrderIsParsed DEF out, payload
<1>9. CASE \E start \in 0 .. config.n_prb - 1, length \in 1 .. config.n_prb : /\ RunOfBand(start, length, config.n_prb)
                                      /\ field.riv = EncodeRiv(start, length, config.n_prb)
  <2>1. PICK start \in 0 .. config.n_prb - 1, length \in 1 .. config.n_prb : /\ RunOfBand(start, length, config.n_prb)
                                     /\ field.riv = EncodeRiv(start, length, config.n_prb)
    BY <1>9
  <2>2. field.riv # 2^WidthsOf(config).riv - 1
    BY <2>1, RunIsNoOrder DEF WidthsOf
  <2>3. out = parse_pdcch_assignment(payload, read, rnti, config)
    BY <1>5, <1>6, <1>7, <2>2, Zenon
  <2>4. field.tpc \in Nat
    <3>1. 9 \in 1 .. 10 /\ FieldOrder[9] = "tpc"
      BY DEF FieldOrder
    <3> QED
      BY <1>1, <3>1 DEF Fits
  <2>5. rnti = kSiRnti => field.tpc < 2
    BY DEF Sendable
  <2>6. out.status = "kOk" /\ Agrees(out.dci, field, rnti, config)
    BY <1>3, <2>1, <2>3, <2>4, <2>5, AssignmentIsParsed
  <2> QED
    BY <2>6 DEF out, payload
<1> QED
  BY <1>8, <1>9 DEF Sendable

\* From the word that is sent to what the receiver is told.
LEMMA WordIsUnderstood ==
  ASSUME NEW field, NEW rnti \in Nat, rnti < 2^16, NEW config, Sendable(field, rnti, config)
  PROVE  LET word == WithCrc(EncodeDci(field, config), rnti)
             parsed == validate_and_parse_pdcch_dci_format1a(word, rnti, config)
             device == IF Len(word) = 44 THEN pdcch_crc_kernel(word, rnti)
                       ELSE check_pdcch_crc_rnti(word, rnti)
         IN  /\ parsed.status = "kOk" /\ parsed.matched /\ Agrees(parsed.dci, field, rnti, config)
             /\ \A other : other # rnti => ~validate_and_parse_pdcch_dci_format1a(word, other, config).matched
             /\ device.matches_expected_rnti
<1> DEFINE count == pdcch_dci_format1a_payload_bit_count(config)
           payload == EncodeDci(field, config)
           word == WithCrc(payload, rnti)
           parsed == validate_and_parse_pdcch_dci_format1a(word, rnti, config)
           device == IF Len(word) = 44 THEN pdcch_crc_kernel(word, rnti)
                     ELSE check_pdcch_crc_rnti(word, rnti)
<1>1. SupportedConfig(config) /\ Fits(field, config)
  BY FieldsFitTheirBits DEF Sendable
<1>2. PICK n \in Nat \ {0} : n = count
  BY <1>1, PlacesOfFields
<1>3. payload \in [1 .. n -> {0, 1}]
  BY <1>1, <1>2, PayloadHoldsTheFields DEF Holds
<1>4. /\ parse_pdcch_dci_format1a(payload, rnti, config).status = "kOk"
      /\ Agrees(parse_pdcch_dci_format1a(payload, rnti, config).dci, field, rnti, config)
  BY PayloadIsParsed
<1> HIDE DEF payload
<1>5. /\ Len(word) = n + 16 /\ SubSeq(word, 1, n) = payload
      /\ check_pdcch_crc_rnti(word, rnti).matches_expected_rnti
      /\ \A other : other # rnti => ~check_pdcch_crc_rnti(word, other).matches_expected_rnti
      /\ n = 28 => pdcch_crc_kernel(word, rnti).matches_expected_rnti
  BY <1>2, <1>3, WordShowsRnti
<1> HIDE DEF word
<1>6. ~(count = 0 \/ Len(word) # count + kCrcBits) /\ SubSeq(word, 1, count) = payload
  BY <1>2, <1>5 DEF kCrcBits
<1> HIDE DEF count
<1>7. parsed = [status |-> "kOk", matched |-> TRUE,
                dci |-> parse_pdcch_dci_format1a(payload, rnti, config).dci]
  BY <1>4, <1>5, <1>6, Zenon DEF validate_and_parse_pdcch_dci_format1a, count
<1>8. ASSUME NEW other, other # rnti
      PROVE  ~validate_and_parse_pdcch_dci_format1a(word, other, config).matched
  <2>1. validate_and_parse_pdcch_dci_format1a(word, other, config) = Unmatched("kOk")
    BY <1>5, <1>6, <1>8, Zenon DEF validate_and_parse_pdcch_dci_format1a, count
  <2> QED
    BY <2>1 DEF Unmatched
<1>9. device.matches_expected_rnti
  <2>1. n + 16 = 44 => n = 28
    OBVIOUS
  <2>2. Len(word) = 44 => n = 28
    BY <1>5, <2>1, Zenon
  <2> QED
    BY <1>5, <2>2
<1> HIDE DEF parsed, device
<1>10. parsed.status = "kOk" /\ parsed.matched /\ Agrees(parsed.dci, field, rnti, config)
  BY <1>4, <1>7
<1> QED
  BY <1>8, <1>9, <1>10 DEF parsed, device, word, payload

-----------------------------------------------------------------------------
\* The two questions about allocations and fields.
LEMMA AllocationAnswered == ASSUME DecodeAllocation PROVE DciRoundTrip'
<1>1. PICK in \in Inputs.runs :
        Ask("run", in, decode_pdcch_type2_riv(EncodeRiv(in.start, in.length, in.n_prb), in.n_prb))
  BY Zenon DEF DecodeAllocation
<1>2. RunOfBand(in.start, in.length, in.n_prb)
  BY DciInputsAssumption
<1>3. decode_pdcch_type2_riv(EncodeRiv(in.start, in.length, in.n_prb), in.n_prb)
        = [status |-> "kOk", run |-> [start |-> in.start, length |-> in.length]]
  BY <1>2, AllocationsAreReadBack DEF RunOfBand
<1>4. answer' = [kind |-> "run", in |-> in,
                 out |-> [status |-> "kOk", run |-> [start |-> in.start, length |-> in.length]]]
  BY <1>1, <1>3, Zenon DEF Ask
<1> QED
  BY <1>4 DEF DciRoundTrip, Answered

\* The fields agree, for the RNTI the word was masked with and for no other.
LEMMA DciAnswered == ASSUME ParseDci PROVE DciRoundTrip'
<1> DEFINE word(in) == WithCrc(EncodeDci(in.field, in.config), in.rnti)
           parsed(in) == validate_and_parse_pdcch_dci_format1a(word(in), in.rnti, in.config)
           other(in) == validate_and_parse_pdcch_dci_format1a(word(in), OtherRnti, in.config)
           device(in) == IF Len(word(in)) = 44 THEN pdcch_crc_kernel(word(in), in.rnti)
                         ELSE check_pdcch_crc_rnti(word(in), in.rnti)
<1>1. PICK in \in Inputs.dcis :
        Ask("dci", in, [parsed |-> parsed(in), other |-> other(in), device |-> device(in)])
  BY Zenon DEF ParseDci
<1>2. /\ in.rnti \in Nat /\ in.rnti < 2^16 /\ in.rnti # OtherRnti
      /\ Sendable(in.field, in.rnti, in.config)
  BY DciInputsAssumption
<1>3. /\ parsed(in).status = "kOk" /\ parsed(in).matched
      /\ Agrees(parsed(in).dci, in.field, in.rnti, in.config)
      /\ ~other(in).matched /\ device(in).matches_expected_rnti
  BY <1>2, WordIsUnderstood
<1> HIDE DEF parsed, other, device
<1>4. /\ answer'.kind = "dci" /\ answer'.in = in /\ answer'.out.parsed = parsed(in)
      /\ answer'.out.other = other(in) /\ answer'.out.device = device(in)
  BY <1>1 DEF Ask
<1> QED
  BY <1>3, <1>4, Zenon DEF DciRoundTrip, Answered, Agrees

\* Answers of other kinds are no allocations and no fields.
LEMMA NoFields ==
  ASSUME \/ HandOver \/ PdschLlrs \/ ControlLlrs \/ DecodeWord \/ RecoverRate
         \/ BuildLayout \/ EstimateChannel \/ EstimateNoise \/ EqualiseDiversity \/ EqualiseLayers
         \/ ReceiveDci \/ NewReceiver
  PROVE  answer'.kind \notin {"run", "dci"}
<1>1. CASE HandOver BY <1>1 DEF HandOver
<1>2. CASE PdschLlrs BY <1>2 DEF PdschLlrs
<1>3. CASE ControlLlrs
  <2>1. \E in, out : Ask("control", in, out)
    BY <1>3, Zenon DEF ControlLlrs
  <2> QED
    BY <2>1 DEF Ask
<1>4. CASE DecodeWord BY <1>4 DEF DecodeWord, Ask
<1>5. CASE RecoverRate BY <1>5 DEF RecoverRate, Ask
<1>6. CASE BuildLayout BY <1>6 DEF BuildLayout, Ask
<1>7. CASE EstimateChannel BY <1>7 DEF EstimateChannel, Ask
<1>8. CASE EstimateNoise BY <1>8 DEF EstimateNoise, Ask
<1>9. CASE EqualiseDiversity
  <2>1. \E in, out : Ask("diversity", in, out)
    BY <1>9, Zenon DEF EqualiseDiversity
  <2> QED
    BY <2>1 DEF Ask
<1>10. CASE EqualiseLayers
  <2>1. \E in, out : Ask("layers", in, out)
    BY <1>10, Zenon DEF EqualiseLayers
  <2> QED
    BY <2>1 DEF Ask
<1>11. CASE ReceiveDci
  <2>1. \E in, out : Ask("candidate", in, out)
    BY <1>11, Zenon DEF ReceiveDci
  <2> QED
    BY <2>1 DEF Ask
<1>12. CASE NewReceiver BY <1>12 DEF NewReceiver, NoAnswer
<1> QED
  BY <1>1, <1>2, <1>3, <1>4, <1>5, <1>6, <1>7, <1>8, <1>9, <1>10, <1>11, <1>12

\* Whatever run of blocks and whatever DCI is sent, in FDD and TDD, with and
\* without a carrier indicator, for system information and as a random-access
\* order: the word shows its RNTI and no other, on host and device, and every
\* field is read back (pdcch_module_api.h:1104, :1205, :1265).
THEOREM DcisAreReadBack == Spec => []DciRoundTrip
<1>1. Init => DciRoundTrip
  BY DEF Init, DciRoundTrip, Answered, NoAnswer
<1>2. DciRoundTrip /\ [Next]_receiverVars => DciRoundTrip'
  <2> SUFFICES ASSUME DciRoundTrip, [Next]_receiverVars PROVE DciRoundTrip'
    OBVIOUS
  <2>1. CASE DecodeAllocation
    BY <2>1, AllocationAnswered
  <2>2. CASE ParseDci
    BY <2>2, DciAnswered
  <2>3. CASE Search \/ UNCHANGED receiverVars
    <3>1. answer' = answer
      BY <2>3 DEF Search, receiverVars
    <3> QED
      BY <3>1, Zenon DEF DciRoundTrip, Answered
  <2>4. CASE answer'.kind \notin {"run", "dci"}
    BY <2>4, Zenon DEF DciRoundTrip, Answered
  <2> QED
    BY <2>1, <2>2, <2>3, <2>4, NoFields, Zenon DEF Next
<1> QED
  BY <1>1, <1>2, PTL DEF Spec

=============================================================================
