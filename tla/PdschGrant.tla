------------------------------- MODULE PdschGrant -------------------------------
(***************************************************************************)
(* From a decoded DCI to the PDSCH the equaliser extracts                  *)
(* (src/include/mmse/pdcch_pdsch_handoff.h and the tables of               *)
(* lte_pdsch_transport.h).  The PRB bitmap is the set `prbs`; the fields   *)
(* that are only copied (HARQ, power control, payload) are left out.       *)
(*                                                                         *)
(* A hit is [rnti, first_cce, aggregation_level, cell_id, sfn_subframe,    *)
(* matched, crc, dci]; a handoff config has the fields of                  *)
(* PdcchPdschHandoffConfigV1.                                              *)
(***************************************************************************)
EXTENDS ReLayouts, DciFormat1A

kPdschGrantSchemaVersionV1 == 1

NoGrant ==
  [schema_version |-> 0, sfn_subframe |-> 0, physical_cell_id |-> 0, rnti |-> 0,
   downlink_bandwidth_prb |-> 0, start_prb |-> 0, n_prb |-> 0, prbs |-> {}, start_symbol |-> 0,
   modulation_order |-> 0, tbs_index |-> 0, tbs_prb_count |-> 0, n_tx_ports |-> 0,
   n_layers |-> 0, transmission_mode |-> 0, pmi |-> -1, codeword |-> 0, codeword_count |-> 0]

\* The table has 27 rows and 100 columns; its entries are left out.
pdsch_transport_block_size(tbs_index, n_prb) == tbs_index < 27 /\ n_prb \in 1 .. 100

OnePortOrTwo(n_tx_ports, transmission_mode) ==
  <<n_tx_ports, transmission_mode>> \in {<<1, 1>>, <<2, 2>>}

\* The CRC and the RNTI agree, and the allocation lies in its band.
WellFormedHit(hit) ==
  /\ hit.matched /\ hit.crc.matches_expected_rnti
  /\ hit.crc.unmasked_rnti = hit.dci.rnti /\ hit.dci.rnti # 0
  /\ hit.crc.unmasked_rnti = Value(Xor(BitsOf(hit.crc.transmitted_crc, kCrcBits),
                                       BitsOf(hit.crc.calculated_crc, kCrcBits)))
  /\ hit.cell_id < kLteNumCellIds
  /\ hit.aggregation_level \in {1, 2, 4, 8}
  /\ hit.dci.downlink_bandwidth_prb # 0 /\ hit.dci.n_prb # 0
  /\ hit.dci.start_prb + hit.dci.n_prb <= hit.dci.downlink_bandwidth_prb

\* Localised allocations of the full band, one layer and one codeword.
SupportedByHandoff(dci, config) ==
  /\ ~dci.is_pdcch_order /\ ~dci.distributed /\ ~dci.cif_present
  /\ dci.downlink_bandwidth_prb = kLteNumPrb20MHz
  /\ config.start_symbol \in 1 .. kLteMaxControlSymbolsNormalCp
  /\ config.n_layers = 1 /\ config.codeword = 0 /\ config.codeword_count = 1 /\ config.pmi = -1
  /\ OnePortOrTwo(config.n_tx_ports, config.transmission_mode)

\* Mutant: the size of a system information block is looked up by its allocation.
TransportParameters_allocated(dci) ==
  LET mcs == pdsch_mcs_parameters(dci.mcs_tbs_index)
  IN  IF dci.rnti = kSiRnti
      THEN [status |-> "kOk", modulation_order |-> 2, tbs_prb_count |-> dci.n_prb]
      ELSE [status |-> "kOk", modulation_order |-> mcs.modulation_order,
            tbs_prb_count |-> dci.n_prb]

\* System information is QPSK with its own PRB count; other grants follow the MCS.
TransportParameters(dci) ==
  LET mcs == pdsch_mcs_parameters(dci.mcs_tbs_index)
      status == IF dci.rnti = kSiRnti
                THEN IF \/ ~dci.n_prb_1a_valid \/ dci.n_prb_1a \notin {2, 3}
                        \/ dci.new_data_indicator_valid \/ dci.transmit_power_control_valid
                     THEN "kInvalidArgument" ELSE "kOk"
                ELSE IF ~dci.mcs_valid \/ ~mcs.valid THEN "kUnsupportedConfig"
                ELSE IF \/ ~dci.new_data_indicator_valid \/ ~dci.transmit_power_control_valid
                        \/ dci.n_prb_1a_valid \/ mcs.tbs_index # dci.tbs_index
                     THEN "kInvalidArgument" ELSE "kOk"
  IN  [status |-> status,
       modulation_order |-> IF dci.rnti = kSiRnti THEN 2 ELSE mcs.modulation_order,
       tbs_prb_count |-> IF dci.rnti = kSiRnti THEN dci.n_prb_1a ELSE dci.n_prb]

GrantOf(hit, config) ==
  LET dci == hit.dci
      transport == TransportParameters(dci)
  IN  [schema_version |-> kPdschGrantSchemaVersionV1, sfn_subframe |-> hit.sfn_subframe,
       physical_cell_id |-> hit.cell_id, rnti |-> dci.rnti,
       downlink_bandwidth_prb |-> dci.downlink_bandwidth_prb,
       start_prb |-> dci.start_prb, n_prb |-> dci.n_prb,
       prbs |-> dci.start_prb .. dci.start_prb + dci.n_prb - 1,
       start_symbol |-> config.start_symbol,
       modulation_order |-> transport.modulation_order,
       tbs_index |-> dci.tbs_index, tbs_prb_count |-> transport.tbs_prb_count,
       n_tx_ports |-> config.n_tx_ports, n_layers |-> config.n_layers,
       transmission_mode |-> config.transmission_mode, pmi |-> config.pmi,
       codeword |-> config.codeword, codeword_count |-> config.codeword_count]

make_pdsch_grant_v1(hit, config) ==
  LET transport == TransportParameters(hit.dci)
      Refused(status) == [status |-> status, grant |-> NoGrant]
  IN  IF ~WellFormedHit(hit) THEN Refused("kInvalidArgument")
      ELSE IF ~hit.dci.tbs_index_valid \/ ~SupportedByHandoff(hit.dci, config)
           THEN Refused("kUnsupportedConfig")
      ELSE IF transport.status # "kOk" THEN Refused(transport.status)
      ELSE IF ~pdsch_transport_block_size(hit.dci.tbs_index, transport.tbs_prb_count)
           THEN Refused("kUnsupportedConfig")
      ELSE [status |-> "kOk", grant |-> GrantOf(hit, config)]

UsableGrant(grant, n_rx_ant) ==
  /\ grant.schema_version = kPdschGrantSchemaVersionV1
  /\ grant.physical_cell_id < kLteNumCellIds
  /\ n_rx_ant \in 1 .. kMmseV1MaxNumRxAntennas
  /\ grant.n_prb # 0 /\ grant.downlink_bandwidth_prb = kLteNumPrb20MHz
  /\ grant.start_prb + grant.n_prb <= kLteNumPrb20MHz
  /\ grant.start_symbol \in 1 .. kLteMaxControlSymbolsNormalCp
  /\ grant.modulation_order \in {2, 4, 6}
  /\ grant.n_layers = 1 /\ grant.n_layers <= n_rx_ant
  /\ grant.codeword = 0 /\ grant.codeword_count = 1 /\ grant.pmi = -1
  /\ OnePortOrTwo(grant.n_tx_ports, grant.transmission_mode)
  /\ \A prb \in 0 .. kLteNumPrb20MHz - 1 :
       prb \in grant.prbs <=> grant.start_prb <= prb /\ prb < grant.start_prb + grant.n_prb

DescriptorOf(grant, n_rx_ant) ==
  [sfn_subframe |-> grant.sfn_subframe, cell_id |-> grant.physical_cell_id,
   n_tx_ports |-> grant.n_tx_ports, n_rx_ant |-> n_rx_ant, n_layers |-> grant.n_layers,
   tx_mode |-> grant.transmission_mode, channel_type |-> "kPdsch",
   start_symbol |-> grant.start_symbol, control_symbol_count |-> grant.start_symbol,
   mod_order |-> grant.modulation_order, n_prb |-> grant.n_prb, prbs |-> grant.prbs,
   pmi |-> grant.pmi]

make_pdsch_extract_descriptor_v1(grant, n_rx_ant) ==
  IF UsableGrant(grant, n_rx_ant) THEN [status |-> "kOk", descriptor |-> DescriptorOf(grant, n_rx_ant)]
  ELSE [status |-> "kInvalidArgument", descriptor |-> <<>>]

=============================================================================
