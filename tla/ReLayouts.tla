------------------------------- MODULE ReLayouts -------------------------------
(***************************************************************************)
(* What the equaliser accepts, and the resource elements of PDSCH, PBCH    *)
(* and PCFICH in the order it delivers them                                *)
(* (src/src/mmse_equalizer_cpu.cpp); ControlRegion has the PDCCH.          *)
(*                                                                         *)
(* A descriptor is a record of the fields of ExtractDescriptor; its PRB    *)
(* bitmap is the set `prbs`.  An element is its index in a grid of         *)
(* n_subcarriers tones per symbol.                                         *)
(***************************************************************************)
EXTENDS ChannelEstimate

Control == INSTANCE ControlRegion

kLteNumCellIds == 504
kLteNumPrb20MHz == 100
kLteNumSubcarriers20MHz == 1200
kMmseV1MaxNumRxAntennas == 2
kMmseV1MaxNumCrsTxPorts == 4
kLteMaxControlSymbolsNormalCp == 3
kLtePbchStartSymbolNormalCp == 7
kLtePbchNumSymbols == 4
PbchPrbs == 47 .. 52

is_supported_lte_downlink_bandwidth(n_prb) == n_prb \in {6, 15, 25, 50, 75, 100}

\* One port, or transmit diversity over two or four.
ControlPorts(desc) ==
  \/ desc.n_tx_ports = 1 /\ desc.tx_mode = 1
  \/ desc.n_tx_ports = 2 /\ desc.tx_mode = 2
  \/ desc.n_tx_ports = 4 /\ desc.n_rx_ant = 1 /\ desc.tx_mode = 2

PdschSupported(desc) ==
  /\ desc.start_symbol < kLteNumSymbolsNormalCp
  /\ desc.control_symbol_count <= kLteMaxControlSymbolsNormalCp
  /\ desc.n_tx_ports = 1 => desc.n_layers = 1 /\ desc.tx_mode = 1
  /\ desc.n_tx_ports = 2 => desc.tx_mode = 2
  /\ desc.n_tx_ports <= 2

PdcchSupported(desc) ==
  /\ is_supported_lte_downlink_bandwidth(desc.n_prb)
  /\ desc.control_symbol_count \in 1 .. Control!max_control_symbols(desc.n_prb)
  /\ desc.start_symbol = 0 /\ desc.mod_order = 2 /\ desc.n_layers = 1
  /\ ControlPorts(desc)
  /\ desc.prbs = 0 .. desc.n_prb - 1

PbchSupported(desc) ==
  /\ desc.start_symbol = kLtePbchStartSymbolNormalCp /\ desc.control_symbol_count = 0
  /\ desc.mod_order = 2 /\ desc.n_layers = 1
  /\ ControlPorts(desc)
  /\ desc.prbs = PbchPrbs

PcfichSupported(desc) ==
  /\ desc.start_symbol = 0
  /\ desc.control_symbol_count \in 1 .. kLteMaxControlSymbolsNormalCp
  /\ desc.mod_order = 2 /\ desc.n_layers = 1
  /\ ControlPorts(desc)
  /\ desc.prbs = 0 .. kLteNumPrb20MHz - 1

descriptor_supported(desc) ==
  /\ desc.cell_id < kLteNumCellIds
  /\ desc.n_rx_ant \in 1 .. kMmseV1MaxNumRxAntennas
  /\ desc.n_tx_ports \in 1 .. kMmseV1MaxNumCrsTxPorts
  /\ desc.n_layers \in {1, 2}
  /\ desc.n_layers <= desc.n_tx_ports /\ desc.n_layers <= desc.n_rx_ant
  /\ desc.pmi = -1
  /\ desc.mod_order \in {2, 4, 6, 8}
  /\ desc.n_prb \in 1 .. kLteNumPrb20MHz
  /\ Cardinality(desc.prbs) = desc.n_prb
  /\ CASE desc.channel_type = "kPdsch"  -> PdschSupported(desc)
       [] desc.channel_type = "kPdcch"  -> PdcchSupported(desc)
       [] desc.channel_type = "kPbch"   -> PbchSupported(desc)
       [] desc.channel_type = "kPcfich" -> PcfichSupported(desc)

\* The shape of a grid that fits a descriptor; the planes are never null here.
validate_grid(grid, desc) ==
  /\ grid.n_rx_ant \in 1 .. kMmseV1MaxNumRxAntennas /\ grid.n_rx_ant = desc.n_rx_ant
  /\ grid.n_symbols = kLteNumSymbolsNormalCp
  /\ grid.n_subcarriers =
       IF desc.channel_type = "kPdcch" /\ is_supported_lte_downlink_bandwidth(desc.n_prb)
       THEN 12 * desc.n_prb ELSE kLteNumSubcarriers20MHz

\* What run_pdsch_td takes.
is_pdsch_transmit_diversity_descriptor(desc) ==
  /\ desc.channel_type = "kPdsch" /\ desc.n_tx_ports = 2 /\ desc.n_layers = 1
  /\ desc.tx_mode = 2 /\ desc.pmi = -1

-----------------------------------------------------------------------------
\* Layouts.

\* The tones of some PRBs in one symbol, in order, without the CRS of some ports.
SymbolElements(cell_id, ports, symbol, prbs) ==
  LET scs == SelectSeq([k \in 1 .. 12 * kLteNumPrb20MHz |-> k - 1],
                       LAMBDA sc : sc \div 12 \in prbs /\ ~is_crs_re(cell_id, ports, symbol, sc))
  IN  [k \in DOMAIN scs |-> symbol * kLteNumSubcarriers20MHz + scs[k]]

\* Mutant: the elements of every port's CRS are left out whatever ports there are.
build_data_re_layout_all_ports(desc) ==
  FlattenSeq([k \in 1 .. kLteNumSymbolsNormalCp - desc.start_symbol |->
    SymbolElements(desc.cell_id, kMmseV1MaxNumCrsTxPorts, desc.start_symbol + k - 1, desc.prbs)])

\* PDSCH: symbol by symbol, without the CRS of the cell's ports.
build_data_re_layout(desc) ==
  FlattenSeq([k \in 1 .. kLteNumSymbolsNormalCp - desc.start_symbol |->
    SymbolElements(desc.cell_id, desc.n_tx_ports, desc.start_symbol + k - 1, desc.prbs)])

\* PBCH: without the CRS of four ports, whatever ports the cell has.
build_pbch_re_layout(desc) ==
  FlattenSeq([k \in 1 .. kLtePbchNumSymbols |->
    SymbolElements(desc.cell_id, kMmseV1MaxNumCrsTxPorts, kLtePbchStartSymbolNormalCp + k - 1, PbchPrbs)])

\* PCFICH: four REGs of symbol 0, the i-th at a quarter of the band each.
build_pcfich_re_layout(desc) ==
  LET n_regs == 2 * kLteNumPrb20MHz
      reg(i) == ((desc.cell_id % n_regs) + (i * kLteNumPrb20MHz) \div 2) % n_regs
      vo == desc.cell_id % 3
      tones == SelectSeq(<<0, 1, 2, 3, 4, 5>>, LAMBDA t : t # vo /\ t # vo + 3)
  IN  FlattenSeq([i \in 1 .. 4 |-> [k \in 1 .. 4 |-> 6 * reg(i - 1) + tones[k]]])

\* The reservations of the subframe are made before; geometry.context says which.
build_pdcch_re_layout(desc, geometry) ==
  LET cell == [cell_id |-> desc.cell_id, n_tx_ports |-> desc.n_tx_ports, tx_mode |-> desc.tx_mode,
               n_prb |-> desc.n_prb, kind |-> Control!subframe_kind(geometry.context),
               mi |-> geometry.context.mi]
      regs == Control!pdcch_layout(cell, geometry)
      Index(e) == e[1] * 12 * desc.n_prb + 12 * e[2] + e[3]
  IN  FlattenSeq([i \in DOMAIN regs |->
        SetToSortSeq({Index(e) : e \in Control!RegElements(cell, regs[i])}, <)])

build_channel_re_layout(desc, geometry) ==
  CASE desc.channel_type = "kPdsch"  -> build_data_re_layout(desc)
    [] desc.channel_type = "kPdcch"  -> build_pdcch_re_layout(desc, geometry)
    [] desc.channel_type = "kPbch"   -> build_pbch_re_layout(desc)
    [] desc.channel_type = "kPcfich" -> build_pcfich_re_layout(desc)

=============================================================================
