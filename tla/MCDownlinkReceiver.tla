--------------------------- MODULE MCDownlinkReceiver ---------------------------
(* A small instance of DownlinkReceiver for TLC. *)
EXTENDS DownlinkReceiver

MCOtherRnti == 61

Fdd(n_prb) == [n_prb |-> n_prb, tdd |-> FALSE, cif_enabled |-> FALSE]

Field(format, distributed, riv, mcs, tpc) ==
  [cif |-> 0, format |-> format, distributed |-> distributed, riv |-> riv, mcs |-> mcs,
   harq |-> 5, ndi |-> 1, rv |-> 2, tpc |-> tpc, dai |-> 0]

-----------------------------------------------------------------------------
\* Searches: a region of one symbol over the full band (20 CCEs) and one of
\* three symbols over six PRBs.
FddContext ==
  [duplex_mode |-> "fdd", ul_dl_config |-> 0, subframe |-> 0, kind |-> "regular", mi |-> 1]

Geometry(symbols) ==
  [control_symbol_count |-> symbols, phich_resource |-> 48, phich_duration |-> "normal",
   context |-> FddContext]

PdcchDescriptor(cell_id, ports, n_prb, symbols) ==
  [sfn_subframe |-> 0, cell_id |-> cell_id, n_tx_ports |-> ports, n_rx_ant |-> 1, n_layers |-> 1,
   tx_mode |-> IF ports = 1 THEN 1 ELSE 2, channel_type |-> "kPdcch", start_symbol |-> 0,
   control_symbol_count |-> symbols, mod_order |-> 2, n_prb |-> n_prb, prbs |-> 0 .. n_prb - 1,
   pmi |-> -1]

Wide == PdcchDescriptor(150, 2, 100, 1)
Narrow == PdcchDescriptor(1, 1, 6, 3)

\* The elements of the region are filled in below, before those given here.
Request(kind, n_prb, sfn_subframe) ==
  LET desc == IF n_prb = 100 THEN Wide ELSE Narrow
  IN  [kind |-> kind, cell_id |-> desc.cell_id, sfn_subframe |-> sfn_subframe,
       n_prb |-> n_prb, control_symbol_count |-> desc.control_symbol_count,
       re_grid_indices |-> <<>>, config |-> Fdd(n_prb),
       expected_rnti |-> 100, rntis |-> <<100>>, levels |-> {1, 4}, first_cce |-> 0, level |-> 4,
       adapter |-> FALSE]

Sent(rnti, first_cce, level, start, length, mcs, tpc, n_prb) ==
  [rnti |-> rnti, first_cce |-> first_cce, level |-> level,
   run |-> [start |-> start, length |-> length],
   field |-> Field(1, 0, EncodeRiv(start, length, n_prb), mcs, tpc)]

Other(rnti, first_cce, level, field) ==
  [rnti |-> rnti, first_cce |-> first_cce, level |-> level, run |-> NoAllocation, field |-> field]

UplinkGrant(rnti, first_cce, level) == Other(rnti, first_cce, level, Field(0, 0, 3, 4, 1))
Order(first_cce, level) ==
  Other(100, first_cce, level, [Field(1, 0, 8191, 3, 0) EXCEPT !.rv = 0])

\* One assignment wherever it can begin, at every level: C-RNTI and SI-RNTI.
OneAssignment(level, places) == {{Sent(100, cce, level, 30, 60, 7, 1, 100)} : cce \in places}
Mixed ==
  { {}, {Sent(100, 4, 4, 97, 3, 28, 1, 100), UplinkGrant(100, 8, 4)},
    {UplinkGrant(100, 0, 8), Sent(100, 12, 4, 0, 100, 16, 2, 100)},
    {Order(0, 4), Sent(100, 8, 8, 5, 1, 29, 0, 100)},
    {[Sent(100, 0, 4, 1, 2, 10, 0, 100) EXCEPT !.field.distributed = 1], Sent(7, 8, 4, 1, 9, 9, 3, 100)} }
SystemInformation ==
  { {Sent(kSiRnti, cce, level, 0, 8, mcs, tpc, 100), UplinkGrant(100, 0, 4)} :
      cce \in {8, 12}, level \in {4}, mcs \in {5, 26, 27}, tpc \in {0, 1} }
    \cup { {Sent(kSiRnti, 0, 8, 90, 5, 17, 1, 100), UplinkGrant(kSiRnti, 8, 4)} }

Ue == Request("ue", 100, 3)
SearchesWithoutElements ==
  [request : {Ue}, air : OneAssignment(1, 0 .. 19) \cup OneAssignment(4, {0, 4, 8, 12, 16}) \cup Mixed]
    \cup [request : {[Ue EXCEPT !.sfn_subframe = 10, !.rntis = <<7, 100>>, !.levels = {2, 8}],
                     [Ue EXCEPT !.adapter = TRUE],
                     [Ue EXCEPT !.rntis = <<100, 100>>], [Ue EXCEPT !.rntis = <<kSiRnti>>]},
          air : OneAssignment(2, {0, 6, 18}) \cup Mixed]
    \cup [request : {Request("common", 100, 0)}, air : OneAssignment(4, {0, 12, 16}) \cup Mixed]
    \cup [request : {Request("si", 100, 9), [Request("si", 100, 9) EXCEPT !.adapter = TRUE]},
          air : SystemInformation \cup {{}}]
    \cup [request : {[Request("fixed", 100, 0) EXCEPT !.first_cce = 12],
                     [Request("fixed", 100, 0) EXCEPT !.first_cce = 17],
                     [Request("fixed", 100, 0) EXCEPT !.re_grid_indices = <<13>>]},
          air : OneAssignment(4, {12, 16})]
    \cup [request : {Request("ue", 6, 5), Request("si", 6, 5)},
          air : {{Sent(100, 3, 1, 2, 4, 3, 1, 6)}, {Sent(kSiRnti, 0, 4, 0, 6, 3, 1, 6)}}]

MCSearches ==
  UNION {LET elements_ == build_pdcch_re_layout(desc, Geometry(desc.control_symbol_count))
         IN  {[s EXCEPT !.request.re_grid_indices = elements_ \o @] :
                s \in {t \in SearchesWithoutElements : t.request.n_prb = desc.n_prb}} :
         desc \in {Wide, Narrow}}

MCHandoff ==
  [start_symbol : {1, 3}, n_layers : {1}, codeword : {0}, codeword_count : {1}, pmi : {-1},
   n_tx_ports : {1}, transmission_mode : {1}, n_rx_ant : {1}]
    \cup [start_symbol : {2}, n_layers : {1}, codeword : {0}, codeword_count : {1}, pmi : {-1},
          n_tx_ports : {2}, transmission_mode : {2}, n_rx_ant : {2}]

-----------------------------------------------------------------------------
\* Soft demodulation.
Points(n, width) == [i \in 1 .. n |-> ((5 * i) % (2 * width + 1)) - width]

View(mod_order, n_layers, n_re, capacity) ==
  [x_hat_re |-> Points(n_layers * capacity, 9), x_hat_im |-> Reverse(Points(n_layers * capacity, 9)),
   sinr |-> [i \in 1 .. n_layers * capacity |-> (i % 4) - 1],
   n_layers |-> n_layers, n_re |-> n_re, capacity |-> capacity, mod_order |-> mod_order]

PdschCall(cell_id, rnti, sfn_subframe, codeword, out, llr_capacity) ==
  [cell_id |-> cell_id, rnti |-> rnti, sfn_subframe |-> sfn_subframe, codeword |-> codeword,
   out |-> out, llr_capacity |-> llr_capacity]

MCPdsch ==
  { PdschCall(503, 65535, 1029, 0, View(mod_order, 1, 10, 10), 80) : mod_order \in {2, 4, 6, 8} }
    \cup { PdschCall(503, 65535, 1029, 0, View(4, 2, 5, 7), 80),
           PdschCall(503, 65535, 1029, 1, View(6, 1, 10, 10), 80),
           PdschCall(502, 1, 7, 0, View(6, 1, 10, 10), 80),
           PdschCall(502, 1, 7, 0, View(6, 1, 3, 10), 80),
           PdschCall(502, 1, 7, 0, View(6, 1, 3, 10), 17),
           PdschCall(502, 1, 7, 0, View(3, 1, 3, 10), 80),
           PdschCall(502, 1, 7, 0, View(2, 1, 10, 9), 80) }

MCControl ==
  [channel : {"kPbch", "kPcfich", "kPdcch"}, cell_id : {0, 503}, sfn_subframe : {0, 10239},
   out : {View(2, 1, 33, 33)}]
    \cup [channel : {"kPdcch"}, cell_id : {7}, sfn_subframe : {4}, out : {View(2, 2, 4, 4)}]

-----------------------------------------------------------------------------
\* Decoding: clean words, noisy ones, erasures and nothing at all.
Soft(bits, Level(_)) == [k \in 1 .. 3 * Len(bits) |-> (2 * Encode(bits)[k] - 1) * Level(k)]

MCWords ==
  { [k \in 1 .. 24 |-> 0], [k \in 1 .. 3 |-> k - 2], [k \in 1 .. 24 |-> 1 - 2 * (k % 2)],
    [k \in 1 .. 21 |-> ((7 * k) % 11) - 5], [k \in 1 .. 24 |-> ((5 * k) % 7) - 3],
    Soft(<<1, 0, 1, 1, 0, 0, 1>>, LAMBDA k : IF k % 5 = 0 THEN -1 ELSE 2),
    Soft(<<0, 1, 1, 0, 1, 0, 0, 1>>, LAMBDA k : IF k % 3 = 0 THEN 0 ELSE 1) }

MCRates ==
  [payload_bits : {21, 28}, level : {1, 4},
   llrs : {[k \in 1 .. 72 |-> ((13 * k) % 31) - 15], [k \in 1 .. 288 |-> ((13 * k) % 31) - 15]}]

MCRuns ==
  UNION {{r \in [n_prb : {n}, start : 0 .. n - 1, length : 1 .. n] : r.start + r.length <= n} :
         n \in {6, 15}}
    \cup {r \in [n_prb : {50, 100}, start : {0, 1, 48, 49, 50, 99}, length : {1, 2, 50, 51, 52, 99, 100}] :
            r.start + r.length <= r.n_prb}

MCDcis ==
  LET dci(field, config, rnti) == [field |-> field, config |-> config, rnti |-> rnti]
      Tdd == [n_prb |-> 100, tdd |-> TRUE, cif_enabled |-> FALSE]
      Cif == [n_prb |-> 100, tdd |-> FALSE, cif_enabled |-> TRUE]
      plain(n) == Field(1, 0, EncodeRiv(1, n - 2, n), 17, 2)
  IN  {dci(plain(n), Fdd(n), 65534) : n \in {6, 15, 25, 50, 75, 100}}
        \cup {dci([plain(100) EXCEPT !.harq = 13, !.dai = 2], Tdd, 1),
              dci([plain(100) EXCEPT !.cif = 6, !.ndi = 0], Cif, 1),
              dci([plain(100) EXCEPT !.distributed = 1], Fdd(100), 4096),
              dci([Field(1, 0, 8191, 21, 0) EXCEPT !.rv = 0], Fdd(100), 300),
              dci(Field(1, 0, EncodeRiv(0, 8, 25), 5, 1), Fdd(25), kSiRnti),
              dci(Field(1, 1, EncodeRiv(0, 8, 50), 12, 0), Fdd(50), kSiRnti)}

-----------------------------------------------------------------------------
\* Layouts, channels and symbols.
MCLayouts ==
  LET grid(desc) == [n_rx_ant |-> 1, n_symbols |-> 14,
                     n_subcarriers |-> IF desc.channel_type = "kPdcch" THEN 12 * desc.n_prb ELSE 1200]
      in(desc) == [desc |-> desc, geometry |-> Geometry(desc.control_symbol_count), grid |-> grid(desc)]
      control(cell_id, ports) == PdcchDescriptor(cell_id, ports, 100, 1)
      pbch(cell_id, ports) == [control(cell_id, ports) EXCEPT !.channel_type = "kPbch",
        !.start_symbol = 7, !.control_symbol_count = 0, !.n_prb = 6, !.prbs = 47 .. 52]
      pdsch(cell_id, ports, start) == [control(cell_id, ports) EXCEPT !.channel_type = "kPdsch",
        !.start_symbol = start, !.mod_order = 6, !.n_prb = 2, !.prbs = {0, 99}]
      pcfich(cell_id, ports) == [control(cell_id, ports) EXCEPT !.channel_type = "kPcfich"]
      narrow == PdcchDescriptor(1, 1, 6, 3)
      tdd(config, subframe, duration, mi) ==
        [in([PdcchDescriptor(148, 2, 25, 3) EXCEPT !.sfn_subframe = subframe]) EXCEPT
           !.geometry.phich_resource = 4, !.geometry.phich_duration = duration,
           !.geometry.context = [duplex_mode |-> "tdd", ul_dl_config |-> config,
                                 subframe |-> subframe, kind |-> "regular", mi |-> mi]]
  IN  {in(desc) : desc \in
         {pbch(c, p) : c \in {0, 5, 503}, p \in {1, 4}}
           \cup {pcfich(c, p) : c \in {0, 99, 350, 503}, p \in {1, 2}}
           \cup {pdsch(c, p, start) : c \in {4, 503}, p \in {1, 2}, start \in {1, 3}}
           \cup {control(c, p) : c \in {7, 503}, p \in {1, 2, 4}} \cup {narrow}}
        \cup {tdd(config, subframe, duration, mi) : config \in 0 .. 6, subframe \in 0 .. 9,
               duration \in {"normal", "extended"}, mi \in 0 .. 2}
        \cup {[in(narrow) EXCEPT !.grid.n_subcarriers = 1200],
              in([pdsch(4, 2, 1) EXCEPT !.prbs = {7}]), in([pbch(5, 2) EXCEPT !.prbs = 0 .. 5])}

Channel(a, b) == [base |-> <<a, b>>, per_symbol |-> <<b, -1>>, per_tone |-> <<1, a>>]

MCEstimates ==
  [cell_id : {0, 503}, subframe : {9},
   channels : {<<Channel(3, -2)>>, <<Channel(3, -2), Channel(-4, 1), Channel(2, 2), Channel(-1, -3)>>},
   pilots : {12}, elements : {(0 .. 13) \X {0, 1, 5, 6, 30, 66, 71}}]

\* Channels of some ports and antennas over the elements 1 .. n.
Faded(n_tx, n_rx, n) ==
  [tx \in 1 .. n_tx |-> [rx \in 1 .. n_rx |-> [e \in 1 .. n |->
     <<((tx + 2 * rx + e) % 3) + 1, ((3 * tx + rx + 2 * e) % 4) - 2>>]]]

Unit == {<<1, 0>>, <<0, -1>>}
Gains == {<<1, 0>>, <<0, 2>>, <<-1, 1>>}

\* Two ports on one or two antennas; the channel of the second element differs.
MCDiversity ==
  LET path(a, b) == [tx \in 1 .. 2 |-> << [e \in 1 .. 2 |-> cadd(IF tx = 1 THEN a ELSE b, <<e - 1, 0>>)] >>]
  IN  {in \in [h : {path(a, b) : a, b \in Gains} \cup {Faded(2, 2, 2)},
               symbols : Unit \X Unit, sigma2 : {1, 3}] : TRUE}

MCLayers ==
  {in \in [h0 : Gains \X Gains, h1 : Gains \X Gains, symbols : {<< <<1, 0>>, <<0, -1>> >>}, sigma2 : {1, 4}] :
     Norm2(in.h0) * Norm2(in.h1) # cnorm2(Inner(in.h0, in.h1))}

\* One candidate through the whole chain: ports, punctured and repeated words,
\* the second CCE, and a word over the full band.
MCCandidates ==
  LET candidate(ports, n_rx, level, first_cce, n_prb, cell_id) ==
        LET n == 36 * (first_cce + level)
        IN  [h |-> Faded(ports, n_rx, n), layout |-> [i \in 1 .. n |-> i], first_cce |-> first_cce,
             level |-> level, cell_id |-> cell_id, sfn_subframe |-> 13, rnti |-> 4000,
             config |-> Fdd(n_prb), field |-> Field(1, 0, EncodeRiv(1, n_prb - 1, n_prb), 9, 1)]
  IN  {candidate(1, 1, 1, 1, 6, 3), candidate(2, 2, 1, 0, 6, 503), candidate(4, 1, 2, 0, 6, 88),
       candidate(2, 1, 4, 0, 100, 7)}

MCInputs ==
  [handoff |-> MCHandoff, pdsch |-> MCPdsch, control |-> MCControl, words |-> MCWords,
   rates |-> {in \in MCRates : Len(in.llrs) = 72 * in.level}, runs |-> MCRuns, dcis |-> MCDcis,
   layouts |-> MCLayouts, estimates |-> MCEstimates, noise |-> {3, 5}, diversity |-> MCDiversity,
   layers |-> MCLayers, candidates |-> MCCandidates]

=============================================================================
