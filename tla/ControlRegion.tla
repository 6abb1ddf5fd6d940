---------------------------- MODULE ControlRegion ----------------------------
(***************************************************************************)
(* Which resource elements of the control symbols carry the PDCCH, in      *)
(* which order, and where the common search looks in them: the PCFICH and  *)
(* PHICH reservations of include/mmse/pdcch_module_api.h and               *)
(* build_pdcch_re_layout of src/mmse_equalizer_cpu.cpp.                    *)
(*                                                                         *)
(* A cell c is a record of a request's fields and of the factor mi of its  *)
(* PHICH groups, a geometry g one of control symbols, PHICH resource and   *)
(* duration.  A group of four resource elements (REG) is <<symbol, prb,    *)
(* k>>, k counting from the lowest tone; an element is <<symbol, prb,      *)
(* tone>>.  A subframe context is [duplex_mode, ul_dl_config, subframe,    *)
(* kind, mi].                                                              *)
(***************************************************************************)
EXTENDS Integers, FiniteSets, SequencesExt

RePerReg == 4
RegsPerCce == 9
Columns == 32

kPermutation ==
  << 1, 17, 9, 25, 5, 21, 13, 29, 3, 19, 11, 27, 7, 23, 15, 31,
     0, 16, 8, 24, 4, 20, 12, 28, 2, 18, 10, 26, 6, 22, 14, 30 >>

\* A PHICH resource Ng is the number of PRBs that share a group.
kOneSixth == 48
kHalf == 16
kOne == 8
kTwo == 4

CeilDiv(a, b) == (a + b - 1) \div b
Lesser(a, b) == IF a < b THEN a ELSE b

\* The members of a sequence that are in a set, in their order.
Among(s, kept) == FlattenSeq([i \in DOMAIN s |-> IF s[i] \in kept THEN <<s[i]>> ELSE <<>>])

max_control_symbols(n_prb) == IF n_prb = 6 THEN 4 ELSE 3

\* The geometries a search enumerates, extended PHICH only where it fits.
geometries(n_prb) ==
  {g \in [control_symbol_count : 1 .. max_control_symbols(n_prb),
          phich_resource : {kOneSixth, kHalf, kOne, kTwo},
          phich_duration : {"normal", "extended"}] :
     g.phich_duration = "extended" => g.control_symbol_count >= 3}

-----------------------------------------------------------------------------
\* Reservations.

\* The four tones of a six-tone group that are left beside the CRS, and those
\* of a symbol without CRS.
TonesBesideCrs(c, k) == {t \in (6 * k) .. (6 * k + 5) : t % 3 # c.cell_id % 3}
FullTones(k) == (4 * k) .. (4 * k + 3)

Elements(reg, tones) == {<<reg[1], reg[2], t>> : t \in tones}

reg_reserved_res(c, reg) ==
  Elements(reg, IF reg[1] = 0 THEN TonesBesideCrs(c, reg[3]) ELSE FullTones(reg[3]))

\* REG number u of a symbol that has width REGs in each PRB.
RegAt(symbol, width, u) == <<symbol, u \div width, u % width>>

pcfich_regs(c) ==
  {RegAt(0, 2, ((c.cell_id % (2 * c.n_prb)) + (i * c.n_prb) \div 2) % (2 * c.n_prb)) : i \in 0 .. 3}

available_regs(c, symbol) ==
  LET width == IF symbol = 0 THEN 2 ELSE 3
      all == [u \in 1 .. (width * c.n_prb) |-> RegAt(symbol, width, u - 1)]
  IN  Among(all, Range(all) \ pcfich_regs(c))

\* How many times the groups of a TDD subframe are there: a row for each
\* uplink-downlink configuration, a column for each subframe.
kTddPhichMiByUlDlConfig ==
  << <<2, 1, 0, 0, 0, 2, 1, 0, 0, 0>>, <<0, 1, 0, 0, 1, 0, 1, 0, 0, 1>>,
     <<0, 0, 0, 1, 0, 0, 0, 0, 1, 0>>, <<1, 0, 0, 0, 0, 0, 0, 0, 1, 1>>,
     <<0, 0, 0, 0, 0, 0, 0, 0, 1, 1>>, <<0, 0, 0, 0, 0, 0, 0, 0, 1, 0>>,
     <<1, 1, 0, 0, 0, 1, 1, 0, 0, 1>> >>

\* The caller's factor must be that of the subframe.
validate_phich_reservation_config(context) ==
  /\ context.subframe \in 0 .. 9
  /\ IF context.duplex_mode = "tdd"
     THEN /\ context.ul_dl_config \in 0 .. 6
          /\ context.mi = kTddPhichMiByUlDlConfig[context.ul_dl_config + 1][context.subframe + 1]
     ELSE context.mi = 1

\* Subframes 1 and 6 of TDD have fewer control symbols.
subframe_kind(context) ==
  IF context.duplex_mode = "tdd" /\ context.subframe \in {1, 6} THEN "tdd_sf1_sf6" ELSE context.kind

phich_group_count(c, g) == CeilDiv(c.n_prb, g.phich_resource) * c.mi

uses_extended_special_case(c, g) ==
  g.phich_duration = "extended" /\ c.kind \in {"mbsfn", "tdd_sf1_sf6"}

\* The symbol of the i-th REG of a group.
PhichSymbol(c, g, group, i) ==
  IF g.phich_duration = "normal" THEN 0
  ELSE IF uses_extended_special_case(c, g) THEN (group \div 2 + i + 1) % 2
  ELSE i

PhichReg(c, g, group, i) ==
  LET symbol == PhichSymbol(c, g, group, i)
      regs == available_regs(c, symbol)
      n == Len(regs)
      reference == IF uses_extended_special_case(c, g) THEN 1 ELSE 0
      start == (c.cell_id * n) \div Len(available_regs(c, reference))
  IN  regs[((start + group + (i * n) \div 3) % n) + 1]

phich_regs(c, g) ==
  {PhichReg(c, g, group, i) : group \in 0 .. (phich_group_count(c, g) - 1), i \in 0 .. 2}

reserved_res(c, g) ==
  UNION {reg_reserved_res(c, reg) : reg \in pcfich_regs(c) \cup phich_regs(c, g)}

-----------------------------------------------------------------------------
\* The PDCCH layout.

\* CRS ports 2 and 3 use symbol 1; every cell has the CRS of symbol 0.
crs_symbol_used(c, symbol) == symbol = 0 \/ (symbol = 1 /\ c.n_tx_ports > 2)

RegElements(c, reg) ==
  Elements(reg, IF crs_symbol_used(c, reg[1]) THEN TonesBesideCrs(c, reg[3]) ELSE FullTones(reg[3]))

\* The later symbols' third REGs, where a PRB has them.
ThirdRegs(c, g) ==
  Among([i \in 1 .. (g.control_symbol_count - 1) |-> <<i, 2>>],
        {<<i, 2>> : i \in {i \in 1 .. 3 : ~crs_symbol_used(c, i)}})

\* Mutant: symbol 0 is visited before the second REGs of the later symbols.
PrbRegsBySymbolZero(c, g) ==
  LET later(k) == [i \in 1 .. (g.control_symbol_count - 1) |-> <<i, k>>]
  IN  << <<0, 0>> >> \o later(0) \o << <<0, 1>> >> \o later(1)
        \o ThirdRegs(c, g)

\* <<symbol, k>> of the REGs of one PRB, in the order the code visits them.
PrbRegs(c, g) ==
  LET later(k) == [i \in 1 .. (g.control_symbol_count - 1) |-> <<i, k>>]
  IN  << <<0, 0>> >> \o later(0) \o later(1) \o << <<0, 1>> >>
        \o ThirdRegs(c, g)

\* The REGs of a PRB, of all PRBs, and those no element of which is reserved.
RegsOfPrb(c, g, prb) ==
  LET one == PrbRegs(c, g) IN [k \in DOMAIN one |-> <<one[k][1], prb, one[k][2]>>]

AllRegs(c, g) == FlattenSeq([i \in 1 .. c.n_prb |-> RegsOfPrb(c, g, i - 1)])

physical_regs(c, g) ==
  LET reserved == reserved_res(c, g)
      free(regs) == Among(regs, {reg \in Range(regs) : RegElements(c, reg) \cap reserved = {}})
  IN  FlattenSeq([i \in 1 .. c.n_prb |-> free(RegsOfPrb(c, g, i - 1))])

\* The entries of the 32-column matrix of n REGs, read by permuted columns,
\* without the dummies in front; entry m is logical REG m.
ReadOrder(n) ==
  LET rows == CeilDiv(n, Columns)
      dummies == Columns * rows - n
      column(k) == [row \in 1 .. rows |-> (row - 1) * Columns + kPermutation[k] - dummies]
  IN  FlattenSeq([k \in 1 .. Columns |-> Among(column(k), Nat)])

\* Mutant: the shift is applied a second time instead of undone.
UnshiftBackwards(c, n, i) == (i + c.cell_id) % n

\* The cyclic shift by the cell, from entry i of the read order to a REG.
UnshiftFromRead(c, n, i) == (i + n - (c.cell_id % n)) % n

\* The REGs in PDCCH order; those that do not fill a CCE are left out.
pdcch_layout(c, g) ==
  LET regs == physical_regs(c, g)
      n == Len(regs)
      order == ReadOrder(n)
      place == [m \in 0 .. (n - 1) |-> (CHOOSE j \in 1 .. n : order[j] = m) - 1]
      logical == [m \in 1 .. n |-> regs[UnshiftFromRead(c, n, place[m - 1]) + 1]]
  IN  SubSeq(logical, 1, RegsPerCce * (n \div RegsPerCce))

-----------------------------------------------------------------------------
\* The common search space of a layout: where a candidate begins, in CCEs,
\* and how many it takes.
common_search_candidates(layout) ==
  LET n_cce == Len(layout) \div RegsPerCce
      starts(level, most) == {level * i : i \in 0 .. (Lesser(most, n_cce \div level) - 1)}
  IN  [first_cce : starts(4, 4), level : {4}] \cup [first_cce : starts(8, 2), level : {8}]

\* The REGs a candidate is read from.
candidate_regs(layout, cand) ==
  SubSeq(layout, RegsPerCce * cand.first_cce + 1, RegsPerCce * (cand.first_cce + cand.level))

-----------------------------------------------------------------------------
(* Reference definitions, and what they say of a layout.                   *)

\* 3GPP TS 36.211, 6.2.4 and 6.8.5: REGs are numbered by their lowest tone
\* (that of the CRS included), then by symbol.
LowestTone(c, reg) == 12 * reg[2] + (IF crs_symbol_used(c, reg[1]) THEN 6 ELSE 4) * reg[3]

TimeFirst(c, regs) ==
  \A i, j \in DOMAIN regs : i < j =>
    \/ LowestTone(c, regs[i]) < LowestTone(c, regs[j])
    \/ LowestTone(c, regs[i]) = LowestTone(c, regs[j]) /\ regs[i][1] < regs[j][1]

\* A transmitter writes logical REG ReadOrder[(i + cell) mod n] to physical i.
Transmitted(c, n) ==
  LET order == ReadOrder(n) IN [i \in 1 .. n |-> order[((i - 1 + c.cell_id) % n) + 1]]

\* The layout finds every logical REG where a transmitter put it.
InvertsTheTransmitter(c, g) ==
  LET regs == physical_regs(c, g)
      layout == pdcch_layout(c, g)
      sent == Transmitted(c, Len(regs))
  IN  \A i \in DOMAIN regs : sent[i] < Len(layout) => layout[sent[i] + 1] = regs[i]

\* PCFICH and PHICH cost exactly their REGs: four, and three for each group,
\* no two on the same elements and none cutting a PDCCH REG in two.
TakesWholeRegs(c, g) ==
  Len(AllRegs(c, g)) - Len(physical_regs(c, g)) = 4 + 3 * phich_group_count(c, g)

\* Candidates read whole CCEs of the layout, no REG twice.
ReadsInside(c, g) ==
  LET layout == pdcch_layout(c, g)
  IN  \A cand \in common_search_candidates(layout) :
        /\ RegsPerCce * (cand.first_cce + cand.level) <= Len(layout)
        /\ LET regs == candidate_regs(layout, cand)
           IN  Cardinality({regs[i] : i \in DOMAIN regs}) = RegsPerCce * cand.level

=============================================================================
