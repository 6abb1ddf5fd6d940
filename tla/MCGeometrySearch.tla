--------------------------- MODULE MCGeometrySearch ---------------------------
(* Small instances of GeometrySearch for TLC. *)
EXTENDS GeometrySearch

Cell(id, ports, mode, n_prb, kind) ==
  [cell_id |-> id, n_tx_ports |-> ports, tx_mode |-> mode, n_prb |-> n_prb, kind |-> kind,
   mi |-> 1]

Geometry(symbols, resource, duration) ==
  [control_symbol_count |-> symbols, phich_resource |-> resource, phich_duration |-> duration]

Signal(geometry, first_cce, level) ==
  [geometry |-> geometry, first_cce |-> first_cce, level |-> level]

\* A cell, those that differ from it in each field the cache compares, and
\* one that no equaliser supports.
MCCells ==
  { Cell(1, 1, 1, 25, "regular"), Cell(148, 1, 1, 25, "regular"), Cell(1, 2, 2, 25, "regular"),
    Cell(1, 4, 2, 25, "regular"), Cell(1, 1, 1, 6, "regular"), Cell(1, 1, 1, 25, "mbsfn"),
    Cell(1, 2, 1, 25, "regular") }

\* One and three symbols, both durations, both levels.
MCSignals ==
  { Signal(Geometry(1, kOneSixth, "normal"), 0, 4),
    Signal(Geometry(3, kTwo, "extended"), 0, 4),
    Signal(Geometry(3, kHalf, "normal"), 8, 8) }

MCFalseHits == { Geometry(2, kOne, "normal") }

\* A DCI whose geometry is set apart is read under no other: what StableCellsAreReacquired asks of the layouts.
ASSUME SetApartIsHeardAlone ==
  \A t \in Readers : SetApart(t[1], t[2].geometry) => HeardAlone(t[1], t[2])

=============================================================================
