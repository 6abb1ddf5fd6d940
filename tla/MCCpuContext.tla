---------------------------- MODULE MCCpuContext ----------------------------
(* Small instances of CpuContext for TLC. *)
EXTENDS CpuContext, TLC

CONSTANTS quiet, noisy, view, other, cell1, cell2, sf1, sf2

\* One quiet and one noisy content of the samples.
MCNoiseOf == (quiet :> 0) @@ (noisy :> 9)

\* A base input, and one that differs from it in each field of the key.
Base == [grid |-> view, cell_id |-> cell1, sfn_subframe |-> sf1, n_tx_ports |-> 1]
MCInputs ==
  { Base,
    [Base EXCEPT !.grid = other],
    [Base EXCEPT !.cell_id = cell2],
    [Base EXCEPT !.sfn_subframe = sf2],
    [Base EXCEPT !.n_tx_ports = 2],
    [Base EXCEPT !.n_tx_ports = 4] }

\* A low floor with slow smoothing, a high one with fast smoothing.
Low == [sigma2_min |-> 1, alpha |-> 3]
High == [sigma2_min |-> 5, alpha |-> 1]
MCConfigs == {Low, High}

=============================================================================
