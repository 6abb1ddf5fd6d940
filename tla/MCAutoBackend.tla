---------------------------- MODULE MCAutoBackend ----------------------------
(* Small instances of AutoBackend for TLC. *)
EXTENDS AutoBackend, TLC

CONSTANTS quiet, noisy, view, other, cell, sf

MCNoiseOf == (quiet :> 0) @@ (noisy :> 9)

MCGrids == {view, other} \cup Slots

\* One-port calls for every view, the slots' own included, and two-port calls
\* for one caller's, which can be staged or go to the CPU context as they are.
MCInputs ==
  LET InputsOf(views, ports) ==
        {[grid |-> g, cell_id |-> cell, sfn_subframe |-> sf, n_tx_ports |-> ports] : g \in views}
  IN  InputsOf(MCGrids, 1) \cup InputsOf({view} \cup Slots, 2)

Low == [sigma2_min |-> 1, alpha |-> 3]
OneConfig == {Low}

=============================================================================
