------------------------------ MODULE MCGpuRing ------------------------------
(* Small instances of GpuRing for TLC. *)
EXTENDS GpuRing, TLC

CONSTANTS g1, g2, cell1, pdsch, pdcch

MCResidual == (g1 :> 0) @@ (g2 :> 9)

\* Two channels of one subframe, and another subframe.
Data == [grid |-> g1, cell_id |-> cell1, layout |-> pdsch]
Control == [Data EXCEPT !.layout = pdcch]
Other == [grid |-> g2, cell_id |-> cell1, layout |-> pdcch]

MCRequests == {Data, Control, Other}

\* One request, a full ring, and a batch that needs a second group.
MCBatches == {<<Control>>, <<Control, Other, Control>>}

\* A low floor with slow smoothing, a high one with fast smoothing.
MCConfigs == {[sigma2_min |-> 1, alpha |-> 3], [sigma2_min |-> 5, alpha |-> 1]}

=============================================================================
