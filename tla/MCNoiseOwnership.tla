-------------------------- MODULE MCNoiseOwnership --------------------------
(* Small instances of NoiseOwnership for TLC. *)
EXTENDS NoiseOwnership

\* Every weight, one floor.
OneFloor == [sigma2_min : {3}, alpha : 0 .. AlphaUnit]

MCResiduals == {0, 2, 5, 9, 14, 40}

=============================================================================
