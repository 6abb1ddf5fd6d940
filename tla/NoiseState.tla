------------------------------ MODULE NoiseState ------------------------------
(***************************************************************************)
(* The smoothed noise power of a cell: the IIR step of the host            *)
(* (src/mmse_equalizer_cpu.cpp, update_sigma2_state and                    *)
(* peek_sigma2_state) and the step of the device that is to be equivalent  *)
(* to it (src/mmse_cuda_runtime.cu, finalize_sigma2_kernel).  A power is a *)
(* natural number and sigma2_iir_alpha is cfg.alpha / AlphaUnit.           *)
(***************************************************************************)
EXTENDS Integers

CONSTANTS
  Configs,         (* the configurations init accepts                          *)
  AlphaUnit

ASSUME AlphaUnitAssumption == AlphaUnit \in Nat \ {0}
ASSUME ConfigsAssumption ==
  Configs \subseteq [sigma2_min : Nat \ {0}, alpha : 0 .. AlphaUnit]

AtLeast(a, b) == IF a < b THEN b ELSE a

NoState == [initialized |-> FALSE, value |-> 0]
NoiseStates == [initialized : BOOLEAN, value : Nat]

\* Mutant: the estimate is not weighted.
SmoothUnweighted(previous, estimate, cfg) ==
  (cfg.alpha * previous + AlphaUnit * estimate) \div AlphaUnit

Smooth(previous, estimate, cfg) ==
  (cfg.alpha * previous + (AlphaUnit - cfg.alpha) * estimate) \div AlphaUnit

\* The first estimate of a cell is taken as it is, later ones are smoothed;
\* the floor of the configuration applies to the estimate and to the state.
update_sigma2_state(state, estimate, cfg) ==
  LET floored == AtLeast(estimate, cfg.sigma2_min)
  IN  [initialized |-> TRUE,
       value |-> IF state.initialized
                 THEN AtLeast(Smooth(state.value, floored, cfg), cfg.sigma2_min)
                 ELSE floored]

peek_sigma2_state(state, sigma2_min) ==
  IF state.initialized THEN AtLeast(state.value, sigma2_min) ELSE sigma2_min

\* Mutant: the kernel smooths the residual before the floor is applied to it.
finalize_unfloored(previous, residual, cfg, device_owned) ==
  IF ~device_owned \/ previous < cfg.sigma2_min
  THEN residual
  ELSE Smooth(previous, residual, cfg)

\* The device has no flag: a previous value below the floor is no state at all.
finalize_sigma2(previous, residual, cfg, device_owned) ==
  LET floored == AtLeast(residual, cfg.sigma2_min)
  IN  IF ~device_owned \/ previous < cfg.sigma2_min
      THEN floored
      ELSE AtLeast(Smooth(previous, floored, cfg), cfg.sigma2_min)

\* What a device-owned call copies to the device before it estimates.
sigma2_to_device(state) == IF state.initialized THEN state.value ELSE 0

=============================================================================
