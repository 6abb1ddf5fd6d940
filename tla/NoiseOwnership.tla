---------------------------- MODULE NoiseOwnership ----------------------------
(***************************************************************************)
(* The noise state of one cell under the two owners a GPU context can be   *)
(* configured with (MmseGpuSigma2Ownership): the host smooths it itself,   *)
(* or the device does and the host keeps the value it reads back.  Both    *)
(* are fed the same residuals, with init calls in between that change the  *)
(* configuration and keep the state (src/mmse_equalizer_gpu.cpp,           *)
(* execute_cuda_transport_stub and reset_runtime_state).                   *)
(***************************************************************************)
EXTENDS NoiseState

CONSTANTS
  Residuals,     (* what a subframe's CRS residual can be     *)
  MaxInits       (* bound: how often the context is configured again *)

ASSUME ResidualsAssumption == Residuals \subseteq Nat

VARIABLES config, host_owned, device_owned, inits

vars == <<config, host_owned, device_owned, inits>>

Init ==
  /\ config \in Configs
  /\ host_owned = NoState
  /\ device_owned = NoState
  /\ inits = 0

\* The host reads the floored residual back, smooths it and returns it.
HostOwnedUpdate(residual) ==
  host_owned' = update_sigma2_state(host_owned, finalize_sigma2(0, residual, config, FALSE), config)

\* The state goes to the device with the samples and comes back in the scratch.
DeviceOwnedUpdate(residual) ==
  device_owned' =
    [initialized |-> TRUE,
     value |-> finalize_sigma2(sigma2_to_device(device_owned), residual, config, TRUE)]

Estimate(residual) ==
  /\ HostOwnedUpdate(residual)
  /\ DeviceOwnedUpdate(residual)
  /\ UNCHANGED <<config, inits>>

\* reset_runtime_state leaves sigma2_by_cell as it is.
Reconfigure(cfg) ==
  /\ inits < MaxInits
  /\ inits' = inits + 1
  /\ config' = cfg
  /\ UNCHANGED <<host_owned, device_owned>>

Next ==
  \/ \E residual \in Residuals : Estimate(residual)
  \/ \E cfg \in Configs : Reconfigure(cfg)

Spec == Init /\ [][Next]_vars

-----------------------------------------------------------------------------
TypeOK ==
  /\ config \in Configs
  /\ host_owned \in NoiseStates
  /\ device_owned \in NoiseStates
  /\ inits \in Nat

\* The owner of the noise state is not visible in its value: finalize_sigma2
\* is "the device-side equivalent of update_sigma2_state"
\* (mmse_cuda_runtime.cu:303).
OwnersAgree == host_owned = device_owned

=============================================================================
