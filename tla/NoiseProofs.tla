------------------------------ MODULE NoiseProofs ------------------------------
(***************************************************************************)
(* Proofs about NoiseOwnership: as long as every configuration has the     *)
(* same floor, the host and the device smooth a cell's noise alike.        *)
(***************************************************************************)
EXTENDS NoiseOwnership, NoiseStateProofs

\* The floor is one when no call of init changes it.
OneFloorOnly == \A c, d \in Configs : c.sigma2_min = d.sigma2_min

\* A state that has been updated is at or above the floor, so that the device
\* can tell it from no state.
Floored ==
  /\ TypeOK
  /\ host_owned.initialized => host_owned.value >= config.sigma2_min
  /\ ~host_owned.initialized => host_owned = NoState

NoiseInv == Floored /\ OwnersAgree

-----------------------------------------------------------------------------
\* One estimate: both owners floor the residual once and then take the same
\* branch, because a state is below the floor exactly when there is none.
LEMMA EstimateKeepsAgreement ==
  ASSUME NoiseInv, NEW residual \in Residuals, Estimate(residual)
  PROVE  NoiseInv'
<1> DEFINE floored == AtLeast(residual, config.sigma2_min)
<1>1. /\ config \in Configs /\ host_owned \in NoiseStates /\ inits \in Nat
      /\ residual \in Nat /\ config.sigma2_min \in Nat \ {0}
  BY ConfigsAssumption, ResidualsAssumption DEF NoiseInv, Floored, TypeOK
<1>2. floored \in Nat /\ floored >= config.sigma2_min
  BY <1>1 DEF AtLeast
<1>3. finalize_sigma2(0, residual, config, FALSE) = floored
  BY DEF finalize_sigma2
<1>4. AtLeast(floored, config.sigma2_min) = floored
  BY <1>1, <1>2 DEF AtLeast
<1>5. host_owned' = update_sigma2_state(host_owned, floored, config)
  BY <1>3 DEF Estimate, HostOwnedUpdate
<1>6. /\ host_owned' \in NoiseStates /\ host_owned'.initialized
      /\ host_owned'.value >= config.sigma2_min
  BY <1>1, <1>2, <1>5, UpdateFloors
<1>7. device_owned' = host_owned'
  <2>1. CASE host_owned.initialized
    <3>1. sigma2_to_device(device_owned) = host_owned.value
      BY <2>1 DEF sigma2_to_device, NoiseInv, OwnersAgree
    <3>2. ~(host_owned.value < config.sigma2_min)
      BY <1>1, <2>1 DEF NoiseInv, Floored, NoiseStates
    <3>3. finalize_sigma2(host_owned.value, residual, config, TRUE)
            = AtLeast(Smooth(host_owned.value, floored, config), config.sigma2_min)
      BY <3>2 DEF finalize_sigma2
    <3> QED
      BY <1>4, <1>5, <2>1, <3>1, <3>3 DEF Estimate, DeviceOwnedUpdate, update_sigma2_state
  <2>2. CASE ~host_owned.initialized
    <3>1. sigma2_to_device(device_owned) = 0
      BY <2>2 DEF sigma2_to_device, NoiseInv, OwnersAgree
    <3>2. finalize_sigma2(0, residual, config, TRUE) = floored
      BY <1>1 DEF finalize_sigma2
    <3> QED
      BY <1>4, <1>5, <2>2, <3>1, <3>2 DEF Estimate, DeviceOwnedUpdate, update_sigma2_state
  <2> QED BY <2>1, <2>2
<1>8. UNCHANGED <<config, inits>>
  BY DEF Estimate
<1> QED
  BY <1>1, <1>6, <1>7, <1>8 DEF NoiseInv, Floored, TypeOK, OwnersAgree

\* The state of a cell is the same whoever owns it, for every residual,
\* weight and number of estimates, provided init does not change the floor
\* (mmse_cuda_runtime.cu:303).
THEOREM OwnersAgreeWithOneFloor ==
  ASSUME OneFloorOnly
  PROVE  Spec => []OwnersAgree
<1>1. Init => NoiseInv
  BY DEF Init, NoiseInv, Floored, TypeOK, OwnersAgree, NoState, NoiseStates
<1>2. NoiseInv /\ [Next]_vars => NoiseInv'
  <2> SUFFICES ASSUME NoiseInv, [Next]_vars
               PROVE  NoiseInv'
    OBVIOUS
  <2>1. CASE \E residual \in Residuals : Estimate(residual)
    BY <2>1, EstimateKeepsAgreement
  <2>2. ASSUME NEW cfg \in Configs, Reconfigure(cfg)
        PROVE  NoiseInv'
    <3>1. config' = cfg /\ cfg.sigma2_min = config.sigma2_min
      BY <2>2, OneFloorOnly DEF OneFloorOnly, Reconfigure, NoiseInv, Floored, TypeOK
    <3>2. inits' \in Nat /\ UNCHANGED <<host_owned, device_owned>>
      BY <2>2 DEF Reconfigure, NoiseInv, Floored, TypeOK
    <3> QED
      BY <3>1, <3>2 DEF NoiseInv, Floored, TypeOK, OwnersAgree
  <2>3. CASE UNCHANGED vars
    BY <2>3 DEF vars, NoiseInv, Floored, TypeOK, OwnersAgree
  <2> QED BY <2>1, <2>2, <2>3 DEF Next
<1>3. NoiseInv => OwnersAgree
  BY DEF NoiseInv
<1> QED BY <1>1, <1>2, <1>3, PTL DEF Spec

=============================================================================
