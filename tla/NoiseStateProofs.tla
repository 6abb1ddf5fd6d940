--------------------------- MODULE NoiseStateProofs ---------------------------
(***************************************************************************)
(* Lemmas about the IIR step of NoiseState: it yields a power, never one   *)
(* below the floor of the configuration, and one between the state and the *)
(* estimate unless that is below the floor.                                *)
(***************************************************************************)
EXTENDS NoiseState, TLAPS

USE AlphaUnitAssumption

LEMMA AtLeastBounds ==
  ASSUME NEW a \in Int, NEW b \in Nat
  PROVE  AtLeast(a, b) \in Nat /\ AtLeast(a, b) >= b
BY DEF AtLeast

\* The IIR step yields an integer, which the floor then makes a power.
LEMMA SmoothType ==
  ASSUME NEW cfg \in Configs, NEW previous \in Nat, NEW estimate \in Nat
  PROVE  Smooth(previous, estimate, cfg) \in Int
<1>1. cfg.alpha \in Int /\ AlphaUnit - cfg.alpha \in Int
  BY ConfigsAssumption
<1>2. cfg.alpha * previous \in Int /\ (AlphaUnit - cfg.alpha) * estimate \in Int
  BY <1>1
<1> DEFINE sum == cfg.alpha * previous + (AlphaUnit - cfg.alpha) * estimate
<1>3. sum \in Int
  BY <1>2
<1> HIDE DEF sum
<1>4. sum \div AlphaUnit \in Int
  BY <1>3
<1> QED BY <1>4 DEF sum, Smooth

\* update_sigma2_state yields a state at or above the floor, from any state.
LEMMA UpdateFloors ==
  ASSUME NEW cfg \in Configs, NEW state \in NoiseStates, NEW estimate \in Nat
  PROVE  /\ update_sigma2_state(state, estimate, cfg) \in NoiseStates
         /\ update_sigma2_state(state, estimate, cfg).initialized
         /\ update_sigma2_state(state, estimate, cfg).value >= cfg.sigma2_min
<1> DEFINE floored == AtLeast(estimate, cfg.sigma2_min)
<1>1. cfg.sigma2_min \in Nat
  BY ConfigsAssumption
<1>2. floored \in Nat /\ floored >= cfg.sigma2_min
  BY <1>1 DEF AtLeast
<1>3. state.initialized \in BOOLEAN /\ state.value \in Nat
  BY DEF NoiseStates
<1>4. Smooth(state.value, floored, cfg) \in Int
  BY <1>2, <1>3, SmoothType
<1>5. /\ AtLeast(Smooth(state.value, floored, cfg), cfg.sigma2_min) \in Nat
      /\ AtLeast(Smooth(state.value, floored, cfg), cfg.sigma2_min) >= cfg.sigma2_min
  BY <1>1, <1>4, AtLeastBounds
<1> QED
  BY <1>2, <1>3, <1>5 DEF update_sigma2_state, NoiseStates

\* Euclidean division keeps the order with a multiple of the divisor.
LEMMA DivBounds ==
  ASSUME NEW x \in Int, NEW low \in Int, NEW high \in Int, NEW unit \in Nat \ {0},
         unit * low <= x, x <= unit * high
  PROVE  low <= x \div unit /\ x \div unit <= high
<1> DEFINE q == x \div unit
<1>1. q \in Int /\ unit * q <= x /\ x < unit * q + unit
  OBVIOUS
<1> HIDE DEF q
<1>2. low <= q
  <2> SUFFICES ASSUME q + 1 <= low  PROVE FALSE
    BY <1>1
  <2>1. unit * (q + 1) <= unit * low
    BY <1>1
  <2>2. unit * (q + 1) = unit * q + unit
    BY <1>1
  <2> QED  BY <1>1, <2>1, <2>2
<1>3. q <= high
  <2> SUFFICES ASSUME high + 1 <= q  PROVE FALSE
    BY <1>1
  <2>1. unit * (high + 1) <= unit * q
    BY <1>1
  <2>2. unit * (high + 1) = unit * high + unit
    BY <1>1
  <2> QED  BY <1>1, <2>1, <2>2
<1> QED  BY <1>2, <1>3 DEF q

\* A weighted sum lies between the same multiples of what it is taken of.
LEMMA WeightedSum ==
  ASSUME NEW a \in Nat, NEW b \in Nat, NEW v \in Nat, NEW f \in Nat
  PROVE  /\ a * v + b * f \in Int
         /\ v <= f => (a + b) * v <= a * v + b * f /\ a * v + b * f <= (a + b) * f
         /\ f <= v => (a + b) * f <= a * v + b * f /\ a * v + b * f <= (a + b) * v
<1>1. /\ a * v \in Nat /\ b * v \in Nat /\ a * f \in Nat /\ b * f \in Nat
      /\ (a + b) * v = a * v + b * v /\ (a + b) * f = a * f + b * f
  OBVIOUS
<1>2. ASSUME NEW low \in Nat, NEW high \in Nat, NEW w \in Nat, low <= high
      PROVE  w * low <= w * high
  <2>1. PICK d \in Nat : high = low + d
    <3>1. high - low \in Nat /\ high = low + (high - low)
      BY <1>2
    <3> QED  BY <3>1
  <2>2. w * high = w * low + w * d /\ w * d \in Nat /\ w * low \in Nat
    BY <2>1
  <2> QED  BY <2>2
<1>3. CASE v <= f
  <2>1. a * v <= a * f /\ b * v <= b * f
    BY <1>2, <1>3
  <2>2. f <= v => f = v
    BY <1>3
  <2> QED  BY <1>1, <1>3, <2>1, <2>2
<1>4. CASE f <= v
  <2>1. a * f <= a * v /\ b * f <= b * v
    BY <1>2, <1>4
  <2>2. v <= f => f = v
    BY <1>4
  <2> QED  BY <1>1, <1>4, <2>1, <2>2
<1> QED  BY <1>3, <1>4

\* The IIR step lands between the state and the estimate, whatever the weight.
LEMMA SmoothStaysBetween ==
  ASSUME NEW cfg \in Configs, NEW v \in Nat, NEW f \in Nat
  PROVE  /\ Smooth(v, f, cfg) \in Int
         /\ v <= f => v <= Smooth(v, f, cfg) /\ Smooth(v, f, cfg) <= f
         /\ f <= v => f <= Smooth(v, f, cfg) /\ Smooth(v, f, cfg) <= v
<1> DEFINE a == cfg.alpha
           b == AlphaUnit - cfg.alpha
           sum == a * v + b * f
<1>1. a \in Nat /\ b \in Nat /\ a + b = AlphaUnit
  BY ConfigsAssumption, AlphaUnitAssumption
<1>2. Smooth(v, f, cfg) = sum \div AlphaUnit /\ Smooth(v, f, cfg) \in Int
  BY SmoothType DEF Smooth
<1> HIDE DEF a, b
<1>3. /\ sum \in Int
      /\ v <= f => (a + b) * v <= sum /\ sum <= (a + b) * f
      /\ f <= v => (a + b) * f <= sum /\ sum <= (a + b) * v
  BY <1>1, WeightedSum
<1>4. /\ v <= f => AlphaUnit * v <= sum /\ sum <= AlphaUnit * f
      /\ f <= v => AlphaUnit * f <= sum /\ sum <= AlphaUnit * v
  BY <1>1, <1>3
<1> HIDE DEF sum
<1>5. v <= f => v <= sum \div AlphaUnit /\ sum \div AlphaUnit <= f
  BY <1>3, <1>4, AlphaUnitAssumption, DivBounds
<1>6. f <= v => f <= sum \div AlphaUnit /\ sum \div AlphaUnit <= v
  BY <1>3, <1>4, AlphaUnitAssumption, DivBounds
<1> QED  BY <1>2, <1>5, <1>6

\* update_sigma2_state takes the first estimate as it is, and later lands
\* between the state and the estimate, or at the floor.
LEMMA UpdateStaysBetween ==
  ASSUME NEW cfg \in Configs, NEW state \in NoiseStates, NEW estimate \in Nat
  PROVE  LET floored == AtLeast(estimate, cfg.sigma2_min)
             value == update_sigma2_state(state, estimate, cfg).value
         IN  \/ value = floored
             \/ /\ state.initialized
                /\ floored <= value \/ state.value <= value
                /\ value <= floored \/ value <= state.value
<1> DEFINE floored == AtLeast(estimate, cfg.sigma2_min)
           smoothed == Smooth(state.value, floored, cfg)
<1>1. cfg.sigma2_min \in Nat
  BY ConfigsAssumption
<1>2. floored \in Nat /\ floored >= cfg.sigma2_min
  BY <1>1 DEF AtLeast
<1>3. state.initialized \in BOOLEAN /\ state.value \in Nat
  BY DEF NoiseStates
<1> HIDE DEF floored
<1>4. /\ smoothed \in Int
      /\ floored <= smoothed \/ state.value <= smoothed
      /\ smoothed <= floored \/ smoothed <= state.value
  BY <1>2, <1>3, SmoothStaysBetween
<1>5. CASE ~state.initialized
  BY <1>5 DEF update_sigma2_state, floored
<1>6. CASE state.initialized
  <2>1. update_sigma2_state(state, estimate, cfg).value = AtLeast(smoothed, cfg.sigma2_min)
    BY <1>6 DEF update_sigma2_state, floored
  <2> HIDE DEF smoothed
  <2>2. CASE smoothed < cfg.sigma2_min
    BY <1>1, <1>2, <1>3, <1>4, <1>6, <2>1, <2>2 DEF AtLeast, floored
  <2>3. CASE ~(smoothed < cfg.sigma2_min)
    BY <1>1, <1>2, <1>3, <1>4, <1>6, <2>1, <2>3 DEF AtLeast, floored
  <2> QED  BY <2>2, <2>3
<1> QED  BY <1>3, <1>5, <1>6

=============================================================================
