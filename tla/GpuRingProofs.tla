---------------------------- MODULE GpuRingProofs ----------------------------
(***************************************************************************)
(* Proofs about GpuRing, for every set of requests and batches, every      *)
(* number of slots, any set of faults and any number of calls: RingInv is  *)
(* inductive, and every answer is that of its own request.                 *)
(***************************************************************************)
EXTENDS GpuRing, NoiseStateProofs

-----------------------------------------------------------------------------
(* Streams.                                                                *)

LEMMA EndsWithTail ==
  ASSUME NEW q \in Seq(OpKinds), q # <<>>, NEW ops \in Seq(OpKinds), EndsWith(q, ops)
  PROVE  /\ Tail(q) \in Seq(OpKinds)
         /\ Len(Tail(q)) = Len(q) - 1
         /\ EndsWith(Tail(q), ops)
BY DEF EndsWith

\* What is queued last is what the stream ends with.
LEMMA EndsWithQueued ==
  ASSUME NEW q \in Seq(OpKinds), NEW ops \in Seq(OpKinds)
  PROVE  /\ q \o ops \in Seq(OpKinds)
         /\ Len(q \o ops) \in Nat /\ Len(q \o ops) >= Len(ops)
         /\ EndsWith(q \o ops, ops)
BY DEF EndsWith

\* Once the operations before them are through, the next one is one of ops.
LEMMA NextOp ==
  ASSUME NEW q \in Seq(OpKinds), NEW ops \in Seq(OpKinds), EndsWith(q, ops),
         Len(q) > 0, Len(q) <= Len(ops)
  PROVE  Head(q) = ops[Len(ops) - Len(q) + 1]
BY DEF EndsWith

-----------------------------------------------------------------------------
(* What one operation does to the buffers of a slot.                       *)

DeviceEffect(op, d, h, e) ==
  /\ DOMAIN e = DOMAIN BlankDevice
  /\ e.grid = IF op = "h2d_grid" THEN h.transport ELSE d.grid
  /\ e.meta = IF op \in {"h2d_grid", "h2d_meta"} THEN h.meta ELSE d.meta
  /\ e.owned = IF op \in {"h2d_grid", "h2d_meta"} THEN h.owned ELSE d.owned
  /\ e.sigma2 = IF op = "h2d_sigma2" THEN h.sigma2_host
                ELSE IF op = "estimate"
                THEN finalize_sigma2(d.sigma2, Residual[d.grid], config, d.owned)
                ELSE d.sigma2
  /\ e.h = IF op = "estimate" THEN EstimateOf(d.grid, d.meta.cell_id) ELSE d.h
  /\ e.out = IF op = "equalize"
             THEN [status |-> "ok", grid |-> d.grid, h |-> d.h, meta |-> d.meta,
                   sigma2 |-> d.sigma2]
             ELSE d.out
  /\ e.candidates = IF op = "h2d_candidates" THEN h.meta ELSE d.candidates
  /\ e.result = IF op = "decode"
                THEN [symbols |-> d.out, candidates |-> d.candidates] ELSE d.result

HostEffect(op, d, h, g) ==
  /\ DOMAIN g = DOMAIN BlankSlot
  /\ g.transport = h.transport /\ g.meta = h.meta /\ g.owned = h.owned
  /\ g.sigma2_host = h.sigma2_host /\ g.submitted = h.submitted
  /\ g.output_ready = h.output_ready /\ g.sequence = h.sequence
  /\ g.estimate = IF op = "d2h_sigma2" THEN d.sigma2 ELSE h.estimate
  /\ g.out = IF op = "d2h_out" THEN d.out ELSE h.out
  /\ g.result = IF op = "d2h_result" THEN d.result ELSE h.result

LEMMA OnDeviceFields ==
  ASSUME NEW op, NEW d, NEW h, DOMAIN d = DOMAIN BlankDevice
  PROVE  DeviceEffect(op, d, h, OnDevice(op, d, h))
BY DEF OnDevice, BlankDevice, DeviceEffect

LEMMA OnHostFields ==
  ASSUME NEW op, NEW d, NEW h, DOMAIN h = DOMAIN BlankSlot
  PROVE  HostEffect(op, d, h, OnHost(op, d, h))
BY DEF OnHost, BlankSlot, HostEffect

\* The noise the device settles on is a power at or above the floor.
LEMMA FinalizeFloors ==
  ASSUME NEW cfg \in Configs, NEW owned \in BOOLEAN, NEW previous, NEW residual \in Nat,
         owned => previous \in Nat
  PROVE  LET sigma2 == finalize_sigma2(previous, residual, cfg, owned)
         IN  sigma2 \in Nat /\ sigma2 >= cfg.sigma2_min
<1> DEFINE floored == AtLeast(residual, cfg.sigma2_min)
<1>1. cfg.sigma2_min \in Nat
  BY ConfigsAssumption
<1>2. floored \in Nat /\ floored >= cfg.sigma2_min
  BY <1>1 DEF AtLeast
<1>3. CASE ~owned \/ previous < cfg.sigma2_min
  BY <1>2, <1>3 DEF finalize_sigma2
<1>4. CASE owned /\ ~(previous < cfg.sigma2_min)
  <2> HIDE DEF floored
  <2>1. Smooth(previous, floored, cfg) \in Int
    BY <1>2, <1>4, SmoothType
  <2>2. /\ AtLeast(Smooth(previous, floored, cfg), cfg.sigma2_min) \in Nat
        /\ AtLeast(Smooth(previous, floored, cfg), cfg.sigma2_min) >= cfg.sigma2_min
    BY <1>1, <2>1, AtLeastBounds
  <2> QED  BY <1>4, <2>2 DEF finalize_sigma2, floored
<1> QED  BY <1>3, <1>4

\* The estimate leaves a floored noise on the device.
LEMMA EstimateFloors ==
  ASSUME config \in Configs, NEW r \in Requests, NEW d,
         SamplesOn(d, r), d.owned = FALSE \/ (d.owned = TRUE /\ d.sigma2 \in Nat)
  PROVE  Floored(finalize_sigma2(d.sigma2, Residual[d.grid], config, d.owned))
<1>1. Residual[d.grid] \in Nat
  BY ResidualAssumption, RequestsAssumption DEF SamplesOn
<1> QED  BY <1>1, FinalizeFloors DEF Floored

-----------------------------------------------------------------------------
(* One operation of the device takes each mode of a slot to itself.        *)

LEMMA DecodingAtStep ==
  ASSUME config \in Configs, NEW r \in Requests, NEW op, NEW d, NEW h, NEW e, NEW g,
         NEW n \in Nat, n > 0, n <= 7 => op = DecodeOps[8 - n],
         DeviceEffect(op, d, h, e), HostEffect(op, d, h, g), DecodingAt(n, d, h, r)
  PROVE  DecodingAt(n - 1, e, g, r)
<1>1. /\ n = 7 => op = "h2d_grid"
      /\ n = 6 => op = "h2d_sigma2"
      /\ n = 5 => op = "estimate"
      /\ n = 4 => op = "equalize"
      /\ n = 3 => op = "h2d_candidates"
      /\ n = 2 => op = "decode"
      /\ n = 1 => op = "d2h_result"
  BY DEF DecodeOps
<1>2. /\ StagedFor(g, r) /\ DeviceSmooths(g) /\ g.submitted
      /\ StagedFor(h, r) /\ DeviceSmooths(h)
  BY DEF DecodingAt, StagedFor, DeviceSmooths, HostEffect
<1>3. n <= 7 => SamplesOn(e, r) /\ e.owned = TRUE
  <2>1. n = 7 => SamplesOn(e, r) /\ e.owned = TRUE
    BY <1>1, <1>2 DEF StagedFor, DeviceSmooths, SamplesOn, DeviceEffect
  <2>2. n <= 6 => SamplesOn(d, r) /\ d.owned = TRUE /\ op \notin {"h2d_grid", "h2d_meta"}
    BY <1>1 DEF DecodingAt, SamplesOn
  <2> QED  BY <2>1, <2>2 DEF SamplesOn, DeviceEffect
<1>4. n <= 5 => SamplesOn(d, r) /\ d.owned = TRUE /\ d.sigma2 \in Nat
  BY DEF DecodingAt, SamplesOn
<1>5. ASSUME n = 5 PROVE Floored(e.sigma2)
  <2>1. e.sigma2 = finalize_sigma2(d.sigma2, Residual[d.grid], config, d.owned)
    BY <1>1, <1>5 DEF DeviceEffect
  <2>2. SamplesOn(d, r) /\ d.owned = TRUE /\ d.sigma2 \in Nat
    BY <1>4, <1>5
  <2>3. Floored(finalize_sigma2(d.sigma2, Residual[d.grid], config, d.owned))
    BY <2>2, EstimateFloors
  <2> QED  BY <2>1, <2>3
<1>6. n <= 6 => e.sigma2 \in Nat
  <2>1. n = 6 => e.sigma2 \in Nat
    BY <1>1, <1>2 DEF DeviceSmooths, DeviceEffect
  <2>2. n = 5 => e.sigma2 \in Nat
    BY <1>5 DEF Floored
  <2>3. n <= 4 => e.sigma2 \in Nat
    BY <1>1, <1>4 DEF DeviceEffect
  <2> QED  BY <2>1, <2>2, <2>3
<1>7. n <= 5 => ChannelOn(e, r)
  <2>1. n = 5 => e.grid = r.grid /\ e.h = EstimateOf(r.grid, r.cell_id)
    BY <1>1, <1>4 DEF SamplesOn, DeviceEffect
  <2>2. n = 5 => Floored(e.sigma2)
    BY <1>5
  <2>3. n <= 4 => ChannelOn(d, r) /\ op \notin {"h2d_grid", "h2d_sigma2", "estimate"}
    BY <1>1 DEF DecodingAt
  <2> QED  BY <2>1, <2>2, <2>3 DEF ChannelOn, DeviceEffect
<1>8. n <= 4 => SymbolsFor(e.out, r)
  <2>1. n = 4 => op = "equalize" /\ ChannelOn(d, r) /\ d.meta = r
    BY <1>1 DEF DecodingAt, SamplesOn
  <2>2. n <= 3 => op # "equalize" /\ SymbolsFor(d.out, r)
    BY <1>1 DEF DecodingAt
  <2> QED  BY <2>1, <2>2 DEF ChannelOn, SymbolsFor, DeviceEffect
<1>9. n <= 3 => e.candidates = r
  BY <1>1, <1>2 DEF DecodingAt, StagedFor, DeviceEffect
<1>10. n <= 2 => ResultFor(e.result, r)
  <2>1. n = 2 => op = "decode" /\ SymbolsFor(d.out, r) /\ d.candidates = r
    BY <1>1 DEF DecodingAt
  <2>2. n <= 1 => op # "decode" /\ ResultFor(d.result, r)
    BY <1>1 DEF DecodingAt
  <2> QED  BY <2>1, <2>2 DEF ResultFor, DeviceEffect
<1>11. n = 1 => ResultFor(g.result, r)
  BY <1>1 DEF DecodingAt, HostEffect
<1> QED  BY <1>2, <1>3, <1>6, <1>7, <1>8, <1>9, <1>10, <1>11 DEF DecodingAt

LEMMA EqualizingMissAtStep ==
  ASSUME config \in Configs, NEW r \in Requests, NEW op, NEW d, NEW h, NEW e, NEW g,
         NEW n \in Nat, n > 0, n <= 5 => op = EqualizingMissOps[6 - n],
         DeviceEffect(op, d, h, e), HostEffect(op, d, h, g), EqualizingMissAt(n, d, h, r)
  PROVE  EqualizingMissAt(n - 1, e, g, r)
<1>1. /\ n = 5 => op = "h2d_grid"
      /\ n = 4 => op = "h2d_sigma2"
      /\ n = 3 => op = "estimate"
      /\ n = 2 => op = "equalize"
      /\ n = 1 => op = "d2h_out"
  BY DEF EqualizingMissOps
<1>2. /\ StagedFor(g, r) /\ DeviceSmooths(g)
      /\ StagedFor(h, r) /\ DeviceSmooths(h)
  BY DEF EqualizingMissAt, StagedFor, DeviceSmooths, HostEffect
<1>3. n <= 5 => SamplesOn(e, r) /\ e.owned = TRUE
  <2>1. n = 5 => SamplesOn(e, r) /\ e.owned = TRUE
    BY <1>1, <1>2 DEF StagedFor, DeviceSmooths, SamplesOn, DeviceEffect
  <2>2. n <= 4 => SamplesOn(d, r) /\ d.owned = TRUE /\ op \notin {"h2d_grid", "h2d_meta"}
    BY <1>1 DEF EqualizingMissAt
  <2> QED  BY <2>1, <2>2 DEF SamplesOn, DeviceEffect
<1>4. n <= 3 => SamplesOn(d, r) /\ d.owned = TRUE /\ d.sigma2 \in Nat
  BY DEF EqualizingMissAt
<1>5. ASSUME n = 3 PROVE Floored(e.sigma2)
  <2>1. e.sigma2 = finalize_sigma2(d.sigma2, Residual[d.grid], config, d.owned)
    BY <1>1, <1>5 DEF DeviceEffect
  <2>2. SamplesOn(d, r) /\ d.owned = TRUE /\ d.sigma2 \in Nat
    BY <1>4, <1>5
  <2>3. Floored(finalize_sigma2(d.sigma2, Residual[d.grid], config, d.owned))
    BY <2>2, EstimateFloors
  <2> QED  BY <2>1, <2>3
<1>6. n <= 4 => e.sigma2 \in Nat
  <2>1. n = 4 => e.sigma2 \in Nat
    BY <1>1, <1>2 DEF DeviceSmooths, DeviceEffect
  <2>2. n = 3 => e.sigma2 \in Nat
    BY <1>5 DEF Floored
  <2>3. n <= 2 => e.sigma2 \in Nat
    BY <1>1, <1>4 DEF DeviceEffect
  <2> QED  BY <2>1, <2>2, <2>3
<1>7. n <= 3 => ChannelOn(e, r)
  <2>1. n = 3 => e.grid = r.grid /\ e.h = EstimateOf(r.grid, r.cell_id)
    BY <1>1, <1>4 DEF SamplesOn, DeviceEffect
  <2>2. n <= 2 => ChannelOn(d, r) /\ op \notin {"h2d_grid", "h2d_sigma2", "estimate"}
    BY <1>1 DEF EqualizingMissAt
  <2> QED  BY <1>5, <2>1, <2>2 DEF ChannelOn, DeviceEffect
<1>8. n <= 2 => SymbolsFor(e.out, r)
  <2>1. n = 2 => op = "equalize" /\ ChannelOn(d, r) /\ d.meta = r
    BY <1>1 DEF EqualizingMissAt, SamplesOn
  <2>2. n <= 1 => op # "equalize" /\ SymbolsFor(d.out, r)
    BY <1>1 DEF EqualizingMissAt
  <2> QED  BY <2>1, <2>2 DEF ChannelOn, SymbolsFor, DeviceEffect
<1>9. n = 1 => SymbolsFor(g.out, r)
  BY <1>1 DEF EqualizingMissAt, HostEffect
<1> QED  BY <1>2, <1>3, <1>6, <1>7, <1>8, <1>9 DEF EqualizingMissAt

LEMMA EstimatingAtStep ==
  ASSUME config \in Configs, NEW r \in Requests, NEW op, NEW d, NEW h, NEW e, NEW g,
         NEW n \in Nat, n > 0, n <= 3 => op = EstimatingOps[4 - n],
         DeviceEffect(op, d, h, e), HostEffect(op, d, h, g), EstimatingAt(n, d, h, r)
  PROVE  EstimatingAt(n - 1, e, g, r)
<1>1. /\ n = 3 => op = "h2d_grid"
      /\ n = 2 => op = "estimate"
      /\ n = 1 => op = "d2h_sigma2"
  BY DEF EstimatingOps
<1>2. /\ StagedFor(g, r) /\ g.owned = FALSE
      /\ StagedFor(h, r) /\ h.owned = FALSE
  BY DEF EstimatingAt, StagedFor, HostEffect
<1>3. n <= 3 => SamplesOn(e, r) /\ e.owned = FALSE
  <2>1. n = 3 => SamplesOn(e, r) /\ e.owned = FALSE
    BY <1>1, <1>2 DEF StagedFor, SamplesOn, DeviceEffect
  <2>2. n <= 2 => SamplesOn(d, r) /\ d.owned = FALSE /\ op \notin {"h2d_grid", "h2d_meta"}
    BY <1>1 DEF EstimatingAt
  <2> QED  BY <2>1, <2>2 DEF SamplesOn, DeviceEffect
<1>4. n <= 2 => SamplesOn(d, r) /\ d.owned = FALSE
  BY DEF EstimatingAt
<1>5. ASSUME n = 2 PROVE Floored(e.sigma2)
  <2>1. e.sigma2 = finalize_sigma2(d.sigma2, Residual[d.grid], config, d.owned)
    BY <1>1, <1>5 DEF DeviceEffect
  <2>2. SamplesOn(d, r) /\ d.owned = FALSE
    BY <1>4, <1>5
  <2>3. Floored(finalize_sigma2(d.sigma2, Residual[d.grid], config, d.owned))
    BY <2>2, EstimateFloors
  <2> QED  BY <2>1, <2>3
<1>6. n <= 2 => ChannelOn(e, r)
  <2>1. n = 2 => e.grid = r.grid /\ e.h = EstimateOf(r.grid, r.cell_id)
    BY <1>1, <1>4 DEF SamplesOn, DeviceEffect
  <2>2. n <= 1 => ChannelOn(d, r) /\ op \notin {"h2d_grid", "h2d_sigma2", "estimate"}
    BY <1>1 DEF EstimatingAt
  <2> QED  BY <1>5, <2>1, <2>2 DEF ChannelOn, DeviceEffect
<1>7. n = 1 => g.estimate \in Nat
  BY <1>1 DEF EstimatingAt, ChannelOn, Floored, HostEffect
<1> QED  BY <1>2, <1>3, <1>6, <1>7 DEF EstimatingAt

\* What is queued behind a prepared subframe leaves its channel alone.
LEMMA PreparedOnStep ==
  ASSUME NEW key, NEW op, NEW d, NEW h, NEW e, NEW g,
         NEW q \in Seq(OpKinds), q # <<>>, op = Head(q),
         DeviceEffect(op, d, h, e), HostEffect(op, d, h, g), PreparedOn(d, h, q, key)
  PROVE  PreparedOn(e, g, Tail(q), key)
<1>1. op = q[1] /\ 1 \in 1 .. Len(q)
  OBVIOUS
<1>2. op \in ReuseKinds /\ (op = "h2d_sigma2" => Floored(h.sigma2_host))
  BY <1>1 DEF PreparedOn
<1>3. ChannelOn(e, key)
  BY <1>2 DEF PreparedOn, ChannelOn, ReuseKinds, DeviceEffect
<1>4. \A i \in 1 .. Len(Tail(q)) : i + 1 \in 1 .. Len(q) /\ Tail(q)[i] = q[i + 1]
  OBVIOUS
<1>5. g.sigma2_host = h.sigma2_host
  BY DEF HostEffect
<1> QED  BY <1>3, <1>4, <1>5 DEF PreparedOn

LEMMA EqualizingStep ==
  ASSUME NEW r, NEW key, key.grid = r.grid, key.cell_id = r.cell_id,
         NEW op, NEW d, NEW h, NEW e, NEW g, NEW q \in Seq(OpKinds), q # <<>>, op = Head(q),
         DeviceEffect(op, d, h, e), HostEffect(op, d, h, g),
         PreparedOn(d, h, q, key), Equalizing(d, h, q, r)
  PROVE  Equalizing(e, g, Tail(q), r)
<1>1. EqualizeOps \in Seq(OpKinds) /\ Len(EqualizeOps) = 2
  BY DEF EqualizeOps, OpKinds
<1>2. EndsWith(q, EqualizeOps) /\ EqualizingAt(Len(q), d, h, r)
  BY DEF Equalizing
<1>3. EndsWith(Tail(q), EqualizeOps) /\ Len(Tail(q)) = Len(q) - 1
  BY <1>1, <1>2, EndsWithTail
<1>4. op \in ReuseKinds
  <2>1. op = q[1] /\ 1 \in 1 .. Len(q)
    OBVIOUS
  <2> QED  BY <2>1 DEF PreparedOn
<1>5. g.meta = r /\ h.meta = r
  BY <1>2 DEF EqualizingAt, HostEffect
<1>6. d.meta = r => e.meta = r
  BY <1>5 DEF DeviceEffect
<1>7. Len(q) > 3 => Tail(q)[Len(Tail(q)) - 2] = "h2d_meta" \/ e.meta = r
  <2> SUFFICES ASSUME Len(q) > 3
               PROVE  Tail(q)[Len(Tail(q)) - 2] = "h2d_meta" \/ e.meta = r
    OBVIOUS
  <2>1. q[Len(q) - 2] = "h2d_meta" \/ d.meta = r
    BY DEF Equalizing
  <2>2. Tail(q)[Len(Tail(q)) - 2] = q[Len(q) - 2]
    BY <1>3
  <2> QED  BY <1>6, <2>1, <2>2
<1>8. Len(q) = 3 => e.meta = r
  <2> SUFFICES ASSUME Len(q) = 3 PROVE e.meta = r
    OBVIOUS
  <2>1. q[1] = "h2d_meta" \/ d.meta = r
    BY DEF Equalizing
  <2>2. op = q[1]
    OBVIOUS
  <2> QED  BY <1>5, <1>6, <2>1, <2>2 DEF DeviceEffect
<1>9. Len(q) = 2 => op = "equalize"
  <2> SUFFICES ASSUME Len(q) = 2 PROVE op = "equalize"
    OBVIOUS
  <2>1. op = EqualizeOps[2 - 2 + 1]
    BY <1>1, <1>2, NextOp
  <2> QED  BY <2>1 DEF EqualizeOps
<1>10. Len(q) = 1 => op = "d2h_out"
  <2> SUFFICES ASSUME Len(q) = 1 PROVE op = "d2h_out"
    OBVIOUS
  <2>1. Len(q) > 0 /\ Len(q) <= Len(EqualizeOps)
    BY <1>1
  <2>2. op = EqualizeOps[2 - 1 + 1]
    BY <1>1, <1>2, <2>1, NextOp
  <2> QED  BY <2>2 DEF EqualizeOps
<1>11. Len(q) \in Nat /\ Len(q) > 0
  OBVIOUS
<1> DEFINE n == Len(q)
<1>12. n \in Nat /\ n > 0
  BY <1>11
<1>13. n <= 2 => d.meta = r
  BY <1>2 DEF EqualizingAt
<1> HIDE DEF n
<1>14. n <= 3 => n = 3 \/ n <= 2
  BY <1>12
<1>15. n <= 2 => n = 2 \/ n = 1
  BY <1>12
<1>16. Len(q) <= 3 => e.meta = r
  BY <1>6, <1>8, <1>13, <1>14 DEF n
<1>17. Len(q) <= 2 => SymbolsFor(e.out, r)
  <2>1. Len(q) = 2 => SymbolsFor(e.out, r)
    BY <1>2, <1>9 DEF EqualizingAt, PreparedOn, ChannelOn, SymbolsFor, DeviceEffect
  <2>2. Len(q) = 1 => SymbolsFor(e.out, r)
    BY <1>2, <1>10 DEF EqualizingAt, DeviceEffect
  <2> QED  BY <1>15, <2>1, <2>2 DEF n
<1>18. Len(q) = 1 => SymbolsFor(g.out, r)
  BY <1>2, <1>10 DEF EqualizingAt, HostEffect
<1>19. EqualizingAt(n - 1, e, g, r)
  <2>1. n <= 3 => e.meta = r
    BY <1>16 DEF n
  <2>2. n <= 2 => SymbolsFor(e.out, r)
    BY <1>17 DEF n
  <2>3. n = 1 => SymbolsFor(g.out, r)
    BY <1>18 DEF n
  <2> QED  BY <1>5, <1>12, <2>1, <2>2, <2>3 DEF EqualizingAt
<1>20. Len(Tail(q)) > 2 => Len(q) > 3
  BY <1>3, <1>11
<1> QED  BY <1>3, <1>7, <1>19, <1>20 DEF Equalizing, n

\* None of the modes looks at anything but the configuration.
LEMMA SameConfig ==
  ASSUME config' = config, NEW d, NEW h, NEW q, NEW r
  PROVE  /\ Decoding(d, h, q, r)' <=> Decoding(d, h, q, r)
         /\ EqualizingMiss(d, h, q, r)' <=> EqualizingMiss(d, h, q, r)
         /\ Estimating(d, h, q, r)' <=> Estimating(d, h, q, r)
         /\ Equalizing(d, h, q, r)' <=> Equalizing(d, h, q, r)
         /\ PreparedOn(d, h, q, r)' <=> PreparedOn(d, h, q, r)
         /\ SymbolsFor(d, r)' <=> SymbolsFor(d, r)
<1>1. SymbolsFor(d, r)' <=> SymbolsFor(d, r)
  BY DEF SymbolsFor, Floored
<1>2. Decoding(d, h, q, r)' <=> Decoding(d, h, q, r)
  BY DEF Decoding, DecodingAt, ResultFor, SymbolsFor, ChannelOn, Floored
<1>3. EqualizingMiss(d, h, q, r)' <=> EqualizingMiss(d, h, q, r)
  BY DEF EqualizingMiss, EqualizingMissAt, SymbolsFor, ChannelOn, Floored
<1>4. Estimating(d, h, q, r)' <=> Estimating(d, h, q, r)
  BY DEF Estimating, EstimatingAt, ChannelOn, Floored
<1>5. Equalizing(d, h, q, r)' <=> Equalizing(d, h, q, r)
  BY DEF Equalizing, EqualizingAt, SymbolsFor, ChannelOn, Floored
<1>6. PreparedOn(d, h, q, r)' <=> PreparedOn(d, h, q, r)
  BY DEF PreparedOn, ChannelOn, Floored
<1> QED  BY <1>1, <1>2, <1>3, <1>4, <1>5, <1>6

LEMMA DecodingStep ==
  ASSUME config \in Configs, NEW r \in Requests, NEW d, NEW h, NEW e, NEW g,
         NEW q \in Seq(OpKinds), q # <<>>,
         DeviceEffect(Head(q), d, h, e), HostEffect(Head(q), d, h, g), Decoding(d, h, q, r)
  PROVE  Decoding(e, g, Tail(q), r)
<1>1. DecodeOps \in Seq(OpKinds) /\ Len(DecodeOps) = 7
  BY DEF DecodeOps, OpKinds
<1>2. EndsWith(Tail(q), DecodeOps) /\ Len(Tail(q)) = Len(q) - 1
  BY <1>1, EndsWithTail DEF Decoding
<1>3. Len(q) \in Nat /\ Len(q) > 0
  OBVIOUS
<1>4. Len(q) <= 7 => Head(q) = DecodeOps[8 - Len(q)]
  <2>1. Len(q) <= 7 => Head(q) = DecodeOps[7 - Len(q) + 1]
    BY <1>1, <1>3, NextOp DEF Decoding
  <2>2. 7 - Len(q) + 1 = 8 - Len(q)
    BY <1>3
  <2> QED  BY <2>1, <2>2
<1>5. DecodingAt(Len(q) - 1, e, g, r)
  BY <1>3, <1>4, DecodingAtStep DEF Decoding
<1> QED  BY <1>2, <1>5 DEF Decoding

LEMMA EqualizingMissStep ==
  ASSUME config \in Configs, NEW r \in Requests, NEW d, NEW h, NEW e, NEW g,
         NEW q \in Seq(OpKinds), q # <<>>,
         DeviceEffect(Head(q), d, h, e), HostEffect(Head(q), d, h, g),
         EqualizingMiss(d, h, q, r)
  PROVE  EqualizingMiss(e, g, Tail(q), r)
<1>1. EqualizingMissOps \in Seq(OpKinds) /\ Len(EqualizingMissOps) = 5
  BY DEF EqualizingMissOps, OpKinds
<1>2. EndsWith(Tail(q), EqualizingMissOps) /\ Len(Tail(q)) = Len(q) - 1
  BY <1>1, EndsWithTail DEF EqualizingMiss
<1>3. Len(q) \in Nat /\ Len(q) > 0
  OBVIOUS
<1>4. Len(q) <= 5 => Head(q) = EqualizingMissOps[6 - Len(q)]
  <2>1. Len(q) <= 5 => Head(q) = EqualizingMissOps[5 - Len(q) + 1]
    BY <1>1, <1>3, NextOp DEF EqualizingMiss
  <2>2. 5 - Len(q) + 1 = 6 - Len(q)
    BY <1>3
  <2> QED  BY <2>1, <2>2
<1>5. EqualizingMissAt(Len(q) - 1, e, g, r)
  BY <1>3, <1>4, EqualizingMissAtStep DEF EqualizingMiss
<1> QED  BY <1>2, <1>5 DEF EqualizingMiss

LEMMA EstimatingStep ==
  ASSUME config \in Configs, NEW r \in Requests, NEW d, NEW h, NEW e, NEW g,
         NEW q \in Seq(OpKinds), q # <<>>,
         DeviceEffect(Head(q), d, h, e), HostEffect(Head(q), d, h, g), Estimating(d, h, q, r)
  PROVE  Estimating(e, g, Tail(q), r)
<1>1. EstimatingOps \in Seq(OpKinds) /\ Len(EstimatingOps) = 3
  BY DEF EstimatingOps, OpKinds
<1>2. EndsWith(Tail(q), EstimatingOps) /\ Len(Tail(q)) = Len(q) - 1
  BY <1>1, EndsWithTail DEF Estimating
<1>3. Len(q) \in Nat /\ Len(q) > 0
  OBVIOUS
<1>4. Len(q) <= 3 => Head(q) = EstimatingOps[4 - Len(q)]
  <2>1. Len(q) <= 3 => Head(q) = EstimatingOps[3 - Len(q) + 1]
    BY <1>1, <1>3, NextOp DEF Estimating
  <2>2. 3 - Len(q) + 1 = 4 - Len(q)
    BY <1>3
  <2> QED  BY <2>1, <2>2
<1>5. EstimatingAt(Len(q) - 1, e, g, r)
  BY <1>3, <1>4, EstimatingAtStep DEF Estimating
<1> QED  BY <1>2, <1>5 DEF Estimating

-----------------------------------------------------------------------------
(* The steps of the device.                                                *)

\* Execute touches one slot, and there it does what the effects say.
LEMMA ExecuteSlot ==
  ASSUME TypeOK, ShapeInv, NEW s \in Ids, Execute(s)
  PROVE  /\ stream[s] \in Seq(OpKinds) /\ stream[s] # <<>>
         /\ stream' = [stream EXCEPT ![s] = Tail(stream[s])]
         /\ stream' \in [Ids -> Seq(OpKinds)]
         /\ stream'[s] = Tail(stream[s])
         /\ DeviceEffect(Head(stream[s]), dev[s], slot[s], dev'[s])
         /\ HostEffect(Head(stream[s]), dev[s], slot[s], slot'[s])
         /\ DOMAIN dev' = Ids /\ DOMAIN slot' = Ids
         /\ \A t \in Ids \ {s} :
              dev'[t] = dev[t] /\ slot'[t] = slot[t] /\ stream'[t] = stream[t]
<1> DEFINE op == Head(stream[s])
<1>1. DOMAIN slot[s] = DOMAIN BlankSlot /\ DOMAIN dev[s] = DOMAIN BlankDevice
  BY DEF ShapeInv
<1>2. stream[s] \in Seq(OpKinds) /\ stream[s] # <<>>
  BY DEF TypeOK, Execute
<1>3. /\ dev' = [dev EXCEPT ![s] = OnDevice(op, dev[s], slot[s])]
      /\ slot' = [slot EXCEPT ![s] = OnHost(op, dev[s], slot[s])]
      /\ stream' = [stream EXCEPT ![s] = Tail(stream[s])]
  BY DEF Execute
<1>4. dev'[s] = OnDevice(op, dev[s], slot[s]) /\ slot'[s] = OnHost(op, dev[s], slot[s])
  BY <1>3 DEF ShapeInv
<1>5. DeviceEffect(op, dev[s], slot[s], dev'[s])
  BY <1>1, <1>4, OnDeviceFields
<1>6. HostEffect(op, dev[s], slot[s], slot'[s])
  BY <1>1, <1>4, OnHostFields
<1>7. Tail(stream[s]) \in Seq(OpKinds)
  BY <1>2
<1>8. stream' \in [Ids -> Seq(OpKinds)] /\ stream'[s] = Tail(stream[s])
  BY <1>3, <1>7 DEF TypeOK
<1> QED  BY <1>2, <1>3, <1>5, <1>6, <1>8 DEF ShapeInv, TypeOK

\* A pending slot serves a request of the batch.
LEMMA PendingServes ==
  ASSUME TypeOK, BatchInv, pc \in {"submit", "collect"},
         NEW i \in 1 .. Len(call.pending)
  PROVE  /\ call.pending[i] \in Ids
         /\ call.done + i \in 1 .. Len(call.requests)
         /\ call.requests[call.done + i] \in Requests
<1>1. /\ call.requests \in Seq(Requests) /\ call.pending \in Seq(Ids)
      /\ call.group \in Nat /\ call.next \in Nat /\ call.done \in Nat
  BY RequestsAssumption DEF BatchInv, BatchCalls, BatchPhases
<1>2. slot_count \in Nat
  BY MaxSlotsAssumption DEF TypeOK
<1>3. GroupEnd <= Len(call.requests)
  BY <1>1, <1>2 DEF GroupEnd, AtMost
<1>4. call.done + Len(call.pending) <= Len(call.requests)
  <2>1. CASE pc = "submit"
    <3>1. call.done = call.group /\ call.next = call.group + 1 + Len(call.pending)
          /\ call.next <= GroupEnd
      BY <2>1 DEF BatchInv, BatchPhases
    <3>2. GroupEnd \in Int
      BY <1>1, <1>2 DEF GroupEnd, AtMost
    <3> QED  BY <1>1, <1>3, <3>1, <3>2
  <2>2. CASE pc = "collect"
    BY <1>3, <2>2 DEF BatchInv, BatchPhases
  <2> QED  BY <2>1, <2>2
<1>5. call.done + i \in 1 .. Len(call.requests)
  BY <1>1, <1>4
<1> QED  BY <1>1, <1>5

LEMMA ExecuteInv ==
  ASSUME RingInv, NEW s \in Ids, Execute(s)
  PROVE  RingInv'
<1> USE DEF RingInv
<1> DEFINE op == Head(stream[s])
<1>1. /\ stream[s] \in Seq(OpKinds) /\ stream[s] # <<>>
      /\ stream' \in [Ids -> Seq(OpKinds)]
      /\ stream'[s] = Tail(stream[s])
      /\ DeviceEffect(op, dev[s], slot[s], dev'[s])
      /\ HostEffect(op, dev[s], slot[s], slot'[s])
      /\ DOMAIN dev' = Ids /\ DOMAIN slot' = Ids
      /\ \A t \in Ids \ {s} :
           dev'[t] = dev[t] /\ slot'[t] = slot[t] /\ stream'[t] = stream[t]
  BY ExecuteSlot
<1>2. UNCHANGED <<setup, next_stage_slot, active_slot, completed_slot, next_sequence,
                 noise, pc, call, last, calls>>
  BY DEF Execute
<1>3. config \in Configs /\ config' = config
  BY <1>2 DEF TypeOK, setup
<1> HIDE DEF op
<1>4. \A t \in Ids : /\ DOMAIN slot'[t] = DOMAIN BlankSlot /\ DOMAIN dev'[t] = DOMAIN BlankDevice
                     /\ slot'[t].submitted = slot[t].submitted
                     /\ slot'[t].output_ready = slot[t].output_ready
                     /\ slot'[t].owned = slot[t].owned
                     /\ slot'[t].sequence = slot[t].sequence
  BY <1>1 DEF ShapeInv, HostEffect, DeviceEffect
<1>5. TypeOK'
  BY <1>1, <1>2, <1>4 DEF TypeOK, setup, noise
<1>6. ShapeInv'
  BY <1>1, <1>2, <1>4 DEF ShapeInv, setup, noise
<1>7. \A t \in Ids : \A r : PreparedOn(dev[t], slot[t], stream[t], r) =>
                        PreparedOn(dev'[t], slot'[t], stream'[t], r)
  BY <1>1, PreparedOnStep DEF op
<1>8. PreparedInv'
  BY <1>2, <1>3, <1>7, SameConfig DEF PreparedInv, noise, TypeOK
<1>9. \A t \in Ids, r \in Requests :
        Decoding(dev[t], slot[t], stream[t], r) => Decoding(dev'[t], slot'[t], stream'[t], r)
  BY <1>1, <1>3, DecodingStep DEF op
<1>10. \A t \in Ids, r \in Requests :
         EqualizingMiss(dev[t], slot[t], stream[t], r) =>
         EqualizingMiss(dev'[t], slot'[t], stream'[t], r)
  BY <1>1, <1>3, EqualizingMissStep DEF op
<1>11. \A t \in Ids, r \in Requests :
         Estimating(dev[t], slot[t], stream[t], r) =>
         Estimating(dev'[t], slot'[t], stream'[t], r)
  BY <1>1, <1>3, EstimatingStep DEF op
<1>12. \A t \in Ids, r \in Requests :
         PreparedOn(dev[t], slot[t], stream[t], KeyOf(r)) /\
         Equalizing(dev[t], slot[t], stream[t], r) =>
         Equalizing(dev'[t], slot'[t], stream'[t], r)
  <2> SUFFICES ASSUME NEW t \in Ids, NEW r \in Requests,
                      PreparedOn(dev[t], slot[t], stream[t], KeyOf(r)),
                      Equalizing(dev[t], slot[t], stream[t], r)
               PROVE  Equalizing(dev'[t], slot'[t], stream'[t], r)
    OBVIOUS
  <2>1. KeyOf(r).grid = r.grid /\ KeyOf(r).cell_id = r.cell_id
    BY DEF KeyOf
  <2> QED  BY <1>1, <2>1, EqualizingStep DEF op
<1>13. SyncInv'
  <2> SUFFICES ASSUME pc \in SyncPhases PROVE SyncInv'
    BY <1>2 DEF SyncInv
  <2> DEFINE t == active_slot
             r == call.request
  <2>1. /\ initialized
        /\ call = [kind |-> "run", request |-> r] /\ r \in Requests
        /\ last = Nothing
        /\ prepared.slot_index = t /\ prepared.key = KeyOf(r)
        /\ pc = "mid" => ~prepared.valid /\ Estimating(dev[t], slot[t], stream[t], r)
        /\ pc = "final" =>
             IF prepared.valid THEN Equalizing(dev[t], slot[t], stream[t], r)
             ELSE device_owned /\ EqualizingMiss(dev[t], slot[t], stream[t], r)
    BY DEF SyncInv
  <2>2. t \in Ids
    BY DEF TypeOK
  <2>3. prepared.valid => PreparedOn(dev[t], slot[t], stream[t], KeyOf(r))
    BY <2>1 DEF PreparedInv
  <2>4. /\ pc = "mid" => Estimating(dev'[t], slot'[t], stream'[t], r)
        /\ pc = "final" =>
             IF prepared.valid THEN Equalizing(dev'[t], slot'[t], stream'[t], r)
             ELSE device_owned /\ EqualizingMiss(dev'[t], slot'[t], stream'[t], r)
    BY <1>10, <1>11, <1>12, <2>1, <2>2, <2>3
  <2>5. t' = t /\ r' = r
    BY <1>2
  <2> HIDE DEF t, r
  <2> QED  BY <1>2, <1>3, <2>1, <2>4, <2>5, SameConfig DEF SyncInv, setup, noise, t, r
<1>14. BatchInv'
  <2> SUFFICES ASSUME pc \in BatchPhases PROVE BatchInv'
    BY <1>2 DEF BatchInv
  <2>1. ASSUME pc \in {"submit", "collect"}, NEW i \in 1 .. Len(call.pending)
        PROVE  LET t == call.pending[i]
               IN  Decoding(dev'[t], slot'[t], stream'[t], call.requests[call.done + i])
    <3>1. call.pending[i] \in Ids /\ call.requests[call.done + i] \in Requests
      BY <2>1, PendingServes
    <3>2. LET t == call.pending[i]
          IN  Decoding(dev[t], slot[t], stream[t], call.requests[call.done + i])
      BY <2>1 DEF BatchInv
    <3> QED  BY <1>9, <3>1, <3>2
  <2>2. GroupEnd' = GroupEnd /\ PendingRound(call.pending)' = PendingRound(call.pending)
    BY <1>2 DEF GroupEnd, PendingRound, Behind, setup
  <2>3. UNCHANGED <<initialized, call, pc>>
    BY <1>2 DEF setup
  <2> QED  BY <1>3, <2>1, <2>2, <2>3, SameConfig DEF BatchInv
<1>15. AnswerInv'
  BY <1>2, <1>3, SameConfig DEF AnswerInv, Answered
<1> QED  BY <1>5, <1>6, <1>8, <1>13, <1>14, <1>15

-----------------------------------------------------------------------------
(* What the calls queue, in one piece.                                     *)

\* Two queues, one after the other.
LEMMA Joined ==
  ASSUME NEW q \in Seq(OpKinds), NEW p \in Seq(OpKinds), NEW w \in Seq(OpKinds),
         Len(w) = Len(q) + Len(p),
         \A i \in 1 .. Len(q) : w[i] = q[i],
         \A i \in 1 .. Len(p) : w[Len(q) + i] = p[i]
  PROVE  q \o p = w
<1>1. q \o p \in Seq(OpKinds) /\ Len(q \o p) = Len(w)
  OBVIOUS
<1>2. \A i \in 1 .. Len(w) : (q \o p)[i] = w[i]
  <2> SUFFICES ASSUME NEW i \in 1 .. Len(w) PROVE (q \o p)[i] = w[i]
    OBVIOUS
  <2>1. CASE i <= Len(q)
    BY <2>1
  <2>2. CASE i > Len(q)
    <3>1. i - Len(q) \in 1 .. Len(p) /\ Len(q) + (i - Len(q)) = i
      BY <2>2
    <3>2. (q \o p)[i] = p[i - Len(q)]
      BY <2>2
    <3> QED  BY <3>1, <3>2
  <2> QED  BY <2>1, <2>2
<1> QED  BY <1>1, <1>2

\* What a miss queues before its first wait, in one piece.
LEMMA JoinedOps ==
  /\ ~device_owned => EstimateOps \o <<>> = EstimatingOps
  /\ device_owned => EstimateOps \o EqualizeOps = EqualizingMissOps
<1>1. ASSUME ~device_owned PROVE EstimateOps \o <<>> = EstimatingOps
  <2>1. EstimateOps \in Seq(OpKinds) /\ EstimateOps = EstimatingOps
    BY <1>1 DEF EstimateOps, EstimatingOps, OpKinds
  <2> QED  BY <2>1
<1>2. ASSUME device_owned PROVE EstimateOps \o EqualizeOps = EqualizingMissOps
  <2>1. EstimateOps \in Seq(OpKinds) /\ EqualizeOps \in Seq(OpKinds) /\ EqualizingMissOps \in Seq(OpKinds)
    BY <1>2 DEF EstimateOps, EqualizeOps, EqualizingMissOps, OpKinds
  <2>2. Len(EstimateOps) = 3 /\ Len(EqualizeOps) = 2 /\ Len(EqualizingMissOps) = 5
    BY <1>2 DEF EstimateOps, EqualizeOps, EqualizingMissOps
  <2>3. \A i \in 1 .. 3 : EqualizingMissOps[i] = EstimateOps[i]
    <3>1. \A i \in 1 .. 3 : i = 1 \/ i = 2 \/ i = 3
      OBVIOUS
    <3> QED  BY <1>2, <3>1 DEF EstimateOps, EqualizingMissOps
  <2>4. \A i \in 1 .. 2 : EqualizingMissOps[3 + i] = EqualizeOps[i]
    <3>1. \A i \in 1 .. 2 : i = 1 \/ i = 2
      OBVIOUS
    <3> QED  BY <3>1 DEF EqualizeOps, EqualizingMissOps
  <2>5. /\ Len(EqualizingMissOps) = Len(EstimateOps) + Len(EqualizeOps)
        /\ \A i \in 1 .. Len(EstimateOps) : EqualizingMissOps[i] = EstimateOps[i]
        /\ \A i \in 1 .. Len(EqualizeOps) :
             EqualizingMissOps[Len(EstimateOps) + i] = EqualizeOps[i]
    BY <2>2, <2>3, <2>4
  <2> QED  BY <2>1, <2>5, Joined
<1> QED  BY <1>1, <1>2

\* What equalises with the channel that is already on the device.
LEMMA ReuseOpsJoined ==
  /\ ReuseOps = <<"h2d_meta", "equalize", "d2h_out">>
  /\ NoisyEqualizeOps = <<"h2d_sigma2", "equalize", "d2h_out">>
<1>1. EqualizeOps \in Seq(OpKinds) /\ Len(EqualizeOps) = 2
      /\ EqualizeOps[1] = "equalize" /\ EqualizeOps[2] = "d2h_out"
  BY DEF EqualizeOps, OpKinds
<1>2. ASSUME NEW first \in OpKinds
      PROVE  <<first>> \o EqualizeOps = <<first, "equalize", "d2h_out">>
  <2> DEFINE q == <<first>>
             w == <<first, "equalize", "d2h_out">>
  <2>1. q \in Seq(OpKinds) /\ Len(q) = 1 /\ q[1] = first
    OBVIOUS
  <2>2. w \in Seq(OpKinds) /\ Len(w) = 3
        /\ w[1] = first /\ w[2] = "equalize" /\ w[3] = "d2h_out"
    BY DEF OpKinds
  <2>3. \A i \in 1 .. 1 : i = 1
    OBVIOUS
  <2>4. \A i \in 1 .. 2 : i = 1 \/ i = 2
    OBVIOUS
  <2> HIDE DEF q, w
  <2>5. /\ Len(w) = Len(q) + Len(EqualizeOps)
        /\ \A i \in 1 .. Len(q) : w[i] = q[i]
        /\ \A i \in 1 .. Len(EqualizeOps) : w[Len(q) + i] = EqualizeOps[i]
    BY <1>1, <2>1, <2>2, <2>3, <2>4
  <2>6. q \o EqualizeOps = w
    BY <1>1, <2>1, <2>2, <2>5, Joined
  <2> QED  BY <2>6 DEF q, w
<1>3. "h2d_meta" \in OpKinds /\ "h2d_sigma2" \in OpKinds
  BY DEF OpKinds
<1>4. <<"h2d_meta">> \o EqualizeOps = <<"h2d_meta", "equalize", "d2h_out">>
  BY <1>2, <1>3
<1>5. <<"h2d_sigma2">> \o EqualizeOps = <<"h2d_sigma2", "equalize", "d2h_out">>
  BY <1>2, <1>3
<1> QED  BY <1>4, <1>5 DEF ReuseOps, NoisyEqualizeOps

-----------------------------------------------------------------------------
(* init, and what stage_inputs and the queueing of operations do.          *)

LEMMA InitHolds ==
  ASSUME Init
  PROVE  RingInv
<1>1. 0 \in Ids /\ 0 \in 0 .. MaxSlots
  BY MaxSlotsAssumption DEF Ids
<1>2. \A s \in Ids : slot[s] = BlankSlot /\ dev[s] = BlankDevice /\ stream[s] = <<>>
  BY DEF Init
<1>3. NoState \in NoiseStates
  BY DEF NoState, NoiseStates
<1>4. <<>> \in Seq(OpKinds) /\ NotPrepared.valid = FALSE /\ NotPrepared.slot_index = 0
      /\ NotPrepared.sigma2 = 0
  BY DEF NotPrepared
<1>5. /\ BlankSlot.submitted = FALSE /\ BlankSlot.output_ready = FALSE
      /\ BlankSlot.owned = FALSE /\ BlankSlot.sequence = 0
  BY DEF BlankSlot
<1>6. TypeOK
  BY <1>1, <1>2, <1>3, <1>4, <1>5 DEF Init, TypeOK, Phases
<1>7. ShapeInv
  BY <1>2, <1>5 DEF Init, ShapeInv
<1>8. PreparedInv /\ SyncInv /\ BatchInv /\ AnswerInv
  BY <1>4 DEF Init, PreparedInv, SyncInv, BatchInv, AnswerInv, SyncPhases, BatchPhases, Answered, Nothing
<1> QED  BY <1>6, <1>7, <1>8 DEF RingInv

\* init starts the ring afresh, whatever it was doing.
LEMMA ResetHolds ==
  ASSUME TypeOK, pc = "idle", Reset, config' \in Configs, device_owned' \in BOOLEAN,
         initialized' \in BOOLEAN, slot_count' \in 0 .. MaxSlots, initialized' => slot_count' > 0,
         inits' \in Nat
  PROVE  RingInv'
<1>1. 0 \in Ids
  BY MaxSlotsAssumption DEF Ids
<1>2. /\ slot' = [s \in Ids |-> BlankSlot] /\ dev' = [s \in Ids |-> BlankDevice]
      /\ stream' = [s \in Ids |-> <<>>] /\ prepared' = NotPrepared /\ last' = Nothing
      /\ next_stage_slot' = 0 /\ active_slot' = 0 /\ completed_slot' = 0 /\ next_sequence' = 1
      /\ UNCHANGED <<sigma2_by_cell, pc, call, calls>>
  BY DEF Reset
<1>3. \A s \in Ids : slot'[s] = BlankSlot /\ dev'[s] = BlankDevice /\ stream'[s] = <<>>
  BY <1>2
<1>4. <<>> \in Seq(OpKinds) /\ NotPrepared.valid = FALSE /\ NotPrepared.slot_index = 0
      /\ NotPrepared.sigma2 = 0
  BY DEF NotPrepared
<1>5. /\ BlankSlot.submitted = FALSE /\ BlankSlot.output_ready = FALSE
      /\ BlankSlot.owned = FALSE /\ BlankSlot.sequence = 0
  BY DEF BlankSlot
<1>6. stream' \in [Ids -> Seq(OpKinds)]
  BY <1>2, <1>4
<1>7. \A s \in Ids : {slot'[s].submitted, slot'[s].output_ready, slot'[s].owned} \subseteq BOOLEAN
  BY <1>3, <1>5
<1>8. prepared'.slot_index \in Ids /\ prepared'.valid \in BOOLEAN /\ prepared'.sigma2 \in Nat
  <2>1. prepared' = NotPrepared
    BY <1>2
  <2>2. prepared'.slot_index \in Ids /\ prepared'.sigma2 \in Nat
    BY <1>1, <1>4, <2>1
  <2>3. prepared'.valid \in BOOLEAN
    BY <1>4, <2>1
  <2> QED  BY <2>2, <2>3
<1>9. {next_stage_slot', active_slot', completed_slot'} \subseteq Ids
  BY <1>1, <1>2
<1>10. sigma2_by_cell' \in [Cells -> NoiseStates] /\ pc' \in Phases /\ calls' \in Nat
       /\ next_sequence' \in Nat
  BY <1>2 DEF TypeOK
<1>11. TypeOK'
  BY <1>6, <1>7, <1>8, <1>9, <1>10 DEF TypeOK
<1>12. ShapeInv'
  BY <1>2, <1>3, <1>5 DEF ShapeInv
<1>13. (PreparedInv /\ SyncInv /\ BatchInv /\ AnswerInv)'
  BY <1>2, <1>4 DEF PreparedInv, SyncInv, BatchInv, AnswerInv, SyncPhases, BatchPhases, Answered, Nothing
<1> QED  BY <1>11, <1>12, <1>13 DEF RingInv

LEMMA InitContextInv ==
  ASSUME RingInv, NEW cfg \in Configs, NEW owned \in Owners,
         InitFails(cfg, owned) \/ \E n \in 1 .. MaxSlots : InitContext(cfg, owned, n)
  PROVE  RingInv'
<1>1. TypeOK
  BY DEF RingInv
<1>2. inits + 1 \in Nat
  BY <1>1 DEF TypeOK
<1>3. owned \in BOOLEAN /\ 0 \in 0 .. MaxSlots
  BY SetupAssumption, MaxSlotsAssumption
<1>4. CASE InitFails(cfg, owned)
  BY <1>1, <1>2, <1>3, <1>4, ResetHolds DEF InitFails
<1>5. ASSUME NEW n \in 1 .. MaxSlots, InitContext(cfg, owned, n)
      PROVE  RingInv'
  <2>1. n \in 0 .. MaxSlots /\ n > 0
    BY MaxSlotsAssumption
  <2> QED  BY <1>1, <1>2, <1>3, <1>5, <2>1, ResetHolds DEF InitContext
<1> QED  BY <1>4, <1>5

\* A miss rewrites the host side of the next slot and drops the prepared subframe.
LEMMA StageMissSlot ==
  ASSUME TypeOK, ShapeInv, initialized, NEW r \in Requests,
         NEW owned \in BOOLEAN, NEW submitted \in BOOLEAN, StageMiss(r, owned, submitted)
  PROVE  LET s == next_stage_slot
         IN  /\ s \in Ids /\ s < slot_count
             /\ active_slot' = s
             /\ next_stage_slot' = (s + 1) % slot_count
             /\ next_stage_slot' \in Ids /\ next_stage_slot' < slot_count
             /\ next_sequence' \in Nat
             /\ prepared' = [valid |-> FALSE, key |-> KeyOf(r), slot_index |-> s,
                             sigma2 |-> prepared.sigma2]
             /\ DOMAIN slot' = Ids
             /\ \A t \in Ids \ {s} : slot'[t] = slot[t]
             /\ DOMAIN slot'[s] = DOMAIN BlankSlot
             /\ slot'[s].submitted = submitted /\ slot'[s].output_ready = FALSE
             /\ slot'[s].owned = owned /\ slot'[s].sequence \in Nat
             /\ StagedFor(slot'[s], r)
             /\ owned => DeviceSmooths(slot'[s])
<1> DEFINE s == next_stage_slot
<1>1. s \in Ids /\ s < slot_count /\ slot_count \in 1 .. MaxSlots
  BY MaxSlotsAssumption DEF TypeOK, ShapeInv, Ids
<1>2. /\ next_stage_slot' = (s + 1) % slot_count
      /\ next_stage_slot' \in Ids /\ next_stage_slot' < slot_count
  BY <1>1, MaxSlotsAssumption DEF StageMiss, Ids
<1>3. r.cell_id \in Cells
  BY RequestsAssumption
<1>4. sigma2_to_device(sigma2_by_cell[r.cell_id]) \in Nat
  BY <1>3 DEF sigma2_to_device, TypeOK, NoiseStates
<1> DEFINE noise_power == IF owned THEN sigma2_to_device(sigma2_by_cell[r.cell_id])
                          ELSE slot[s].sigma2_host
           staged == [slot[s] EXCEPT !.transport = r.grid, !.meta = r, !.owned = owned,
                                     !.sigma2_host = noise_power, !.out = Nothing,
                                     !.result = Nothing, !.submitted = submitted,
                                     !.output_ready = FALSE, !.sequence = next_sequence]
<1>5. slot' = [slot EXCEPT ![s] = staged]
  BY DEF StageMiss
<1>6. DOMAIN slot' = Ids /\ \A t \in Ids \ {s} : slot'[t] = slot[t]
  BY <1>5 DEF ShapeInv
<1>7. DOMAIN slot[s] = DOMAIN BlankSlot
  BY <1>1 DEF ShapeInv
<1>8. /\ DOMAIN slot'[s] = DOMAIN BlankSlot
      /\ slot'[s].transport = r.grid /\ slot'[s].meta = r
      /\ slot'[s].submitted = submitted /\ slot'[s].output_ready = FALSE
      /\ slot'[s].owned = owned /\ slot'[s].sequence = next_sequence
      /\ slot'[s].sigma2_host = noise_power
  <2> HIDE DEF noise_power
  <2>1. /\ DOMAIN staged = DOMAIN BlankSlot
        /\ staged.transport = r.grid /\ staged.meta = r
        /\ staged.owned = owned /\ staged.sigma2_host = noise_power
        /\ staged.submitted = submitted /\ staged.output_ready = FALSE
        /\ staged.sequence = next_sequence
    BY <1>7 DEF BlankSlot
  <2> HIDE DEF staged
  <2>2. slot'[s] = staged
    BY <1>1, <1>5 DEF ShapeInv
  <2> QED  BY <2>1, <2>2
<1>9. next_sequence \in Nat /\ next_sequence' \in Nat
  BY DEF TypeOK, StageMiss
<1>10. StagedFor(slot'[s], r) /\ (owned => DeviceSmooths(slot'[s]))
  BY <1>4, <1>8 DEF StagedFor, DeviceSmooths
<1>11. active_slot' = s /\ prepared' = [valid |-> FALSE, key |-> KeyOf(r), slot_index |-> s,
                             sigma2 |-> prepared.sigma2]
  BY DEF StageMiss
<1> QED  BY <1>1, <1>2, <1>6, <1>8, <1>9, <1>10, <1>11

\* Queueing all of ops, or the part of it that went in, changes one stream.
LEMMA Queued ==
  ASSUME stream \in [Ids -> Seq(OpKinds)], NEW s \in Ids, NEW ops \in Seq(OpKinds),
         NEW fault, Queue(s, ops) \/ QueuePart(s, ops, fault)
  PROVE  /\ stream' \in [Ids -> Seq(OpKinds)]
         /\ \A t \in Ids \ {s} : stream'[t] = stream[t]
         /\ \A i \in 1 .. Len(stream'[s]) :
              \/ i \in 1 .. Len(stream[s]) /\ stream'[s][i] = stream[s][i]
              \/ \E j \in 1 .. Len(ops) : stream'[s][i] = ops[j]
         /\ Queue(s, ops) => stream'[s] = stream[s] \o ops
<1>1. PICK part \in Seq(OpKinds) :
        /\ stream' = [stream EXCEPT ![s] = stream[s] \o part]
        /\ \A i \in 1 .. Len(part) : \E j \in 1 .. Len(ops) : part[i] = ops[j]
        /\ Queue(s, ops) => part = ops
  <2>1. CASE Queue(s, ops)
    BY <2>1 DEF Queue
  <2>2. CASE QueuePart(s, ops, fault) /\ ~Queue(s, ops)
    <3>1. PICK n \in 0 .. (Len(ops) - 1) : Queue(s, SubSeq(ops, 1, n))
      BY <2>2 DEF QueuePart
    <3>2. /\ SubSeq(ops, 1, n) \in Seq(OpKinds) /\ Len(SubSeq(ops, 1, n)) = n
          /\ \A i \in 1 .. n : SubSeq(ops, 1, n)[i] = ops[i]
      OBVIOUS
    <3>3. \A i \in 1 .. n : i \in 1 .. Len(ops)
      OBVIOUS
    <3> QED  BY <2>2, <3>1, <3>2, <3>3 DEF Queue
  <2> QED  BY <2>1, <2>2
<1>2. stream'[s] = stream[s] \o part /\ stream[s] \in Seq(OpKinds)
  BY <1>1
<1>3. stream'[s] \in Seq(OpKinds) /\ stream' \in [Ids -> Seq(OpKinds)]
  BY <1>1, <1>2
<1>4. \A i \in 1 .. Len(stream'[s]) :
              \/ i \in 1 .. Len(stream[s]) /\ stream'[s][i] = stream[s][i]
              \/ i - Len(stream[s]) \in 1 .. Len(part)
                 /\ stream'[s][i] = part[i - Len(stream[s])]
  BY <1>2
<1>5. \A i \in 1 .. Len(stream'[s]) :
              \/ i \in 1 .. Len(stream[s]) /\ stream'[s][i] = stream[s][i]
              \/ \E j \in 1 .. Len(ops) : stream'[s][i] = ops[j]
  BY <1>1, <1>4
<1>6. \A t \in Ids \ {s} : stream'[t] = stream[t]
  BY <1>1
<1>7. Queue(s, ops) => stream'[s] = stream[s] \o ops
  BY <1>1, <1>2
<1> QED  BY <1>3, <1>5, <1>6, <1>7

-----------------------------------------------------------------------------
(* A synchronous call.                                                     *)

LEMMA RunMissInv ==
  ASSUME RingInv, NEW r \in Requests, RunMiss(r)
  PROVE  RingInv'
<1> USE DEF RingInv
<1> DEFINE s == next_stage_slot
           ops == EstimateOps \o (IF device_owned THEN EqualizeOps ELSE <<>>)
<1>1. /\ BeginCall([kind |-> "run", request |-> r])
      /\ StageMiss(r, device_owned, FALSE)
      /\ \/ Queue(s, ops) /\ pc' = IF device_owned THEN "final" ELSE "mid"
         \/ QueuePart(s, ops, "run") /\ pc' = "idle"
      /\ UNCHANGED <<setup, completed_slot, sigma2_by_cell, dev>>
  BY DEF RunMiss
<1>2. /\ initialized /\ calls' = calls + 1 /\ last' = Nothing
      /\ call' = [kind |-> "run", request |-> r]
  BY <1>1 DEF BeginCall
<1>3. device_owned \in BOOLEAN /\ FALSE \in BOOLEAN
  BY DEF TypeOK
<1>4. /\ s \in Ids /\ active_slot' = s
      /\ next_stage_slot' \in Ids /\ next_stage_slot' < slot_count
      /\ next_sequence' \in Nat
      /\ prepared' = [valid |-> FALSE, key |-> KeyOf(r), slot_index |-> s,
                      sigma2 |-> prepared.sigma2]
      /\ DOMAIN slot' = Ids
      /\ \A t \in Ids \ {s} : slot'[t] = slot[t]
      /\ DOMAIN slot'[s] = DOMAIN BlankSlot
      /\ slot'[s].submitted = FALSE /\ slot'[s].output_ready = FALSE
      /\ slot'[s].owned = device_owned /\ slot'[s].sequence \in Nat
      /\ StagedFor(slot'[s], r)
      /\ device_owned => DeviceSmooths(slot'[s])
  BY <1>1, <1>2, <1>3, StageMissSlot
<1>5. /\ ~device_owned => ops = EstimatingOps
      /\ device_owned => ops = EqualizingMissOps
  BY JoinedOps
<1>6. /\ EstimatingOps \in Seq(OpKinds) /\ Len(EstimatingOps) = 3
      /\ EqualizingMissOps \in Seq(OpKinds) /\ Len(EqualizingMissOps) = 5
  BY DEF EstimatingOps, EqualizingMissOps, OpKinds
<1>7. stream \in [Ids -> Seq(OpKinds)] /\ stream[s] \in Seq(OpKinds) /\ ops \in Seq(OpKinds)
  BY <1>4, <1>5, <1>6 DEF TypeOK
<1> HIDE DEF ops
<1>8. /\ stream' \in [Ids -> Seq(OpKinds)]
      /\ Queue(s, ops) => stream'[s] = stream[s] \o ops
  BY <1>1, <1>4, <1>7, Queued
<1>9. TypeOK'
  <2>1. prepared'.slot_index \in Ids /\ prepared'.valid \in BOOLEAN /\ prepared'.sigma2 \in Nat
    BY <1>4 DEF TypeOK
  <2>2. \A t \in Ids :
          {slot'[t].submitted, slot'[t].output_ready, slot'[t].owned} \subseteq BOOLEAN
    BY <1>4 DEF TypeOK
  <2>3. UNCHANGED <<initialized, config, slot_count, device_owned, inits, completed_slot,
                   sigma2_by_cell>>
        /\ pc' \in Phases
    BY <1>1 DEF setup, Phases
  <2> QED  BY <1>2, <1>4, <1>8, <2>1, <2>2, <2>3 DEF TypeOK
<1>10. ShapeInv'
  BY <1>1, <1>4 DEF ShapeInv, setup, NotPrepared
<1>11. PreparedInv' /\ AnswerInv' /\ BatchInv'
  BY <1>1, <1>2, <1>4 DEF PreparedInv, AnswerInv, BatchInv, Answered, Nothing, BatchPhases
<1>12. SyncInv'
  <2> SUFFICES ASSUME pc' \in SyncPhases PROVE SyncInv'
    BY DEF SyncInv
  <2>1. Queue(s, ops) /\ pc' = IF device_owned THEN "final" ELSE "mid"
    BY <1>1 DEF SyncPhases
  <2>2. stream'[s] = stream[s] \o ops
    BY <1>8, <2>1
  <2>3. ASSUME device_owned PROVE EqualizingMiss(dev'[s], slot'[s], stream'[s], r)
    <3>1. EndsWith(stream'[s], EqualizingMissOps) /\ Len(stream'[s]) \in Nat
          /\ Len(stream'[s]) >= 5
      BY <1>5, <1>6, <1>7, <2>2, <2>3, EndsWithQueued
    <3> QED  BY <1>4, <2>3, <3>1 DEF EqualizingMiss, EqualizingMissAt
  <2>4. ASSUME ~device_owned PROVE Estimating(dev'[s], slot'[s], stream'[s], r)
    <3>1. EndsWith(stream'[s], EstimatingOps) /\ Len(stream'[s]) \in Nat
          /\ Len(stream'[s]) >= 3
      BY <1>5, <1>6, <1>7, <2>2, <2>4, EndsWithQueued
    <3> QED  BY <1>3, <1>4, <2>4, <3>1 DEF Estimating, EstimatingAt
  <2>5. UNCHANGED <<initialized, config, device_owned>>
    BY <1>1 DEF setup
  <2>6. call'.request = r
    BY <1>2
  <2> QED  BY <1>2, <1>4, <2>1, <2>3, <2>4, <2>5, <2>6, SameConfig DEF SyncInv
<1> QED  BY <1>9, <1>10, <1>11, <1>12

\* What reuses the channel ends with the equalisation, after one more operation.
LEMMA EndsWithEqualize ==
  ASSUME NEW first, NEW q \in Seq(OpKinds), Len(q) >= 3,
         EndsWith(q, <<first, "equalize", "d2h_out">>)
  PROVE  EndsWith(q, EqualizeOps) /\ q[Len(q) - 2] = first
<1> DEFINE ops == <<first, "equalize", "d2h_out">>
<1>1. Len(ops) = 3 /\ ops[1] = first /\ ops[2] = "equalize" /\ ops[3] = "d2h_out"
  OBVIOUS
<1>2. Len(EqualizeOps) = 2 /\ EqualizeOps[1] = "equalize" /\ EqualizeOps[2] = "d2h_out"
  BY DEF EqualizeOps
<1>3. EndsWith(q, ops)
  OBVIOUS
<1> HIDE DEF ops
<1>4. \A i \in 1 .. 3 : q[Len(q) - i + 1] = ops[3 - i + 1]
  BY <1>1, <1>3 DEF EndsWith
<1>5. q[Len(q) - 3 + 1] = ops[1] /\ q[Len(q) - 2 + 1] = ops[2] /\ q[Len(q) - 1 + 1] = ops[3]
  BY <1>4
<1>6. Len(q) - 3 + 1 = Len(q) - 2
  OBVIOUS
<1>7. \A i \in 1 .. 2 : q[Len(q) - i + 1] = EqualizeOps[2 - i + 1]
  <2>1. \A i \in 1 .. 2 : i = 1 \/ i = 2
    OBVIOUS
  <2> QED  BY <1>1, <1>2, <1>5, <2>1
<1> QED  BY <1>1, <1>2, <1>5, <1>6, <1>7 DEF EndsWith

LEMMA RunHitInv ==
  ASSUME RingInv, NEW r \in Requests, RunHit(r)
  PROVE  RingInv'
<1> USE DEF RingInv
<1> DEFINE s == prepared.slot_index
<1>1. /\ prepared.valid /\ prepared.key = KeyOf(r)
      /\ BeginCall([kind |-> "run", request |-> r])
      /\ StageHit(r)
      /\ \/ Queue(s, ReuseOps) /\ pc' = "final"
         \/ QueuePart(s, ReuseOps, "run") /\ pc' = "idle"
      /\ UNCHANGED <<setup, completed_slot, sigma2_by_cell, dev>>
  BY DEF RunHit, Hit
<1>2. /\ initialized /\ calls' = calls + 1 /\ last' = Nothing
      /\ call' = [kind |-> "run", request |-> r]
  BY <1>1 DEF BeginCall
<1>3. /\ active_slot' = s
      /\ slot' = [slot EXCEPT ![s].meta = r]
      /\ UNCHANGED <<next_stage_slot, next_sequence, prepared>>
  BY <1>1 DEF StageHit
<1>4. s \in Ids /\ stream \in [Ids -> Seq(OpKinds)]
  BY DEF TypeOK
<1>5. /\ DOMAIN slot' = Ids
      /\ \A t \in Ids : /\ DOMAIN slot'[t] = DOMAIN BlankSlot
                        /\ slot'[t].submitted = slot[t].submitted
                        /\ slot'[t].output_ready = slot[t].output_ready
                        /\ slot'[t].owned = slot[t].owned
                        /\ slot'[t].sequence = slot[t].sequence
                        /\ slot'[t].sigma2_host = slot[t].sigma2_host
      /\ slot'[s].meta = r
  BY <1>3, <1>4 DEF ShapeInv, BlankSlot
<1>6. /\ ReuseOps \in Seq(OpKinds) /\ Len(ReuseOps) = 3
      /\ \A j \in 1 .. Len(ReuseOps) : ReuseOps[j] \in ReuseKinds /\ ReuseOps[j] # "h2d_sigma2"
  <2>1. \A j \in 1 .. 3 : j = 1 \/ j = 2 \/ j = 3
    OBVIOUS
  <2>2. ReuseOps = <<"h2d_meta", "equalize", "d2h_out">>
    BY ReuseOpsJoined
  <2> QED  BY <2>1, <2>2 DEF OpKinds, ReuseKinds
<1>7. /\ stream' \in [Ids -> Seq(OpKinds)]
      /\ \A i \in 1 .. Len(stream'[s]) :
              \/ i \in 1 .. Len(stream[s]) /\ stream'[s][i] = stream[s][i]
              \/ \E j \in 1 .. Len(ReuseOps) : stream'[s][i] = ReuseOps[j]
      /\ Queue(s, ReuseOps) => stream'[s] = stream[s] \o ReuseOps
  BY <1>1, <1>4, <1>6, Queued
<1>8. UNCHANGED <<initialized, config, slot_count, device_owned, inits, completed_slot,
                  sigma2_by_cell, dev>>
      /\ pc' \in Phases
  BY <1>1 DEF setup, Phases
<1>9. TypeOK'
  BY <1>2, <1>3, <1>4, <1>5, <1>7, <1>8 DEF TypeOK
<1>10. ShapeInv'
  BY <1>3, <1>5, <1>8 DEF ShapeInv
<1>11. PreparedOn(dev'[s], slot'[s], stream'[s], KeyOf(r))
  <2>1. PreparedOn(dev[s], slot[s], stream[s], KeyOf(r))
    BY <1>1 DEF PreparedInv
  <2> QED  BY <1>4, <1>5, <1>6, <1>7, <1>8, <2>1 DEF PreparedOn
<1>12. PreparedInv'
  BY <1>1, <1>3, <1>8, <1>11, SameConfig DEF PreparedInv
<1>13. AnswerInv' /\ BatchInv'
  BY <1>1, <1>2 DEF AnswerInv, BatchInv, Answered, Nothing, BatchPhases
<1>14. SyncInv'
  <2> SUFFICES ASSUME pc' \in SyncPhases PROVE SyncInv'
    BY DEF SyncInv
  <2>1. Queue(s, ReuseOps) /\ pc' = "final"
    BY <1>1 DEF SyncPhases
  <2>2. stream'[s] = stream[s] \o ReuseOps /\ stream[s] \in Seq(OpKinds)
    BY <1>4, <1>7, <2>1
  <2>3. stream'[s] \in Seq(OpKinds) /\ Len(stream'[s]) \in Nat /\ Len(stream'[s]) >= 3
        /\ EndsWith(stream'[s], ReuseOps)
    BY <1>6, <2>2, EndsWithQueued
  <2>4. EndsWith(stream'[s], EqualizeOps) /\ stream'[s][Len(stream'[s]) - 2] = "h2d_meta"
    BY <2>3, EndsWithEqualize, ReuseOpsJoined
  <2>5. Equalizing(dev'[s], slot'[s], stream'[s], r)
    BY <1>5, <2>3, <2>4 DEF Equalizing, EqualizingAt
  <2>6. call'.request = r
    BY <1>2
  <2> QED  BY <1>1, <1>2, <1>3, <1>8, <2>1, <2>5, <2>6, SameConfig DEF SyncInv
<1> QED  BY <1>9, <1>10, <1>12, <1>13, <1>14

\* Smoothing leaves a floored noise, which the device then equalises with.
LEMMA MidSyncInv ==
  ASSUME RingInv, MidSync
  PROVE  RingInv'
<1> USE DEF RingInv
<1> DEFINE s == active_slot
           r == call.request
           cell == call.request.cell_id
           state == update_sigma2_state(sigma2_by_cell[cell], slot[s].estimate, config)
<1>1. /\ pc = "mid"
      /\ stream[s] = <<>>
      /\ sigma2_by_cell' = [sigma2_by_cell EXCEPT ![cell] = state]
      /\ prepared' = [prepared EXCEPT !.sigma2 = state.value, !.valid = TRUE]
      /\ slot' = [slot EXCEPT ![s].sigma2_host = state.value]
      /\ \/ Queue(s, NoisyEqualizeOps) /\ pc' = "final"
         \/ QueuePart(s, NoisyEqualizeOps, "run") /\ pc' = "idle"
      /\ UNCHANGED <<setup, next_stage_slot, active_slot, completed_slot, next_sequence,
                     dev, call, last, calls>>
  BY DEF MidSync, Idle
<1>2. /\ initialized
      /\ call = [kind |-> "run", request |-> r] /\ r \in Requests
      /\ last = Nothing
      /\ prepared.slot_index = s /\ prepared.key = KeyOf(r)
      /\ Estimating(dev[s], slot[s], stream[s], r)
  BY <1>1 DEF SyncInv, SyncPhases
<1>3. s \in Ids /\ stream \in [Ids -> Seq(OpKinds)] /\ config \in Configs
  BY DEF TypeOK
<1>4. SamplesOn(dev[s], r) /\ ChannelOn(dev[s], r) /\ slot[s].estimate \in Nat /\ StagedFor(slot[s], r)
  BY <1>1, <1>2 DEF Estimating, EstimatingAt
<1>5. cell \in Cells
  BY <1>2, RequestsAssumption
<1>6. sigma2_by_cell[cell] \in NoiseStates
  BY <1>5 DEF TypeOK
<1>7. state \in NoiseStates /\ state.value >= config.sigma2_min
  BY <1>3, <1>4, <1>6, UpdateFloors
<1> HIDE DEF state, cell, r
<1>8. state.value \in Nat /\ Floored(state.value)
  BY <1>7 DEF NoiseStates, Floored
<1>9. /\ DOMAIN slot' = Ids
      /\ \A t \in Ids : /\ DOMAIN slot'[t] = DOMAIN BlankSlot
                        /\ slot'[t].submitted = slot[t].submitted
                        /\ slot'[t].output_ready = slot[t].output_ready
                        /\ slot'[t].owned = slot[t].owned
                        /\ slot'[t].sequence = slot[t].sequence
      /\ slot'[s].meta = slot[s].meta /\ slot'[s].sigma2_host = state.value
  BY <1>1, <1>3 DEF ShapeInv, BlankSlot
<1>10. /\ DOMAIN prepared' = DOMAIN NotPrepared
       /\ prepared'.valid = TRUE /\ prepared'.sigma2 = state.value
       /\ prepared'.slot_index = s /\ prepared'.key = KeyOf(r)
  BY <1>1, <1>2 DEF ShapeInv, NotPrepared
<1>11. /\ NoisyEqualizeOps \in Seq(OpKinds) /\ Len(NoisyEqualizeOps) = 3
       /\ \A j \in 1 .. Len(NoisyEqualizeOps) : NoisyEqualizeOps[j] \in ReuseKinds
  <2>1. \A j \in 1 .. 3 : j = 1 \/ j = 2 \/ j = 3
    OBVIOUS
  <2>2. NoisyEqualizeOps = <<"h2d_sigma2", "equalize", "d2h_out">>
    BY ReuseOpsJoined
  <2> QED  BY <2>1, <2>2 DEF OpKinds, ReuseKinds
<1>12. /\ stream' \in [Ids -> Seq(OpKinds)]
       /\ \A i \in 1 .. Len(stream'[s]) :
              \/ i \in 1 .. Len(stream[s]) /\ stream'[s][i] = stream[s][i]
              \/ \E j \in 1 .. Len(NoisyEqualizeOps) : stream'[s][i] = NoisyEqualizeOps[j]
       /\ Queue(s, NoisyEqualizeOps) => stream'[s] = stream[s] \o NoisyEqualizeOps
  BY <1>1, <1>3, <1>11, Queued
<1>13. UNCHANGED <<initialized, config, slot_count, device_owned, inits>> /\ pc' \in Phases
  BY <1>1 DEF setup, Phases
<1>14. TypeOK'
  <2>1. sigma2_by_cell' \in [Cells -> NoiseStates]
    BY <1>1, <1>7 DEF TypeOK
  <2>2. prepared'.slot_index \in Ids /\ prepared'.valid \in BOOLEAN /\ prepared'.sigma2 \in Nat
    BY <1>3, <1>8, <1>10
  <2> QED  BY <1>1, <1>9, <1>12, <1>13, <2>1, <2>2 DEF TypeOK
<1>15. ShapeInv'
  BY <1>1, <1>9, <1>10, <1>13 DEF ShapeInv
<1>16. PreparedOn(dev'[s], slot'[s], stream'[s], KeyOf(r))
  <2>1. ChannelOn(dev'[s], KeyOf(r))
    BY <1>1, <1>4 DEF ChannelOn, KeyOf
  <2>2. \A i \in 1 .. Len(stream'[s]) : stream'[s][i] \in ReuseKinds
    BY <1>1, <1>11, <1>12
  <2> QED  BY <1>8, <1>9, <2>1, <2>2 DEF PreparedOn
<1>17. PreparedInv'
  BY <1>10, <1>13, <1>16, SameConfig DEF PreparedInv
<1>18. AnswerInv' /\ BatchInv'
  BY <1>1, <1>2 DEF AnswerInv, BatchInv, Answered, Nothing, BatchPhases
<1>19. SyncInv'
  <2> SUFFICES ASSUME pc' \in SyncPhases PROVE SyncInv'
    BY DEF SyncInv
  <2>1. Queue(s, NoisyEqualizeOps) /\ pc' = "final"
    BY <1>1 DEF SyncPhases
  <2>2. stream'[s] = stream[s] \o NoisyEqualizeOps /\ stream[s] \in Seq(OpKinds)
    BY <1>3, <1>12, <2>1
  <2>3. stream'[s] \in Seq(OpKinds) /\ Len(stream'[s]) \in Nat /\ Len(stream'[s]) >= 3
        /\ EndsWith(stream'[s], NoisyEqualizeOps)
    BY <1>11, <2>2, EndsWithQueued
  <2>4. EndsWith(stream'[s], EqualizeOps)
    BY <2>3, EndsWithEqualize, ReuseOpsJoined
  <2>5. dev'[s].meta = r /\ slot'[s].meta = r
    BY <1>1, <1>4, <1>9 DEF SamplesOn, StagedFor
  <2>6. Equalizing(dev'[s], slot'[s], stream'[s], r)
    BY <2>3, <2>4, <2>5 DEF Equalizing, EqualizingAt
  <2>7. UNCHANGED <<active_slot, call, last, initialized>>
    BY <1>1, <1>13
  <2>8. call'.request = r
    BY <2>7 DEF r
  <2> QED  BY <1>2, <1>10, <1>13, <2>1, <2>6, <2>7, <2>8, SameConfig DEF SyncInv
<1> QED  BY <1>14, <1>15, <1>17, <1>18, <1>19

\* The outputs a synchronous call finds are those of its request.
LEMMA FinishInv ==
  ASSUME RingInv, NEW outcome \in {"ok", "too_small", "invalid"}, Finish(outcome)
  PROVE  RingInv'
<1> USE DEF RingInv
<1> DEFINE s == active_slot
           r == call.request
           noise_power == slot[s].out.sigma2
           state == [initialized |-> TRUE, value |-> noise_power]
<1>1. /\ pc = "final"
      /\ stream[s] = <<>>
      /\ IF device_owned
         THEN /\ sigma2_by_cell' = [sigma2_by_cell EXCEPT ![call.request.cell_id] = state]
              /\ prepared' = [prepared EXCEPT !.sigma2 = noise_power, !.valid = TRUE]
         ELSE UNCHANGED noise
      /\ IF outcome = "invalid"
         THEN UNCHANGED <<slot, completed_slot>>
         ELSE /\ slot' = [slot EXCEPT ![s].output_ready = TRUE]
              /\ completed_slot' = s
      /\ IF outcome = "ok"
         THEN last' = [status |-> "ok", request |-> call.request,
                       answer |-> [symbols |-> slot[completed_slot'].out,
                                   candidates |-> call.request]]
         ELSE UNCHANGED last
      /\ pc' = "idle"
      /\ UNCHANGED <<setup, next_stage_slot, active_slot, next_sequence, device, call, calls>>
  BY DEF Finish, Idle
<1>2. /\ initialized /\ r \in Requests /\ last = Nothing
      /\ prepared.slot_index = s /\ prepared.key = KeyOf(r)
      /\ IF prepared.valid THEN Equalizing(dev[s], slot[s], stream[s], r)
         ELSE device_owned /\ EqualizingMiss(dev[s], slot[s], stream[s], r)
  BY <1>1 DEF SyncInv, SyncPhases
<1>3. s \in Ids /\ config \in Configs
  BY DEF TypeOK
<1>4. SymbolsFor(slot[s].out, r)
  BY <1>1, <1>2 DEF Equalizing, EqualizingAt, EqualizingMiss, EqualizingMissAt
<1>5. ChannelOn(dev[s], KeyOf(r))
  <2>1. CASE prepared.valid
    BY <1>2, <2>1 DEF PreparedInv, PreparedOn
  <2>2. CASE ~prepared.valid
    BY <1>1, <1>2, <2>2 DEF EqualizingMiss, EqualizingMissAt, ChannelOn, KeyOf
  <2> QED  BY <2>1, <2>2
<1>6. noise_power \in Nat
  BY <1>4 DEF SymbolsFor, Floored
<1>7. r.cell_id \in Cells
  BY <1>2, RequestsAssumption
<1>8. state \in NoiseStates
  BY <1>6 DEF NoiseStates
<1> HIDE DEF r, noise_power, state
<1>9. sigma2_by_cell' \in [Cells -> NoiseStates]
  BY <1>1, <1>8 DEF TypeOK, noise
<1>10. /\ DOMAIN prepared' = DOMAIN NotPrepared
       /\ prepared'.slot_index = s /\ prepared'.key = KeyOf(r)
       /\ prepared'.valid \in BOOLEAN /\ prepared'.sigma2 \in Nat
  <2>1. CASE device_owned
    <3>1. prepared' = [prepared EXCEPT !.sigma2 = noise_power, !.valid = TRUE]
      BY <1>1, <2>1
    <3> QED  BY <1>2, <1>6, <3>1 DEF ShapeInv, NotPrepared
  <2>2. CASE ~device_owned
    BY <1>1, <1>2, <2>2 DEF ShapeInv, TypeOK, noise
  <2> QED  BY <2>1, <2>2
<1>11. /\ DOMAIN slot' = Ids
       /\ \A t \in Ids : /\ DOMAIN slot'[t] = DOMAIN BlankSlot
                         /\ slot'[t].submitted = slot[t].submitted
                         /\ slot'[t].output_ready \in BOOLEAN
                         /\ slot'[t].owned = slot[t].owned
                         /\ slot'[t].sequence = slot[t].sequence
  <2>1. CASE outcome = "invalid"
    BY <1>1, <2>1 DEF ShapeInv, TypeOK
  <2>2. CASE outcome # "invalid"
    <3>1. slot' = [slot EXCEPT ![s].output_ready = TRUE]
      BY <1>1, <2>2
    <3> QED  BY <1>3, <3>1 DEF ShapeInv, BlankSlot, TypeOK
  <2> QED  BY <2>1, <2>2
<1>12. UNCHANGED <<initialized, config, slot_count, device_owned, inits, dev, stream>>
  BY <1>1 DEF setup, device
<1>13. completed_slot' \in Ids
  BY <1>1, <1>3 DEF TypeOK
<1>14. TypeOK'
  <2>1. pc' \in Phases
    BY <1>1 DEF Phases
  <2> QED  BY <1>1, <1>3, <1>9, <1>10, <1>11, <1>12, <1>13, <2>1 DEF TypeOK
<1>15. ShapeInv'
  BY <1>1, <1>10, <1>11, <1>12 DEF ShapeInv
<1>16. PreparedOn(dev'[s], slot'[s], stream'[s], KeyOf(r))
  BY <1>1, <1>5, <1>12 DEF PreparedOn
<1>17. PreparedInv'
  BY <1>10, <1>12, <1>16, SameConfig DEF PreparedInv
<1>18. SyncInv' /\ BatchInv'
  BY <1>1 DEF SyncInv, BatchInv, SyncPhases, BatchPhases
<1>19. AnswerInv'
  <2> SUFFICES ASSUME Answered' PROVE AnswerInv'
    BY DEF AnswerInv
  <2>1. outcome = "ok"
    BY <1>1, <1>2 DEF Answered, Nothing
  <2>2. completed_slot' = s
    BY <1>1, <2>1
  <2>3. /\ last'.request = r /\ last'.answer.candidates = r
        /\ last'.answer.symbols = slot[s].out
    BY <1>1, <2>1, <2>2 DEF r
  <2>4. SymbolsFor(last'.answer.symbols, last'.request)
    BY <1>4, <2>3
  <2> QED  BY <1>12, <2>3, <2>4, SameConfig DEF AnswerInv
<1> QED  BY <1>14, <1>15, <1>17, <1>18, <1>19

\* A stream that has stopped is an empty one.
LEMMA Stopped ==
  ASSUME TypeOK, NEW s \in Ids, SyncFails(s)
  PROVE  /\ stream' \in [Ids -> Seq(OpKinds)]
         /\ \A t \in Ids \ {s} : stream'[t] = stream[t]
         /\ \A d, h, r : PreparedOn(d, h, stream[s], r) => PreparedOn(d, h, stream'[s], r)
<1>1. stream' = [stream EXCEPT ![s] = <<>>] /\ stream \in [Ids -> Seq(OpKinds)]
  BY DEF TypeOK, SyncFails
<1>2. stream'[s] = <<>> /\ <<>> \in Seq(OpKinds)
  BY <1>1
<1>3. \A d, h, r : PreparedOn(d, h, stream[s], r) => PreparedOn(d, h, stream'[s], r)
  BY <1>2 DEF PreparedOn
<1> QED  BY <1>1, <1>2, <1>3

LEMMA RunSyncFailsInv ==
  ASSUME RingInv, RunSyncFails
  PROVE  RingInv'
<1> USE DEF RingInv
<1>1. /\ SyncFails(active_slot) /\ pc' = "idle"
      /\ UNCHANGED <<initialized, config, slot_count, device_owned, inits, slot,
                     next_stage_slot, active_slot, completed_slot, next_sequence, prepared,
                     sigma2_by_cell, dev, call, last, calls>>
  BY DEF RunSyncFails, setup, ring, noise
<1>2. active_slot \in Ids
  BY DEF TypeOK
<1>3. /\ stream' \in [Ids -> Seq(OpKinds)]
      /\ \A t \in Ids : \A r : PreparedOn(dev[t], slot[t], stream[t], r) =>
                           PreparedOn(dev[t], slot[t], stream'[t], r)
  BY <1>1, <1>2, Stopped
<1>4. TypeOK'
  BY <1>1, <1>3 DEF TypeOK, Phases
<1>5. ShapeInv'
  BY <1>1 DEF ShapeInv
<1>6. PreparedInv'
  BY <1>1, <1>3, SameConfig DEF PreparedInv, TypeOK
<1>7. SyncInv' /\ BatchInv'
  BY <1>1 DEF SyncInv, BatchInv, SyncPhases, BatchPhases
<1>8. AnswerInv'
  BY <1>1, SameConfig DEF AnswerInv, Answered
<1> QED  BY <1>4, <1>5, <1>6, <1>7, <1>8

-----------------------------------------------------------------------------
(* A batch.                                                                *)

\* Going back up to once around the ring meets each slot once.
LEMMA BehindInjective ==
  ASSUME slot_count \in Nat \ {0}, next_stage_slot \in Nat, next_stage_slot < slot_count,
         NEW m \in 1 .. slot_count, NEW n \in 1 .. slot_count
  PROVE  /\ Behind(m) = Behind(n) => m = n
         /\ m < slot_count => Behind(m) # next_stage_slot
BY DEF Behind

\* Staging a slot puts it one place behind the next one, and the others one further.
LEMMA BehindNext ==
  ASSUME slot_count \in Nat \ {0}, next_stage_slot \in Nat, next_stage_slot < slot_count,
         slot_count' = slot_count, next_stage_slot' = (next_stage_slot + 1) % slot_count
  PROVE  /\ Behind(1)' = next_stage_slot
         /\ \A n \in 1 .. (slot_count - 1) : Behind(n + 1)' = Behind(n)
<1>1. next_stage_slot' = IF next_stage_slot + 1 = slot_count THEN 0 ELSE next_stage_slot + 1
  OBVIOUS
<1>2. Behind(1)' = next_stage_slot
  BY <1>1 DEF Behind
<1>3. ASSUME NEW n \in 1 .. (slot_count - 1) PROVE Behind(n + 1)' = Behind(n)
  BY <1>1 DEF Behind
<1> QED  BY <1>2, <1>3

LEMMA BatchBeginInv ==
  ASSUME RingInv, NEW family \in Families, NEW rs \in Batches, BatchBegin(family, rs)
  PROVE  RingInv'
<1> USE DEF RingInv
<1> DEFINE fresh == [kind |-> family, requests |-> rs, group |-> 0, next |-> 1, done |-> 0,
                     pending |-> <<>>]
<1>1. /\ initialized /\ calls' = calls + 1 /\ call' = fresh /\ last' = Nothing
      /\ pc' = "submit"
      /\ UNCHANGED <<initialized, config, slot_count, device_owned, inits, slot,
                     next_stage_slot, active_slot, completed_slot, next_sequence, prepared,
                     sigma2_by_cell, stream, dev>>
  BY DEF BatchBegin, BeginCall, setup, ring, noise, device
<1>2. rs \in Seq(Requests) /\ Len(rs) \in Nat /\ Len(rs) >= 1
  <2>1. rs \in Seq(Requests) /\ rs # <<>>
    BY RequestsAssumption
  <2> QED  BY <2>1
<1>3. slot_count \in Nat /\ slot_count >= 1
  BY <1>1, MaxSlotsAssumption DEF TypeOK, ShapeInv
<1>4. TypeOK'
  BY <1>1 DEF TypeOK, Phases
<1>5. ShapeInv'
  BY <1>1 DEF ShapeInv
<1>6. PreparedInv'
  BY <1>1, SameConfig DEF PreparedInv
<1>7. SyncInv' /\ AnswerInv'
  BY <1>1 DEF SyncInv, AnswerInv, SyncPhases, Answered, Nothing
<1>8. BatchInv'
  <2>1. fresh \in BatchCalls
    BY <1>2 DEF BatchCalls
  <2>2. /\ call'.done = 0 /\ call'.group = 0 /\ call'.next = 1 /\ call'.pending = <<>>
        /\ call'.requests = rs
    BY <1>1
  <2>3. call'.next <= GroupEnd'
    BY <1>1, <1>2, <1>3, <2>2 DEF GroupEnd, AtMost
  <2>4. PendingRound(call.pending)'
    BY <1>1, <1>3, <2>2 DEF PendingRound
  <2> HIDE DEF fresh
  <2> QED  BY <1>1, <2>1, <2>2, <2>3, <2>4 DEF BatchInv
<1> QED  BY <1>4, <1>5, <1>6, <1>7, <1>8

\* What a batch does to the ring when it does not stage: streams stop, and slots
\* are no longer marked as submitted.
Settles ==
  /\ UNCHANGED <<initialized, config, slot_count, device_owned, inits, next_stage_slot,
                 active_slot, next_sequence, prepared, sigma2_by_cell, dev, calls>>
  /\ completed_slot' \in Ids
  /\ pc' \in BatchPhases \cup {"idle"}
  /\ stream' = stream \/ \E s \in Ids : SyncFails(s)
  /\ slot' = slot \/ \E s \in Ids : slot' = [slot EXCEPT ![s].submitted = FALSE]

LEMMA SettlesKeeps ==
  ASSUME RingInv, Settles
  PROVE  TypeOK' /\ ShapeInv' /\ PreparedInv' /\ SyncInv'
<1> USE DEF RingInv
<1>1. /\ UNCHANGED <<initialized, config, slot_count, device_owned, inits, next_stage_slot,
                 active_slot, next_sequence, prepared, sigma2_by_cell, dev, calls>>
      /\ completed_slot' \in Ids
      /\ pc' \in BatchPhases \cup {"idle"}
  BY DEF Settles
<1>2. /\ stream' \in [Ids -> Seq(OpKinds)]
      /\ \A t \in Ids : \A d, h, r : PreparedOn(d, h, stream[t], r) => PreparedOn(d, h, stream'[t], r)
  <2>1. CASE stream' = stream
    BY <2>1 DEF TypeOK
  <2>2. ASSUME NEW s \in Ids, SyncFails(s)
        PROVE  <1>2!1 /\ <1>2!2
    BY <2>2, Stopped
  <2> QED  BY <2>1, <2>2 DEF Settles
<1>3. /\ DOMAIN slot' = Ids
      /\ \A t \in Ids : /\ DOMAIN slot'[t] = DOMAIN BlankSlot
                        /\ slot'[t].submitted \in BOOLEAN
                        /\ slot'[t].output_ready = slot[t].output_ready
                        /\ slot'[t].owned = slot[t].owned
                        /\ slot'[t].sequence = slot[t].sequence
                        /\ slot'[t].sigma2_host = slot[t].sigma2_host
  <2>1. CASE slot' = slot
    BY <2>1 DEF TypeOK, ShapeInv
  <2>2. ASSUME NEW s \in Ids, slot' = [slot EXCEPT ![s].submitted = FALSE]
        PROVE  <1>3!1 /\ <1>3!2
    BY <2>2 DEF TypeOK, ShapeInv, BlankSlot
  <2> QED  BY <2>1, <2>2 DEF Settles
<1>4. TypeOK'
  <2>1. pc' \in Phases
    BY <1>1 DEF Phases, BatchPhases
  <2> QED  BY <1>1, <1>2, <1>3, <2>1 DEF TypeOK
<1>5. ShapeInv'
  BY <1>1, <1>3 DEF ShapeInv
<1>6. PreparedInv'
  <2> SUFFICES ASSUME prepared.valid PROVE PreparedInv'
    BY <1>1 DEF PreparedInv
  <2> DEFINE s == prepared.slot_index
  <2>1. s \in Ids /\ s' = s
    BY <1>1 DEF TypeOK
  <2>2. PreparedOn(dev[s], slot[s], stream[s], prepared.key)
    BY DEF PreparedInv
  <2>3. PreparedOn(dev[s], slot[s], stream'[s], prepared.key)
    BY <1>2, <2>1, <2>2
  <2>4. PreparedOn(dev'[s], slot'[s], stream'[s], prepared.key)
    BY <1>1, <1>3, <2>1, <2>3 DEF PreparedOn
  <2> QED  BY <1>1, <2>1, <2>4, SameConfig DEF PreparedInv
<1>7. SyncInv'
  BY <1>1 DEF SyncInv, SyncPhases, BatchPhases
<1> QED  BY <1>4, <1>5, <1>6, <1>7

\* A submission that gives up leaves what is pending to be discarded.
LEMMA GiveUpInv ==
  ASSUME RingInv, pc \in BatchPhases, Settles, call' \in BatchCalls, last' = last,
         GiveUp(call'.pending)
  PROVE  RingInv'
<1>1. TypeOK' /\ ShapeInv' /\ PreparedInv' /\ SyncInv'
  BY SettlesKeeps
<1>2. initialized /\ initialized' = initialized /\ config' = config
  BY DEF RingInv, BatchInv, Settles
<1>3. BatchInv'
  BY <1>2 DEF GiveUp, BatchInv, BatchPhases
<1>4. AnswerInv'
  BY <1>2, SameConfig DEF RingInv, AnswerInv, Answered
<1> QED  BY <1>1, <1>3, <1>4 DEF RingInv

LEMMA SubmitRejectedInv ==
  ASSUME RingInv, SubmitRejected
  PROVE  RingInv'
<1>1. pc \in BatchPhases /\ call \in BatchCalls /\ completed_slot \in Ids
  BY DEF SubmitRejected, RingInv, BatchInv, BatchPhases, TypeOK
<1>2. Settles
  BY <1>1 DEF SubmitRejected, Settles, GiveUp, BatchPhases, setup, ring, noise, device
<1>3. call' = call /\ last' = last /\ GiveUp(call'.pending)
  BY DEF SubmitRejected, GiveUp
<1> QED  BY <1>1, <1>2, <1>3, GiveUpInv

LEMMA GuardInv ==
  ASSUME RingInv, Guard
  PROVE  RingInv'
<1>1. pc \in BatchPhases /\ call \in BatchCalls /\ completed_slot \in Ids /\ active_slot \in Ids
  BY DEF Guard, RingInv, BatchInv, BatchPhases, TypeOK
<1>2. Settles
  BY <1>1 DEF Guard, Settles, GiveUp, BatchPhases, setup, ring, noise, device
<1>3. call' = call /\ last' = last /\ GiveUp(call'.pending)
  BY DEF Guard, GiveUp
<1> QED  BY <1>1, <1>2, <1>3, GiveUpInv

\* Taking the first pending slot off the list.
LEMMA PendingTail ==
  ASSUME call \in BatchCalls, call.pending # <<>>
  PROVE  /\ Collected \in Ids /\ Collected = call.pending[1]
         /\ Tail(call.pending) \in Seq(Ids)
         /\ Len(call.pending) \in Nat /\ Len(call.pending) >= 1
         /\ Len(Tail(call.pending)) = Len(call.pending) - 1
         /\ \A i \in 1 .. Len(Tail(call.pending)) :
              i + 1 \in 1 .. Len(call.pending) /\ Tail(call.pending)[i] = call.pending[i + 1]
         /\ [call EXCEPT !.pending = Tail(@)] \in BatchCalls
<1>1. call.pending \in Seq(Ids)
  BY DEF BatchCalls
<1>2. Tail(call.pending) \in Seq(Ids)
  BY <1>1
<1>3. [call EXCEPT !.pending = Tail(@)] \in BatchCalls
  BY <1>2 DEF BatchCalls
<1> QED  BY <1>1, <1>2, <1>3 DEF Collected

LEMMA DiscardInv ==
  ASSUME RingInv, Discard
  PROVE  RingInv'
<1>1. /\ pc \in BatchPhases /\ call \in BatchCalls /\ completed_slot \in Ids
      /\ call.pending # <<>>
  BY DEF Discard, RingInv, BatchInv, BatchPhases, TypeOK
<1>2. Collected \in Ids
  BY <1>1, PendingTail
<1>3. Settles
  BY <1>1, <1>2 DEF Discard, Settles, GiveUp, BatchPhases, setup, noise
<1>4. call' = [call EXCEPT !.pending = Tail(@)] /\ last' = last
      /\ GiveUp(Tail(call.pending))
  BY DEF Discard
<1>5. call'.pending = Tail(call.pending) /\ call' \in BatchCalls
  BY <1>1, <1>4, PendingTail DEF BatchCalls
<1> QED  BY <1>1, <1>3, <1>4, <1>5, GiveUpInv DEF GiveUp

LEMMA CollectFailsInv ==
  ASSUME RingInv, CollectFails
  PROVE  RingInv'
<1>1. /\ pc \in BatchPhases /\ call \in BatchCalls /\ completed_slot \in Ids
      /\ call.pending # <<>>
  BY DEF CollectFails, RingInv, BatchInv, BatchPhases, TypeOK
<1>2. Collected \in Ids
  BY <1>1, PendingTail
<1>3. Settles
  BY <1>1, <1>2 DEF CollectFails, Settles, GiveUp, BatchPhases, setup, noise
<1>4. call' = [call EXCEPT !.pending = Tail(@)] /\ last' = last
      /\ IF call.kind = "fixed" THEN GiveUp(Tail(call.pending)) ELSE pc' = "idle"
  BY DEF CollectFails
<1>5. call'.pending = Tail(call.pending) /\ call' \in BatchCalls
  BY <1>1, <1>4, PendingTail DEF BatchCalls
<1>6. CASE call.kind = "fixed"
  BY <1>1, <1>3, <1>4, <1>5, <1>6, GiveUpInv DEF GiveUp
<1>7. CASE call.kind # "fixed"
  <2>1. TypeOK' /\ ShapeInv' /\ PreparedInv' /\ SyncInv'
    BY <1>3, SettlesKeeps
  <2>2. pc' = "idle" /\ config' = config
    BY <1>3, <1>4, <1>7 DEF Settles
  <2>3. BatchInv' /\ AnswerInv'
    BY <1>4, <2>2, SameConfig DEF RingInv, BatchInv, AnswerInv, Answered, BatchPhases
  <2> QED  BY <2>1, <2>3 DEF RingInv
<1> QED  BY <1>6, <1>7

LEMMA EmptyQueue ==
  ASSUME NEW q \in Seq(Ids)
  PROVE  q = <<>> <=> Len(q) = 0
OBVIOUS

LEMMA CollectInv ==
  ASSUME RingInv, Collect
  PROVE  RingInv'
<1> USE DEF RingInv
<1> DEFINE s == Collected
           n == Len(call.pending)
<1>1. /\ pc = "collect" /\ slot[s].submitted /\ stream[s] = <<>>
      /\ slot' = [slot EXCEPT ![s].submitted = FALSE]
      /\ completed_slot' = s
      /\ last' = [status |-> "ok", request |-> call.requests[call.done + 1],
                  answer |-> slot[s].result]
      /\ call' = [call EXCEPT !.done = @ + 1, !.pending = Tail(@),
                              !.group = IF n = 1 THEN call.done + 1 ELSE @]
      /\ pc' = IF call.done + 1 = Len(call.requests) THEN "idle"
               ELSE IF n = 1 THEN "submit" ELSE "collect"
      /\ UNCHANGED <<setup, next_stage_slot, active_slot, next_sequence, noise, device, calls>>
  BY DEF Collect, Idle
<1>2. UNCHANGED <<initialized, config, slot_count, device_owned, inits, prepared,
                  sigma2_by_cell, stream, dev, next_stage_slot>>
  BY <1>1 DEF setup, noise, device
<1>3. /\ initialized /\ call \in BatchCalls /\ call.pending # <<>>
      /\ call.group <= call.done
      /\ GroupEnd = call.done + n /\ call.next = GroupEnd + 1
      /\ PendingRound(call.pending)
      /\ \A i \in 1 .. n :
           LET t == call.pending[i]
           IN  Decoding(dev[t], slot[t], stream[t], call.requests[call.done + i])
  BY <1>1 DEF BatchInv, BatchPhases
<1>4. /\ s \in Ids /\ s = call.pending[1]
      /\ Tail(call.pending) \in Seq(Ids)
      /\ n \in Nat /\ n >= 1
      /\ Len(Tail(call.pending)) = n - 1
      /\ \A i \in 1 .. (n - 1) :
           i + 1 \in 1 .. n /\ Tail(call.pending)[i] = call.pending[i + 1]
  BY <1>3, PendingTail
<1> HIDE DEF s, n
<1>5. /\ call.requests \in Batches /\ call.requests \in Seq(Requests)
      /\ call.group \in Nat /\ call.done \in Nat /\ call.next \in Nat
  BY <1>3, RequestsAssumption DEF BatchCalls
<1>6. slot_count \in Nat /\ slot_count >= 1 /\ next_stage_slot \in Nat /\ next_stage_slot < slot_count
  BY <1>3, MaxSlotsAssumption DEF TypeOK, ShapeInv, Ids
<1>7. Settles
  BY <1>1, <1>2, <1>4 DEF Settles, BatchPhases
<1>8. TypeOK' /\ ShapeInv' /\ PreparedInv' /\ SyncInv'
  BY <1>7, SettlesKeeps
<1>9. ResultFor(slot[s].result, call.requests[call.done + 1])
  <2>1. Decoding(dev[s], slot[s], stream[s], call.requests[call.done + 1])
    BY <1>3, <1>4
  <2>2. Len(stream[s]) = 0
    BY <1>1
  <2> QED  BY <2>1, <2>2 DEF Decoding, DecodingAt
<1>10. AnswerInv'
  <2>1. last'.request = call.requests[call.done + 1] /\ last'.answer = slot[s].result
    BY <1>1
  <2>2. SymbolsFor(last'.answer.symbols, last'.request)
        /\ last'.answer.candidates = last'.request
    BY <1>9, <2>1 DEF ResultFor
  <2> QED  BY <1>2, <2>2, SameConfig DEF AnswerInv
<1>11. /\ call'.done = call.done + 1 /\ call'.pending = Tail(call.pending)
       /\ call'.group = IF n = 1 THEN call.done + 1 ELSE call.group
       /\ call'.requests = call.requests /\ call'.next = call.next
       /\ call' \in BatchCalls
  <2> DEFINE group == IF n = 1 THEN call.done + 1 ELSE call.group
  <2>1. call.done + 1 \in Nat /\ group \in Nat
    BY <1>5
  <2>2. call' = [call EXCEPT !.done = @ + 1, !.pending = Tail(@), !.group = group]
    BY <1>1
  <2> HIDE DEF group
  <2>3. /\ call'.done = call.done + 1 /\ call'.pending = Tail(call.pending)
        /\ call'.group = group
        /\ call'.requests = call.requests /\ call'.next = call.next
    BY <1>3, <2>2 DEF BatchCalls
  <2>4. call' \in BatchCalls
    BY <1>3, <1>4, <2>1, <2>2 DEF BatchCalls
  <2> QED  BY <2>3, <2>4 DEF group
<1>12. GroupEnd' = AtMost(call'.group + slot_count, Len(call.requests))
       /\ Len(call.requests) \in Nat
  BY <1>2, <1>5, <1>11 DEF GroupEnd
<1>13. CASE pc' = "idle"
  BY <1>8, <1>10, <1>13 DEF BatchInv, BatchPhases
<1>14. CASE pc' = "submit"
  <2>1. n = 1 /\ call.done + 1 # Len(call.requests)
    BY <1>1, <1>14
  <2>2. call'.pending = <<>> /\ Len(call'.pending) = 0
    <3>1. Tail(call.pending) \in Seq(Ids) /\ Len(Tail(call.pending)) = 0
      BY <1>4, <2>1
    <3>2. Tail(call.pending) = <<>>
      BY <3>1, EmptyQueue
    <3> QED  BY <1>11, <3>1, <3>2
  <2>3. call.done + 1 <= Len(call.requests)
    BY <1>3, <1>5, <1>6, <1>12, <2>1 DEF GroupEnd, AtMost
  <2>4. call'.done = call'.group /\ call'.next = call'.group + 1 + 0
    BY <1>3, <1>5, <1>11, <2>1
  <2>5. call'.next <= GroupEnd'
    BY <1>3, <1>5, <1>6, <1>11, <1>12, <2>1, <2>3 DEF AtMost
  <2>6. PendingRound(call.pending)'
    BY <1>2, <1>6, <2>2 DEF PendingRound
  <2>7. /\ call'.next = call'.group + 1 + Len(call'.pending)
        /\ \A i \in 1 .. Len(call'.pending) : FALSE
    BY <2>2, <2>4
  <2>8. BatchInv'
    BY <1>2, <1>3, <1>11, <1>14, <2>4, <2>5, <2>6, <2>7 DEF BatchInv
  <2> QED  BY <1>8, <1>10, <2>8
<1>15. CASE pc' = "collect"
  <2>1. n # 1
    BY <1>1, <1>15
  <2>2. n >= 2 /\ Len(call'.pending) = n - 1 /\ n - 1 \in Nat
    BY <1>4, <1>11, <2>1
  <2>3. call'.pending # <<>>
    <3>1. Tail(call.pending) \in Seq(Ids) /\ Len(Tail(call.pending)) # 0
      BY <1>4, <2>2
    <3>2. Tail(call.pending) # <<>>
      BY <3>1, EmptyQueue
    <3> QED  BY <1>11, <3>2
  <2>4. /\ GroupEnd' = GroupEnd
        /\ call'.group <= call'.done
        /\ GroupEnd' = call'.done + Len(call'.pending)
        /\ call'.next = GroupEnd' + 1
    <3>1. GroupEnd' = GroupEnd
      BY <1>11, <1>12, <2>1 DEF GroupEnd
    <3>2. call'.group <= call'.done
      BY <1>3, <1>5, <1>11, <2>1
    <3>3. call.done + n = (call.done + 1) + (n - 1)
      BY <1>4, <1>5
    <3> QED  BY <1>3, <1>11, <2>2, <3>1, <3>2, <3>3
  <2>5. n <= slot_count /\ \A i \in 1 .. n : call.pending[i] = Behind(n - i + 1)
    BY <1>3 DEF PendingRound, n
  <2>6. \A i \in 1 .. (n - 1) : call'.pending[i] = Behind((n - 1) - i + 1)
    <3> SUFFICES ASSUME NEW i \in 1 .. (n - 1)
                 PROVE  call'.pending[i] = Behind((n - 1) - i + 1)
      OBVIOUS
    <3>1. call'.pending[i] = call.pending[i + 1] /\ i + 1 \in 1 .. n
      BY <1>4, <1>11
    <3>2. n - (i + 1) + 1 = (n - 1) - i + 1
      BY <1>4
    <3> QED  BY <2>5, <3>1, <3>2
  <2>7. PendingRound(call.pending)'
    BY <1>2, <1>4, <1>6, <2>2, <2>5, <2>6 DEF PendingRound, Behind
  <2>8. ASSUME NEW i \in 1 .. (n - 1)
        PROVE  LET t == call'.pending[i]
               IN  Decoding(dev[t], slot'[t], stream[t], call.requests[call'.done + i])
    <3> DEFINE t == call.pending[i + 1]
    <3>1. call'.pending[i] = t /\ i + 1 \in 1 .. n
      BY <1>4, <1>11
    <3>2. Decoding(dev[t], slot[t], stream[t], call.requests[call.done + (i + 1)])
      BY <1>3, <3>1 DEF n
    <3>3. call.done + (i + 1) = call'.done + i
      BY <1>5, <1>11
    <3>4. t # s
      <4>1. t = Behind(n - (i + 1) + 1) /\ s = Behind(n - 1 + 1)
        BY <1>4, <2>5, <3>1
      <4>2. /\ n - (i + 1) + 1 \in 1 .. slot_count /\ n - 1 + 1 \in 1 .. slot_count
            /\ n - (i + 1) + 1 # n - 1 + 1
        BY <1>4, <1>6, <2>5
      <4> QED  BY <1>6, <4>1, <4>2, BehindInjective
    <3>5. slot'[t] = slot[t]
      BY <1>1, <3>4
    <3> QED  BY <3>1, <3>2, <3>3, <3>5
  <2>9. BatchInv'
    BY <1>2, <1>3, <1>11, <1>15, <2>2, <2>3, <2>4, <2>7, <2>8, SameConfig DEF BatchInv
  <2> QED  BY <1>8, <1>10, <2>9
<1> QED  BY <1>1, <1>13, <1>14, <1>15

\* The slots of the pending decodes lie one behind the other in the ring, and
\* the next slot, which a new decode takes, comes after them.
LEMMA PendingAppended ==
  ASSUME slot_count \in Nat \ {0}, next_stage_slot \in Nat, next_stage_slot < slot_count,
         slot_count' = slot_count, next_stage_slot' = (next_stage_slot + 1) % slot_count,
         NEW p, NEW q, NEW n \in Nat, Len(p) = n, Len(q) = n + 1, n + 1 <= slot_count,
         q[n + 1] = next_stage_slot, \A i \in 1 .. n : q[i] = p[i],
         PendingRound(p)
  PROVE  PendingRound(q)'
<1>1. /\ Behind(1)' = next_stage_slot
      /\ \A k \in 1 .. (slot_count - 1) : Behind(k + 1)' = Behind(k)
  BY BehindNext
<1>2. \A i \in 1 .. n : p[i] = Behind(n - i + 1)
  BY DEF PendingRound
<1>3. ASSUME NEW i \in 1 .. (n + 1)
      PROVE  q[i] = Behind((n + 1) - i + 1)'
  <2>1. CASE i = n + 1
    <3>1. (n + 1) - i + 1 = 1
      BY <2>1
    <3> QED  BY <1>1, <2>1, <3>1
  <2>2. CASE i # n + 1
    <3> DEFINE k == n - i + 1
    <3>1. i \in 1 .. n /\ k \in 1 .. (slot_count - 1) /\ (n + 1) - i + 1 = k + 1
      BY <2>2
    <3>2. q[i] = Behind(k)
      BY <1>2, <3>1
    <3> HIDE DEF k
    <3>3. Behind(k + 1)' = Behind(k)
      BY <1>1, <3>1
    <3> QED  BY <3>1, <3>2, <3>3
  <2> QED  BY <2>1, <2>2
<1> QED  BY <1>3 DEF PendingRound

\* A decode that is submitted takes the next slot, which no pending one has.
LEMMA SubmitInv ==
  ASSUME RingInv, Submit
  PROVE  RingInv'
<1> USE DEF RingInv
<1> DEFINE s == next_stage_slot
           r == call.requests[call.next]
           n == Len(call.pending)
<1>1. /\ pc = "submit"
      /\ \/ /\ StageMiss(r, TRUE, TRUE)
            /\ Queue(s, DecodeOps)
            /\ call' = [call EXCEPT !.next = @ + 1, !.pending = Append(@, s)]
            /\ pc' = IF call.next = GroupEnd THEN "collect" ELSE "submit"
         \/ /\ StageMiss(r, TRUE, FALSE)
            /\ QueuePart(s, DecodeOps, "submit")
            /\ UNCHANGED call
            /\ pc' = "guard"
      /\ UNCHANGED <<setup, completed_slot, sigma2_by_cell, dev, last, calls>>
  BY DEF Submit, SubmitStage
<1>2. UNCHANGED <<initialized, config, slot_count, device_owned, inits>>
  BY <1>1 DEF setup
<1>3. /\ initialized /\ call \in BatchCalls
      /\ call.done = call.group /\ call.next = call.group + 1 + n /\ call.next <= GroupEnd
      /\ PendingRound(call.pending)
      /\ \A i \in 1 .. n :
           LET t == call.pending[i]
           IN  Decoding(dev[t], slot[t], stream[t], call.requests[call.done + i])
  BY <1>1 DEF BatchInv, BatchPhases
<1>4. /\ call.requests \in Seq(Requests) /\ call.pending \in Seq(Ids)
      /\ call.group \in Nat /\ call.done \in Nat /\ call.next \in Nat
      /\ n \in Nat /\ Len(call.requests) \in Nat
  BY <1>3, RequestsAssumption DEF BatchCalls
<1>5. slot_count \in Nat \ {0} /\ s \in Nat /\ s < slot_count /\ s \in Ids
  BY <1>3, MaxSlotsAssumption DEF TypeOK, ShapeInv, Ids
<1>6. /\ call.next \in 1 .. Len(call.requests)
      /\ n + 1 <= slot_count
      /\ GroupEnd \in Nat
  BY <1>3, <1>4, <1>5 DEF GroupEnd, AtMost
<1>7. call.done = call.group /\ call.next = call.done + (n + 1) /\ call.next <= GroupEnd
  <2>1. call.done = call.group /\ call.next = call.group + 1 + n /\ call.next <= GroupEnd
    BY <1>3
  <2>2. call.group \in Nat /\ n \in Nat
    BY <1>4
  <2> HIDE DEF n
  <2>3. call.group + 1 + n = call.group + (n + 1)
    BY <2>2
  <2> QED  BY <2>1, <2>3
<1>8. r \in Requests
  BY <1>4, <1>6
<1> HIDE DEF r, n
<1>9. PICK submitted \in BOOLEAN :
        /\ StageMiss(r, TRUE, submitted)
        /\ pc' # "guard" => submitted = TRUE
  <2>1. CASE StageMiss(r, TRUE, TRUE)
    BY <2>1
  <2>2. CASE StageMiss(r, TRUE, FALSE) /\ pc' = "guard"
    BY <2>2
  <2> QED  BY <1>1, <2>1, <2>2
<1>10. /\ active_slot' = s
       /\ next_stage_slot' = (s + 1) % slot_count
       /\ next_stage_slot' \in Ids /\ next_stage_slot' < slot_count
       /\ next_sequence' \in Nat
       /\ prepared' = [valid |-> FALSE, key |-> KeyOf(r), slot_index |-> s,
                       sigma2 |-> prepared.sigma2]
       /\ DOMAIN slot' = Ids
       /\ \A t \in Ids \ {s} : slot'[t] = slot[t]
       /\ DOMAIN slot'[s] = DOMAIN BlankSlot
       /\ slot'[s].submitted = submitted /\ slot'[s].output_ready = FALSE
       /\ slot'[s].owned = TRUE /\ slot'[s].sequence \in Nat
       /\ StagedFor(slot'[s], r)
       /\ DeviceSmooths(slot'[s])
  <2>1. TRUE \in BOOLEAN
    OBVIOUS
  <2> QED  BY <1>3, <1>8, <1>9, <2>1, StageMissSlot
<1>11. DecodeOps \in Seq(OpKinds) /\ Len(DecodeOps) = 7
  BY DEF DecodeOps, OpKinds
<1>12. stream \in [Ids -> Seq(OpKinds)] /\ stream[s] \in Seq(OpKinds)
  BY <1>5 DEF TypeOK
<1>13. /\ stream' \in [Ids -> Seq(OpKinds)]
       /\ \A t \in Ids \ {s} : stream'[t] = stream[t]
       /\ Queue(s, DecodeOps) => stream'[s] = stream[s] \o DecodeOps
  BY <1>1, <1>5, <1>11, <1>12, Queued
<1>14. TypeOK'
  <2>1. prepared'.slot_index \in Ids /\ prepared'.valid \in BOOLEAN /\ prepared'.sigma2 \in Nat
    BY <1>5, <1>10 DEF TypeOK
  <2>2. \A t \in Ids :
          {slot'[t].submitted, slot'[t].output_ready, slot'[t].owned} \subseteq BOOLEAN
    BY <1>10 DEF TypeOK
  <2>3. pc' \in Phases
    BY <1>1 DEF Phases
  <2> QED  BY <1>1, <1>2, <1>5, <1>10, <1>13, <2>1, <2>2, <2>3 DEF TypeOK
<1>15. ShapeInv'
  BY <1>1, <1>2, <1>10 DEF ShapeInv, NotPrepared
<1>16. PreparedInv' /\ SyncInv'
  BY <1>1, <1>10 DEF PreparedInv, SyncInv, SyncPhases
<1>17. AnswerInv'
  BY <1>1, <1>2, SameConfig DEF AnswerInv, Answered
<1>18. BatchInv'
  <2>1. CASE pc' = "guard"
    <3>1. call' = call
      BY <1>1, <2>1
    <3>2. GroupEnd' = GroupEnd
      BY <1>2, <3>1 DEF GroupEnd
    <3> QED  BY <1>2, <1>3, <2>1, <3>1, <3>2 DEF BatchInv, n
  <2>2. CASE pc' # "guard"
    <3>1. /\ Queue(s, DecodeOps)
          /\ call' = [call EXCEPT !.next = @ + 1, !.pending = Append(@, s)]
          /\ pc' = IF call.next = GroupEnd THEN "collect" ELSE "submit"
      BY <1>1, <2>2
    <3>2. /\ Append(call.pending, s) \in Seq(Ids)
          /\ Len(Append(call.pending, s)) = n + 1
          /\ Append(call.pending, s)[n + 1] = s
          /\ \A i \in 1 .. n : Append(call.pending, s)[i] = call.pending[i]
      BY <1>4, <1>5 DEF n
    <3>3. /\ call' \in BatchCalls
          /\ call'.next = call.next + 1 /\ call'.pending = Append(call.pending, s)
          /\ call'.group = call.group /\ call'.done = call.done
          /\ call'.requests = call.requests
      <4>1. call.next + 1 \in Nat
        BY <1>4
      <4> QED  BY <1>3, <3>1, <3>2, <4>1 DEF BatchCalls
    <3>4. GroupEnd' = GroupEnd
      BY <1>2, <3>3 DEF GroupEnd
    <3>5. Len(call'.pending) = n + 1 /\ call'.pending # <<>>
      <4>1. call'.pending \in Seq(Ids) /\ Len(call'.pending) = n + 1
        BY <3>2, <3>3
      <4>2. n + 1 # 0
        BY <1>4
      <4>3. Len(call'.pending) # 0
        BY <4>1, <4>2
      <4> QED  BY <4>1, <4>3, EmptyQueue
    <3>6. PendingRound(call.pending)'
      BY <1>2, <1>3, <1>4, <1>5, <1>6, <1>10, <3>2, <3>3, <3>5, PendingAppended DEF n
    <3>7. ASSUME NEW i \in 1 .. (n + 1)
          PROVE  LET t == call'.pending[i]
                 IN  Decoding(dev[t], slot'[t], stream'[t], call.requests[call.done + i])
      <4>1. CASE i = n + 1
        <5>1. call'.pending[i] = s /\ call.requests[call.done + i] = r
          <6>1. call.done + i = call.next
            BY <1>4, <1>7, <4>1
          <6> QED  BY <3>2, <3>3, <4>1, <6>1 DEF r
        <5>2. EndsWith(stream'[s], DecodeOps) /\ Len(stream'[s]) \in Nat /\ Len(stream'[s]) >= 7
          BY <1>11, <1>12, <1>13, <3>1, EndsWithQueued
        <5>3. slot'[s].submitted
          BY <1>9, <1>10, <2>2
        <5>4. Decoding(dev[s], slot'[s], stream'[s], r)
          BY <1>10, <5>2, <5>3 DEF Decoding, DecodingAt
        <5> QED  BY <5>1, <5>4
      <4>2. CASE i # n + 1
        <5> DEFINE t == call.pending[i]
        <5>1. i \in 1 .. n /\ n - i + 1 \in 1 .. slot_count /\ n - i + 1 < slot_count
          BY <1>4, <1>5, <1>6, <4>2
        <5>2. call'.pending[i] = t /\ t = Behind(n - i + 1) /\ t \in Ids
          <6>1. t = Behind(n - i + 1)
            BY <1>3, <5>1 DEF PendingRound, n
          <6> QED  BY <1>4, <3>2, <3>3, <5>1, <6>1 DEF n
        <5>3. t # s
          BY <1>5, <5>1, <5>2, BehindInjective
        <5>4. slot'[t] = slot[t] /\ stream'[t] = stream[t]
          BY <1>10, <1>13, <5>2, <5>3
        <5>5. Decoding(dev[t], slot[t], stream[t], call.requests[call.done + i])
          BY <1>3, <5>1
        <5> QED  BY <5>2, <5>4, <5>5
      <4> QED  BY <4>1, <4>2
    <3>8. /\ call'.done = call'.group
          /\ call'.next = call'.group + 1 + Len(call'.pending)
      BY <1>4, <1>7, <3>3, <3>5
    <3>9. pc' = "submit" => call'.next <= GroupEnd'
      BY <1>4, <1>6, <1>7, <3>1, <3>3, <3>4
    <3>10. pc' = "collect" => /\ GroupEnd' = call'.done + Len(call'.pending)
                              /\ call'.next = GroupEnd' + 1
      BY <1>4, <1>6, <1>7, <3>1, <3>3, <3>4, <3>5
    <3>11. call'.group <= call'.done /\ dev' = dev /\ pc' \in {"submit", "collect"}
      BY <1>1, <1>4, <3>1, <3>8, <3>3
    <3>12. ASSUME NEW i \in 1 .. Len(call'.pending)
           PROVE  LET t == call'.pending[i]
                  IN  Decoding(dev'[t], slot'[t], stream'[t], call'.requests[call'.done + i])
      <4>1. call'.requests[call'.done + i] = call.requests[call.done + i]
        BY <3>3
      <4>2. i \in 1 .. (n + 1)
        BY <3>5
      <4> QED  BY <3>7, <3>11, <4>1, <4>2
    <3>13. config' = config /\ initialized' /\ call'.next \in Nat /\ pc' # "discard"
      BY <1>2, <1>3, <1>4, <3>3, <3>11
    <3> QED  BY <3>3, <3>5, <3>6, <3>8, <3>9, <3>10, <3>11, <3>12, <3>13, SameConfig DEF BatchInv
  <2> QED  BY <2>1, <2>2
<1> QED  BY <1>14, <1>15, <1>16, <1>17, <1>18

-----------------------------------------------------------------------------
(* Every step.                                                             *)

LEMMA StutterInv ==
  ASSUME RingInv, UNCHANGED vars
  PROVE  RingInv'
<1> USE DEF RingInv
<1>1. UNCHANGED <<initialized, config, slot_count, device_owned, inits, slot,
                  next_stage_slot, active_slot, completed_slot, next_sequence, prepared,
                  sigma2_by_cell, stream, dev, pc, call, last, calls>>
  BY DEF vars, setup, ring, noise, device
<1>2. TypeOK' /\ ShapeInv'
  BY <1>1 DEF TypeOK, ShapeInv
<1>3. PreparedInv'
  BY <1>1, SameConfig DEF PreparedInv
<1>4. SyncInv'
  BY <1>1, SameConfig DEF SyncInv
<1>5. BatchInv'
  <2>1. GroupEnd' = GroupEnd /\ PendingRound(call.pending)' = PendingRound(call.pending)
    BY <1>1 DEF GroupEnd, PendingRound, Behind
  <2> QED  BY <1>1, <2>1, SameConfig DEF BatchInv
<1>6. AnswerInv'
  BY <1>1, SameConfig DEF AnswerInv, Answered
<1> QED  BY <1>2, <1>3, <1>4, <1>5, <1>6

LEMMA RingInvPreserved ==
  ASSUME RingInv, [Next]_vars
  PROVE  RingInv'
<1>1. ASSUME NEW cfg \in Configs, NEW owned \in Owners,
             InitFails(cfg, owned) \/ \E n \in 1 .. MaxSlots : InitContext(cfg, owned, n)
      PROVE  RingInv'
  BY <1>1, InitContextInv
<1>2. ASSUME NEW r \in Requests, RunMiss(r) \/ RunHit(r)
      PROVE  RingInv'
  BY <1>2, RunMissInv, RunHitInv
<1>3. ASSUME NEW family \in Families, NEW rs \in Batches, BatchBegin(family, rs)
      PROVE  RingInv'
  BY <1>3, BatchBeginInv
<1>4. CASE HostStep
  <2>1. CASE MidSync  BY <2>1, MidSyncInv
  <2>2. ASSUME NEW outcome \in {"ok", "too_small", "invalid"}, Finish(outcome)
        PROVE  RingInv'
    BY <2>2, FinishInv
  <2>3. CASE RunSyncFails  BY <2>3, RunSyncFailsInv
  <2>4. CASE Submit  BY <2>4, SubmitInv
  <2>5. CASE SubmitRejected  BY <2>5, SubmitRejectedInv
  <2>6. CASE Guard  BY <2>6, GuardInv
  <2>7. CASE Collect  BY <2>7, CollectInv
  <2>8. CASE CollectFails  BY <2>8, CollectFailsInv
  <2>9. CASE Discard  BY <2>9, DiscardInv
  <2> QED  BY <1>4, <2>1, <2>2, <2>3, <2>4, <2>5, <2>6, <2>7, <2>8, <2>9 DEF HostStep
<1>5. ASSUME NEW s \in Ids, Execute(s)
      PROVE  RingInv'
  BY <1>5, ExecuteInv
<1>6. CASE Rest \/ UNCHANGED vars
  BY <1>6, StutterInv DEF Rest
<1> QED  BY <1>1, <1>2, <1>3, <1>4, <1>5, <1>6 DEF Next

-----------------------------------------------------------------------------
\* The invariant of the ring: what is on the device, queued and staged for every
\* request that has not been answered yet, whatever failed before.
THEOREM RingInvariance == Spec => []RingInv
<1>1. Init => RingInv
  BY InitHolds
<1>2. RingInv /\ [Next]_vars => RingInv'
  BY RingInvPreserved
<1> QED  BY <1>1, <1>2, PTL DEF Spec

\* Every answer was computed from the samples, cell, layout and candidates of its
\* own request, for any number of slots, any batches and any faults
\* (mmse_equalizer_gpu.cpp:873).
THEOREM EveryAnswerIsItsRequests == Spec => []AnswersTheRequest
<1>1. RingInv => AnswersTheRequest
  BY DEF RingInv, AnswerInv, AnswersTheRequest, SymbolsFor
<1> QED  BY <1>1, RingInvariance, PTL

\* The noise the device equalises with is never below the floor, also after init
\* has raised it.
THEOREM TheFloorIsKept == Spec => []FloorKept
<1>1. RingInv => FloorKept
  BY DEF RingInv, AnswerInv, FloorKept, SymbolsFor, Floored
<1> QED  BY <1>1, RingInvariance, PTL

-----------------------------------------------------------------------------
(* Reuse of the slots.                                                     *)

\* Where nothing waits, nothing is queued.
LEMMA IdleDrained ==
  ASSUME DrainInv, pc = "idle"
  PROVE  \A s \in Ids : stream[s] = <<>>
BY DEF DrainInv, AwaitedBy, Idle, SyncPhases, BatchPhases

\* The next slot is not pending when a request is submitted.
LEMMA NextSlotIsFree ==
  ASSUME RingInv, pc = "submit", NEW i \in 1 .. Len(call.pending)
  PROVE  call.pending[i] # next_stage_slot
<1> DEFINE n == Len(call.pending)
<1>1. /\ initialized /\ call \in BatchCalls
      /\ call.done = call.group /\ call.next = call.group + 1 + n /\ call.next <= GroupEnd
      /\ PendingRound(call.pending)
  BY DEF RingInv, BatchInv, BatchPhases
<1>2. /\ call.requests \in Seq(Requests) /\ call.group \in Nat /\ n \in Nat
      /\ Len(call.requests) \in Nat
  BY <1>1, RequestsAssumption DEF BatchCalls
<1>3. slot_count \in Nat \ {0} /\ next_stage_slot \in Nat /\ next_stage_slot < slot_count
  BY <1>1, MaxSlotsAssumption DEF RingInv, TypeOK, ShapeInv, Ids
<1> HIDE DEF n
<1>4. n + 1 <= slot_count
  BY <1>1, <1>2, <1>3 DEF GroupEnd, AtMost
<1>5. i \in 1 .. n
  BY DEF n
<1>6. n - i + 1 \in 1 .. slot_count /\ n - i + 1 < slot_count
  BY <1>2, <1>3, <1>4, <1>5
<1>7. call.pending[i] = Behind(n - i + 1)
  BY <1>1, <1>5 DEF PendingRound, n
<1> QED  BY <1>3, <1>6, <1>7, BehindInjective

\* A stream nobody waits for stays empty when neither it nor the wait changes.
LEMMA DrainHolds ==
  ASSUME RingInv, DrainInv, [Next]_vars, "run" \notin Faults, "common" \notin Families
  PROVE  DrainInv'
<1> SUFFICES ASSUME NEW t \in Ids, stream'[t] # <<>> PROVE AwaitedBy(t)'
  BY DEF DrainInv, Idle
<1>1. stream[t] # <<>> => AwaitedBy(t)
  BY DEF DrainInv, Idle
<1>2. TypeOK /\ BatchInv /\ stream \in [Ids -> Seq(OpKinds)]
  BY DEF RingInv, TypeOK
<1>3. ASSUME NEW cfg \in Configs, NEW owned \in Owners,
             InitFails(cfg, owned) \/ \E n \in 1 .. MaxSlots : InitContext(cfg, owned, n)
      PROVE  FALSE
  <2>1. Reset
    BY <1>3 DEF InitFails, InitContext
  <2> QED  BY <2>1 DEF Reset
<1>4. ASSUME NEW r \in Requests, RunMiss(r) \/ RunHit(r)
      PROVE  AwaitedBy(t)'
  <2>1. pc = "idle"
    BY <1>4 DEF RunMiss, RunHit, BeginCall
  <2>2. \A s \in Ids : stream[s] = <<>>
    BY <2>1, IdleDrained
  <2>3. \A s, ops : ~QueuePart(s, ops, "run")
    BY DEF QueuePart
  <2>4. PICK s \in Ids : (\E ops : Queue(s, ops)) /\ active_slot' = s /\ pc' \in SyncPhases
    <3>1. CASE RunMiss(r)
      BY <1>2, <2>3, <3>1 DEF RunMiss, StageMiss, TypeOK, SyncPhases
    <3>2. CASE RunHit(r)
      BY <1>2, <2>3, <3>2 DEF RunHit, StageHit, TypeOK, SyncPhases
    <3> QED  BY <1>4, <3>1, <3>2
  <2>5. t = s
    BY <1>2, <2>2, <2>4 DEF Queue
  <2> QED  BY <2>4, <2>5 DEF AwaitedBy
<1>5. ASSUME NEW family \in Families, NEW rs \in Batches, BatchBegin(family, rs)
      PROVE  AwaitedBy(t)'
  BY <1>5, IdleDrained DEF BatchBegin, BeginCall, device
<1>6. ASSUME NEW s \in Ids, Execute(s)
      PROVE  AwaitedBy(t)'
  <2>1. UNCHANGED <<pc, active_slot, call>> /\ stream' = [stream EXCEPT ![s] = Tail(@)]
        /\ stream[s] # <<>>
    BY <1>6 DEF Execute
  <2>2. stream[t] # <<>>
    BY <1>2, <2>1
  <2> QED  BY <1>1, <2>1, <2>2 DEF AwaitedBy
<1>7. CASE MidSync
  <2>1. pc = "mid" /\ pc' = "final" /\ active_slot' = active_slot
        /\ Queue(active_slot, NoisyEqualizeOps)
    BY <1>7 DEF MidSync, QueuePart
  <2>2. t # active_slot => stream[t] = <<>>
    BY <1>1, <2>1 DEF AwaitedBy, BatchPhases
  <2>3. t # active_slot => stream'[t] = stream[t]
    BY <1>2, <2>1 DEF Queue
  <2> QED  BY <2>1, <2>2, <2>3 DEF AwaitedBy, SyncPhases
<1>8. ASSUME NEW outcome \in {"ok", "too_small", "invalid"}, Finish(outcome)
      PROVE  FALSE
  <2>1. pc = "final" /\ stream[active_slot] = <<>> /\ stream' = stream
    BY <1>8 DEF Finish, Idle, device
  <2> QED  BY <1>1, <2>1 DEF AwaitedBy, BatchPhases
<1>9. CASE RunSyncFails
  <2>1. pc \in SyncPhases /\ stream' = [stream EXCEPT ![active_slot] = <<>>]
    BY <1>9 DEF RunSyncFails, SyncFails, SyncPhases
  <2>2. stream[t] # <<>> /\ t # active_slot
    BY <1>2, <2>1
  <2> QED  BY <1>1, <2>1, <2>2 DEF AwaitedBy, SyncPhases, BatchPhases
<1>10. CASE Submit
  <2> DEFINE s == next_stage_slot
  <2>1. /\ pc = "submit"
        /\ \/ /\ Queue(s, DecodeOps)
              /\ call' = [call EXCEPT !.next = @ + 1, !.pending = Append(@, s)]
              /\ pc' = IF call.next = GroupEnd THEN "collect" ELSE "submit"
           \/ /\ QueuePart(s, DecodeOps, "submit")
              /\ UNCHANGED call
              /\ pc' = "guard"
        /\ active_slot' = s
    BY <1>10 DEF Submit, SubmitStage, StageMiss
  <2>2. call \in BatchCalls /\ call.pending \in Seq(Ids) /\ s \in Ids
    BY <1>2, <2>1 DEF BatchInv, BatchPhases, BatchCalls, TypeOK
  <2>3. t # s => stream'[t] = stream[t]
    BY <1>2, <2>1 DEF Queue, QueuePart
  <2>4. t # s => \E i \in 1 .. Len(call.pending) : call.pending[i] = t
    BY <1>1, <2>1, <2>3 DEF AwaitedBy, SyncPhases
  <2>5. CASE pc' = "guard"
    BY <2>1, <2>4, <2>5 DEF AwaitedBy, BatchPhases
  <2>6. CASE pc' # "guard"
    <3>1. call'.pending = Append(call.pending, s) /\ pc' \in BatchPhases
      BY <2>1, <2>2, <2>6 DEF BatchCalls, BatchPhases
    <3>2. /\ Len(call'.pending) = Len(call.pending) + 1
          /\ call'.pending[Len(call.pending) + 1] = s
          /\ \A i \in 1 .. Len(call.pending) :
               call'.pending[i] = call.pending[i] /\ i \in 1 .. (Len(call.pending) + 1)
          /\ Len(call.pending) + 1 \in 1 .. (Len(call.pending) + 1)
      BY <2>2, <3>1
    <3>3. \E i \in 1 .. Len(call'.pending) : call'.pending[i] = t
      BY <2>4, <3>2
    <3> QED  BY <3>1, <3>3 DEF AwaitedBy
  <2> QED  BY <2>5, <2>6
<1>11. ASSUME pc \in BatchPhases, pc # "guard", stream[t] # <<>>
       PROVE  \E i \in 1 .. Len(call.pending) : call.pending[i] = t
  BY <1>1, <1>11 DEF AwaitedBy, SyncPhases, BatchPhases
<1>12. ASSUME NEW i \in 1 .. Len(call.pending), call.pending[i] = t, GiveUp(call.pending),
              call'.pending = call.pending, call.pending \in Seq(Ids)
       PROVE  AwaitedBy(t)'
  <2>1. call.pending # <<>>
    BY <1>12
  <2> QED  BY <1>12, <2>1 DEF GiveUp, AwaitedBy, BatchPhases
<1>13. CASE SubmitRejected
  <2>1. pc = "submit" /\ GiveUp(call.pending) /\ call' = call /\ stream' = stream
    BY <1>13 DEF SubmitRejected, device
  <2>2. call.pending \in Seq(Ids)
    BY <1>2, <2>1 DEF BatchInv, BatchPhases, BatchCalls
  <2>3. pc \in BatchPhases /\ pc # "guard" /\ stream[t] # <<>>
    BY <2>1 DEF BatchPhases
  <2> QED  BY <1>11, <1>12, <2>1, <2>2, <2>3
<1>14. CASE Guard
  <2>1. /\ pc = "guard" /\ GiveUp(call.pending) /\ call' = call
        /\ \/ stream[active_slot] = <<>> /\ stream' = stream
           \/ stream' = [stream EXCEPT ![active_slot] = <<>>]
    BY <1>14 DEF Guard, Idle, SyncFails
  <2>2. call.pending \in Seq(Ids)
    BY <1>2, <2>1 DEF BatchInv, BatchPhases, BatchCalls
  <2>3. stream[t] # <<>> /\ t # active_slot
    BY <1>2, <2>1
  <2>4. \E i \in 1 .. Len(call.pending) : call.pending[i] = t
    BY <1>1, <2>3 DEF AwaitedBy
  <2> QED  BY <1>12, <2>1, <2>2, <2>4
\* The first pending slot is drained, and the wait goes on to the others.
<1>15. ASSUME pc \in BatchPhases, pc # "guard", call \in BatchCalls, call.pending # <<>>,
              \/ stream[Collected] = <<>> /\ stream' = stream
              \/ stream' = [stream EXCEPT ![Collected] = <<>>],
              call'.pending = Tail(call.pending)
       PROVE  \E i \in 1 .. Len(call'.pending) : call'.pending[i] = t
  <2>1. stream[t] # <<>> /\ t # Collected
    BY <1>2, <1>15
  <2>2. PICK i \in 1 .. Len(call.pending) : call.pending[i] = t
    BY <1>11, <1>15, <2>1
  <2>3. i # 1 /\ Collected = call.pending[1] /\ call.pending \in Seq(Ids)
    BY <1>15, <2>1, <2>2, PendingTail DEF BatchCalls
  <2>4. i - 1 \in 1 .. Len(Tail(call.pending)) /\ Tail(call.pending)[i - 1] = call.pending[i]
    BY <1>15, <2>2, <2>3
  <2> QED  BY <1>15, <2>2, <2>4
<1>16. ASSUME NEW i \in 1 .. Len(Tail(call.pending)), GiveUp(Tail(call.pending)),
              call'.pending = Tail(call.pending), call'.pending[i] = t,
              Tail(call.pending) \in Seq(Ids)
       PROVE  AwaitedBy(t)'
  <2>1. Tail(call.pending) # <<>>
    BY <1>16
  <2>2. pc' = "discard"
    BY <1>16, <2>1 DEF GiveUp
  <2> QED  BY <1>16, <2>2 DEF AwaitedBy, BatchPhases
<1>17. CASE Collect
  <2>1. /\ pc = "collect" /\ stream[Collected] = <<>> /\ stream' = stream
        /\ call'.pending = Tail(call.pending)
        /\ pc' = IF call.done + 1 = Len(call.requests) THEN "idle"
                 ELSE IF Len(call.pending) = 1 THEN "submit" ELSE "collect"
    <3>1. pc = "collect" /\ call \in BatchCalls
      BY <1>2, <1>17 DEF Collect, BatchInv, BatchPhases
    <3> QED  BY <1>17, <3>1 DEF Collect, Idle, device, BatchCalls
  <2>2. call \in BatchCalls /\ call.pending # <<>> /\ GroupEnd = call.done + Len(call.pending)
    BY <1>2, <2>1 DEF BatchInv, BatchPhases
  <2>3. PICK i \in 1 .. Len(call'.pending) : call'.pending[i] = t
    BY <1>15, <2>1, <2>2 DEF BatchPhases
  <2>4. Len(call.pending) \in Nat /\ Len(call.pending) >= 2
    BY <2>1, <2>2, <2>3, PendingTail
  <2>5. pc' # "idle"
    <3>1. /\ call.requests \in Seq(Requests) /\ Len(call.requests) \in Nat
          /\ call.group \in Nat /\ call.done \in Nat /\ slot_count \in Nat
      BY <1>2, <2>2, RequestsAssumption DEF BatchCalls, TypeOK
    <3>2. GroupEnd <= Len(call.requests)
      BY <3>1 DEF GroupEnd, AtMost
    <3>3. call.done + 1 # Len(call.requests)
      BY <2>2, <2>4, <3>1, <3>2
    <3> QED  BY <2>1, <3>3
  <2> QED  BY <2>1, <2>3, <2>5 DEF AwaitedBy, BatchPhases
<1>18. CASE CollectFails
  <2>1. pc = "collect" /\ call \in BatchCalls /\ call.pending # <<>>
    BY <1>2, <1>18 DEF CollectFails, BatchInv, BatchPhases
  <2>2. slot[Collected].submitted
    <3>1. Len(call.pending) >= 1 /\ Len(call.pending) \in Nat /\ Collected = call.pending[1]
      BY <2>1, PendingTail
    <3>2. 1 \in 1 .. Len(call.pending)
      BY <3>1
    <3>3. Decoding(dev[Collected], slot[Collected], stream[Collected],
                   call.requests[call.done + 1])
      BY <1>2, <2>1, <3>1, <3>2 DEF BatchInv, BatchPhases
    <3> QED  BY <3>3 DEF Decoding, DecodingAt
  <2>3. call.kind = "fixed"
    BY <2>1, SetupAssumption DEF BatchCalls
  <2>4. /\ \/ stream[Collected] = <<>> /\ stream' = stream
           \/ stream' = [stream EXCEPT ![Collected] = <<>>]
        /\ call'.pending = Tail(call.pending)
        /\ GiveUp(Tail(call.pending))
    BY <1>18, <2>1, <2>2, <2>3 DEF CollectFails, Idle, SyncFails, BatchCalls
  <2>5. PICK i \in 1 .. Len(call'.pending) : call'.pending[i] = t
    BY <1>15, <2>1, <2>4 DEF BatchPhases
  <2>6. Tail(call.pending) \in Seq(Ids)
    BY <2>1, PendingTail
  <2> QED  BY <1>16, <2>4, <2>5, <2>6
<1>19. CASE Discard
  <2>1. pc = "discard" /\ call \in BatchCalls /\ call.pending # <<>>
    BY <1>2, <1>19 DEF Discard, BatchInv, BatchPhases
  <2>2. /\ \/ stream[Collected] = <<>> /\ stream' = stream
           \/ stream' = [stream EXCEPT ![Collected] = <<>>]
        /\ call'.pending = Tail(call.pending)
        /\ GiveUp(Tail(call.pending))
    BY <1>19, <2>1 DEF Discard, Idle, SyncFails, BatchCalls
  <2>3. PICK i \in 1 .. Len(call'.pending) : call'.pending[i] = t
    BY <1>15, <2>1, <2>2 DEF BatchPhases
  <2>4. Tail(call.pending) \in Seq(Ids)
    BY <2>1, PendingTail
  <2> QED  BY <1>16, <2>2, <2>3, <2>4
<1>20. CASE Rest \/ UNCHANGED vars
  <2>1. UNCHANGED <<stream, pc, active_slot, call>>
    BY <1>20 DEF Rest, vars, ring, device
  <2> QED  BY <1>1, <2>1 DEF AwaitedBy
<1>21. CASE HostStep
  BY <1>7, <1>8, <1>9, <1>10, <1>13, <1>14, <1>17, <1>18, <1>19, <1>21 DEF HostStep
<1> QED  BY <1>3, <1>4, <1>5, <1>6, <1>20, <1>21 DEF Next

\* The step that gives a slot a later request finds its stream empty.
LEMMA ReuseStep ==
  ASSUME RingInv, DrainInv, [Next]_vars, NEW t \in Ids
  PROVE  slot'[t].sequence > slot[t].sequence => Idle(t)
<1> SUFFICES ASSUME slot'[t].sequence > slot[t].sequence, stream[t] # <<>>
             PROVE  FALSE
  BY DEF Idle
<1>1. /\ DOMAIN slot = Ids /\ DOMAIN slot[t] = DOMAIN BlankSlot
      /\ slot[t].sequence \in Nat
  BY DEF RingInv, ShapeInv
<1>2. slot'[t].sequence # slot[t].sequence
  BY <1>1
<1>3. pc # "idle" /\ slot' # slot
  BY <1>2, IdleDrained
<1>4. HostStep \/ \E s \in Ids : Execute(s)
  BY <1>3 DEF Next, InitFails, InitContext, RunMiss, RunHit, BatchBegin, BeginCall, Rest, vars, ring
<1>5. ASSUME NEW s \in Ids, Execute(s)
      PROVE  slot'[t].sequence = slot[t].sequence
  <2>1. /\ HostEffect(Head(stream[s]), dev[s], slot[s], slot'[s])
        /\ \A u \in Ids \ {s} : slot'[u] = slot[u]
    BY <1>5, ExecuteSlot DEF RingInv
  <2> QED  BY <2>1 DEF HostEffect
\* The writes of the host other than by a miss.
<1>6. ASSUME NEW s, NEW x, \/ slot' = [slot EXCEPT ![s].sigma2_host = x]
                           \/ slot' = [slot EXCEPT ![s].output_ready = x]
                           \/ slot' = [slot EXCEPT ![s].submitted = x]
      PROVE  slot'[t].sequence = slot[t].sequence
  BY <1>1, <1>6 DEF BlankSlot
<1>7. CASE HostStep
  <2>1. CASE MidSync
    <3>1. \E s, x : slot' = [slot EXCEPT ![s].sigma2_host = x]
      BY <2>1 DEF MidSync
    <3> QED  BY <1>2, <1>6, <3>1
  <2>2. ASSUME NEW outcome \in {"ok", "too_small", "invalid"}, Finish(outcome)
        PROVE  FALSE
    <3>1. slot' = slot \/ \E s, x : slot' = [slot EXCEPT ![s].output_ready = x]
      BY <2>2 DEF Finish
    <3> QED  BY <1>2, <1>6, <3>1
  <2>3. CASE RunSyncFails \/ SubmitRejected \/ Guard
    BY <1>3, <2>3 DEF RunSyncFails, SubmitRejected, Guard, ring
  <2>4. CASE Submit
    <3>1. /\ pc = "submit"
          /\ \E submitted \in BOOLEAN : StageMiss(call.requests[call.next], TRUE, submitted)
      BY <2>4 DEF Submit, SubmitStage
    <3>2. \A u \in Ids \ {next_stage_slot} : slot'[u] = slot[u]
      BY <1>1, <3>1 DEF StageMiss
    <3>3. t = next_stage_slot
      BY <1>2, <3>2
    <3>4. \E i \in 1 .. Len(call.pending) : call.pending[i] = t
      BY <3>1 DEF DrainInv, AwaitedBy, Idle, SyncPhases
    <3> QED  BY <3>1, <3>3, <3>4, NextSlotIsFree
  <2>5. CASE Collect \/ CollectFails \/ Discard
    <3>1. slot' = slot \/ \E s, x : slot' = [slot EXCEPT ![s].submitted = x]
      BY <2>5 DEF Collect, CollectFails, Discard
    <3> QED  BY <1>2, <1>6, <3>1
  <2> QED  BY <1>7, <2>1, <2>2, <2>3, <2>4, <2>5 DEF HostStep
<1> QED  BY <1>2, <1>4, <1>5, <1>7

\* "A slot is reused only after its stream has been synchronized or its pending
\* decode has been collected" (mmse_equalizer_gpu.cpp:197): this holds for any
\* number of slots and batches of any length, also when submissions, waits and
\* results fail, but for the two places that return without draining: a
\* synchronous call whose enqueue fails, and a common-search batch.
THEOREM SlotsAreReusedWhenDrained ==
  ASSUME "run" \notin Faults, "common" \notin Families
  PROVE  Spec => SlotReusedWhenDrained
<1>1. Init => DrainInv
  BY DEF Init, DrainInv, Idle
<1>2. RingInv /\ DrainInv /\ [Next]_vars => DrainInv'
  BY DrainHolds
<1>3. RingInv /\ DrainInv /\ [Next]_vars =>
        [\A s \in Ids : slot'[s].sequence > slot[s].sequence => Idle(s)]_vars
  BY ReuseStep
<1> QED  BY <1>1, <1>2, <1>3, RingInvariance, PTL DEF Spec, SlotReusedWhenDrained

-----------------------------------------------------------------------------
(* The noise of the prepared subframe.                                     *)

\* One operation of the device on the slot of the prepared subframe.
LEMMA NoiseArrivesStep ==
  ASSUME NEW d, NEW h, NEW e, NEW g, NEW sigma2, NEW q \in Seq(OpKinds), q # <<>>,
         DeviceEffect(Head(q), d, h, e), HostEffect(Head(q), d, h, g),
         Head(q) # "estimate", NoiseArrives(d, h, q, sigma2)
  PROVE  NoiseArrives(e, g, Tail(q), sigma2)
<1>1. /\ Head(q) = q[1] /\ 1 \in 1 .. Len(q) /\ Len(q) \in Nat /\ Len(Tail(q)) = Len(q) - 1
      /\ \A i \in 1 .. Len(Tail(q)) : i + 1 \in 1 .. Len(q) /\ Tail(q)[i] = q[i + 1]
      /\ \A i \in 1 .. Len(q) : i # 1 => i - 1 \in 1 .. Len(Tail(q)) /\ Tail(q)[i - 1] = q[i]
  OBVIOUS
<1>2. g.sigma2_host = h.sigma2_host
  BY DEF HostEffect
<1>3. \A i \in 1 .. Len(Tail(q)) : Tail(q)[i] = "h2d_sigma2" => g.sigma2_host = sigma2
  BY <1>1, <1>2 DEF NoiseArrives
<1>4. CASE Head(q) = "h2d_sigma2"
  <2>1. e.sigma2 = sigma2
    BY <1>1, <1>4 DEF NoiseArrives, DeviceEffect
  <2> QED  BY <1>3, <2>1 DEF NoiseArrives
<1>5. CASE Head(q) # "h2d_sigma2" /\ d.sigma2 = sigma2
  <2>1. e.sigma2 = sigma2
    BY <1>5 DEF DeviceEffect
  <2> QED  BY <1>3, <2>1 DEF NoiseArrives
<1>6. CASE Head(q) # "h2d_sigma2" /\ d.sigma2 # sigma2
  <2>1. PICK i \in 1 .. Len(q) : q[i] = "h2d_sigma2" /\ i + 2 <= Len(q)
    BY <1>6 DEF NoiseArrives
  <2>2. i # 1
    BY <1>1, <1>6, <2>1
  <2>3. i - 1 \in 1 .. Len(Tail(q)) /\ Tail(q)[i - 1] = "h2d_sigma2" /\ (i - 1) + 2 <= Len(Tail(q))
    BY <1>1, <2>1, <2>2
  <2> QED  BY <1>3, <2>3 DEF NoiseArrives
<1> QED  BY <1>4, <1>5, <1>6

LEMMA LastTwo ==
  ASSUME NEW q \in Seq(OpKinds), q # <<>>
  PROVE  /\ Len(Tail(q)) <= 1 => Len(q) = 2 \/ Len(q) = 1
         /\ Len(Tail(q)) = 0 => Len(q) = 1
<1>1. Len(q) \in Nat /\ Len(q) # 0 /\ Len(Tail(q)) = Len(q) - 1
  OBVIOUS
<1>2. \A n \in Nat : n # 0 => /\ n - 1 <= 1 => n = 2 \/ n = 1
                              /\ n - 1 = 0 => n = 1
  OBVIOUS
<1> QED  BY <1>1, <1>2

\* The last equalisation uses the noise it finds.
LEMMA NoiseUsedStep ==
  ASSUME NEW d, NEW h, NEW e, NEW g, NEW sigma2, NEW q \in Seq(OpKinds), q # <<>>,
         DeviceEffect(Head(q), d, h, e), HostEffect(Head(q), d, h, g),
         Len(q) = 2 => Head(q) = "equalize" /\ d.sigma2 = sigma2,
         Len(q) = 1 => Head(q) = "d2h_out",
         NoiseUsed(d, h, q, sigma2)
  PROVE  NoiseUsed(e, g, Tail(q), sigma2)
<1>1. Len(q) \in Nat /\ Len(q) >= 1 /\ Len(Tail(q)) = Len(q) - 1
  OBVIOUS
<1>2. Len(q) = 2 => e.out.sigma2 = sigma2
  BY DEF DeviceEffect
<1>3. Len(q) = 1 => e.out.sigma2 = sigma2 /\ g.out.sigma2 = sigma2
  <2> SUFFICES ASSUME Len(q) = 1 PROVE e.out.sigma2 = sigma2 /\ g.out.sigma2 = sigma2
    OBVIOUS
  <2>1. d.out.sigma2 = sigma2
    BY DEF NoiseUsed
  <2> QED  BY <2>1 DEF DeviceEffect, HostEffect
<1>4. /\ Len(Tail(q)) <= 1 => Len(q) = 2 \/ Len(q) = 1
      /\ Len(Tail(q)) = 0 => Len(q) = 1
  BY LastTwo
<1> QED  BY <1>2, <1>3, <1>4 DEF NoiseUsed

LEMMA NoiseExecute ==
  ASSUME RingInv, NoiseInv, NEW u \in Ids, Execute(u)
  PROVE  NoiseInv'
<1> DEFINE s == prepared.slot_index
           r == call.request
           sigma2 == IF prepared.valid THEN prepared.sigma2 ELSE dev[s].sigma2
<1>1. /\ stream[u] \in Seq(OpKinds) /\ stream[u] # <<>>
      /\ stream'[u] = Tail(stream[u])
      /\ DeviceEffect(Head(stream[u]), dev[u], slot[u], dev'[u])
      /\ HostEffect(Head(stream[u]), dev[u], slot[u], slot'[u])
      /\ \A t \in Ids \ {u} :
           dev'[t] = dev[t] /\ slot'[t] = slot[t] /\ stream'[t] = stream[t]
  BY ExecuteSlot DEF RingInv
<1>2. UNCHANGED <<prepared, pc, call, last, config, active_slot>>
  BY DEF Execute, noise, setup
<1>3. s \in Ids /\ Len(stream[u]) \in Nat /\ Len(stream[u]) > 0 /\ config \in Configs
  BY <1>1 DEF RingInv, TypeOK
<1>4. UsesThePreparedNoise'
  BY <1>2 DEF NoiseInv, UsesThePreparedNoise, Answered
<1>5. ASSUME prepared.valid
      PROVE  NoiseArrives(dev'[s], slot'[s], stream'[s], prepared.sigma2)
  <2>1. NoiseArrives(dev[s], slot[s], stream[s], prepared.sigma2)
    BY <1>5 DEF NoiseInv
  <2>2. PreparedOn(dev[s], slot[s], stream[s], prepared.key)
    BY <1>5 DEF RingInv, PreparedInv
  <2>3. CASE u = s
    <3>1. Head(stream[s]) = stream[s][1] /\ 1 \in 1 .. Len(stream[s])
      BY <1>1, <2>3
    <3>2. Head(stream[s]) # "estimate"
      BY <2>2, <3>1 DEF PreparedOn, ReuseKinds
    <3> QED  BY <1>1, <2>1, <2>3, <3>2, NoiseArrivesStep
  <2>4. CASE u # s
    BY <1>1, <1>3, <2>1, <2>4
  <2> QED  BY <2>3, <2>4
<1>6. ASSUME pc = "final", u = s
      PROVE  NoiseUsed(dev'[s], slot'[s], stream'[s],
                       IF prepared.valid THEN prepared.sigma2 ELSE dev'[s].sigma2)
  <2>1. /\ NoiseUsed(dev[s], slot[s], stream[s], sigma2)
        /\ IF prepared.valid THEN Equalizing(dev[s], slot[s], stream[s], r)
           ELSE EqualizingMiss(dev[s], slot[s], stream[s], r)
    BY <1>6 DEF NoiseInv, RingInv, SyncInv, SyncPhases
  <2>2. Len(stream[s]) <= 2 => Head(stream[s]) = EqualizeOps[2 - Len(stream[s]) + 1]
    <3>1. CASE prepared.valid
      <4>1. EndsWith(stream[s], EqualizeOps) /\ EqualizeOps \in Seq(OpKinds)
            /\ Len(EqualizeOps) = 2
        BY <2>1, <3>1 DEF Equalizing, EqualizeOps, OpKinds
      <4> QED  BY <1>1, <1>3, <1>6, <4>1, NextOp
    <3>2. CASE ~prepared.valid
      <4>1. EndsWith(stream[s], EqualizingMissOps) /\ EqualizingMissOps \in Seq(OpKinds)
            /\ Len(EqualizingMissOps) = 5
        BY <2>1, <3>2 DEF EqualizingMiss, EqualizingMissOps, OpKinds
      <4>2. Len(stream[s]) <= 5 => Head(stream[s]) = EqualizingMissOps[5 - Len(stream[s]) + 1]
        BY <1>1, <1>3, <1>6, <4>1, NextOp
      <4>3. \A n \in Nat : n > 0 /\ n <= 2 =>
              EqualizingMissOps[5 - n + 1] = EqualizeOps[2 - n + 1] /\ n <= 5
        <5>1. \A n \in Nat : n > 0 /\ n <= 2 => n = 1 \/ n = 2
          OBVIOUS
        <5> QED  BY <5>1 DEF EqualizingMissOps, EqualizeOps
      <4> QED  BY <1>3, <1>6, <4>2, <4>3
    <3> QED  BY <3>1, <3>2
  <2>3. /\ Len(stream[s]) = 2 => Head(stream[s]) = "equalize"
        /\ Len(stream[s]) = 1 => Head(stream[s]) = "d2h_out"
    <3>1. Len(stream[s]) = 2 => Head(stream[s]) = EqualizeOps[2 - 2 + 1]
      BY <2>2
    <3>2. Len(stream[s]) = 1 => Head(stream[s]) = EqualizeOps[2 - 1 + 1]
      BY <2>2
    <3> QED  BY <3>1, <3>2 DEF EqualizeOps
  <2>4. Len(stream[s]) = 2 => dev[s].sigma2 = sigma2
    <3> SUFFICES ASSUME prepared.valid, Len(stream[s]) = 2 PROVE dev[s].sigma2 = sigma2
      OBVIOUS
    <3> QED  BY DEF NoiseInv, NoiseArrives
  <2>5. NoiseUsed(dev'[s], slot'[s], stream'[s], sigma2)
    <3> HIDE DEF sigma2
    <3> QED  BY <1>1, <1>6, <2>1, <2>3, <2>4, NoiseUsedStep
  <2>6. Len(stream'[s]) <= 1 => dev'[s].sigma2 = dev[s].sigma2
    <3>1. Len(stream'[s]) <= 1 => Len(stream[s]) = 2 \/ Len(stream[s]) = 1
      BY <1>1, <1>6, LastTwo
    <3> QED  BY <1>1, <1>6, <2>3, <3>1 DEF DeviceEffect
  <2>7. Len(stream'[s]) = 0 => Len(stream'[s]) <= 1
    OBVIOUS
  <2> QED  BY <2>5, <2>6, <2>7 DEF NoiseUsed
<1>7. pc = "final" => NoiseUsed(dev'[s], slot'[s], stream'[s],
                                IF prepared.valid THEN prepared.sigma2 ELSE dev'[s].sigma2)
  <2>1. u # s => dev'[s] = dev[s] /\ slot'[s] = slot[s] /\ stream'[s] = stream[s]
    BY <1>1, <1>3
  <2> QED  BY <1>6, <2>1 DEF NoiseInv
<1> QED  BY <1>2, <1>4, <1>5, <1>7 DEF NoiseInv

LEMMA Appended ==
  ASSUME NEW q \in Seq(OpKinds), NEW ops \in Seq(OpKinds)
  PROVE  /\ Len(q) \in Nat /\ Len(q \o ops) = Len(q) + Len(ops)
         /\ \A i \in 1 .. Len(q) : (q \o ops)[i] = q[i]
         /\ \A i \in 1 .. Len(q \o ops) :
              \/ i \in 1 .. Len(q)
              \/ \E j \in 1 .. Len(ops) : (q \o ops)[i] = ops[j]
<1>1. \A i \in 1 .. Len(q \o ops) :
        i \in 1 .. Len(q) \/ (i - Len(q) \in 1 .. Len(ops) /\ (q \o ops)[i] = ops[i - Len(q)])
  OBVIOUS
<1> QED  BY <1>1

LEMMA NoiseMiss ==
  ASSUME RingInv, "run" \notin Faults, NEW r \in Requests, RunMiss(r)
  PROVE  NoiseInv'
<1> DEFINE s == next_stage_slot
           ops == EstimateOps \o (IF device_owned THEN EqualizeOps ELSE <<>>)
<1>1. /\ Queue(s, ops) /\ pc' = IF device_owned THEN "final" ELSE "mid"
      /\ last' = Nothing /\ prepared'.valid = FALSE /\ prepared'.slot_index = s
  BY DEF RunMiss, QueuePart, BeginCall, StageMiss
<1>2. s \in Ids /\ stream \in [Ids -> Seq(OpKinds)] /\ device_owned \in BOOLEAN
  BY DEF RingInv, TypeOK
<1>3. pc' = "final" => Len(stream'[s]) \in Nat /\ Len(stream'[s]) >= 5
  <2> SUFFICES ASSUME device_owned PROVE Len(stream'[s]) \in Nat /\ Len(stream'[s]) >= 5
    BY <1>1
  <2>1. ops = EqualizingMissOps /\ EqualizingMissOps \in Seq(OpKinds)
        /\ Len(EqualizingMissOps) = 5
    BY JoinedOps DEF EqualizingMissOps, OpKinds
  <2> HIDE DEF ops
  <2>2. stream'[s] = stream[s] \o EqualizingMissOps /\ stream[s] \in Seq(OpKinds)
    BY <1>1, <1>2, <2>1 DEF Queue
  <2> QED  BY <2>1, <2>2, EndsWithQueued
<1> QED  BY <1>1, <1>3 DEF NoiseInv, NoiseUsed, UsesThePreparedNoise, Answered, Nothing

LEMMA NoiseHit ==
  ASSUME RingInv, NoiseInv, "run" \notin Faults, NEW r \in Requests, RunHit(r)
  PROVE  NoiseInv'
<1> DEFINE s == prepared.slot_index
<1>1. /\ prepared.valid /\ prepared' = prepared /\ dev' = dev
      /\ Queue(s, ReuseOps) /\ pc' = "final" /\ last' = Nothing
      /\ slot' = [slot EXCEPT ![s].meta = r]
  BY DEF RunHit, Hit, QueuePart, BeginCall, StageHit
<1>2. s \in Ids /\ stream[s] \in Seq(OpKinds) /\ stream \in [Ids -> Seq(OpKinds)]
  BY DEF RingInv, TypeOK
<1>3. ReuseOps \in Seq(OpKinds) /\ Len(ReuseOps) = 3
      /\ \A j \in 1 .. Len(ReuseOps) : ReuseOps[j] # "h2d_sigma2"
  <2>1. \A j \in 1 .. 3 : j = 1 \/ j = 2 \/ j = 3
    OBVIOUS
  <2>2. ReuseOps = <<"h2d_meta", "equalize", "d2h_out">>
    BY ReuseOpsJoined
  <2> QED  BY <2>1, <2>2 DEF OpKinds
<1>4. stream'[s] = stream[s] \o ReuseOps
  BY <1>1, <1>2 DEF Queue
<1>5. /\ Len(stream[s]) \in Nat /\ Len(stream'[s]) = Len(stream[s]) + 3
      /\ \A i \in 1 .. Len(stream[s]) : stream'[s][i] = stream[s][i]
      /\ \A i \in 1 .. Len(stream'[s]) : stream'[s][i] = "h2d_sigma2" => i \in 1 .. Len(stream[s])
  <2> DEFINE q == stream[s]
             p == stream'[s]
  <2>1. q \in Seq(OpKinds) /\ p = q \o ReuseOps
    BY <1>2, <1>4
  <2> HIDE DEF q, p
  <2>2. /\ Len(q) \in Nat /\ Len(p) = Len(q) + Len(ReuseOps)
        /\ \A i \in 1 .. Len(q) : p[i] = q[i]
        /\ \A i \in 1 .. Len(p) : \/ i \in 1 .. Len(q)
                                  \/ \E j \in 1 .. Len(ReuseOps) : p[i] = ReuseOps[j]
    BY <1>3, <2>1, Appended
  <2>3. \A i \in 1 .. Len(p) : p[i] = "h2d_sigma2" => i \in 1 .. Len(q)
    BY <1>3, <2>2
  <2>4. Len(p) = Len(q) + 3
    BY <1>3, <2>2
  <2> QED  BY <2>2, <2>3, <2>4 DEF q, p
<1>6. ~(Len(stream'[s]) <= 1) /\ Len(stream'[s]) # 0
  BY <1>5
<1>7. slot'[s].sigma2_host = slot[s].sigma2_host
  BY <1>1, <1>2 DEF RingInv, ShapeInv, BlankSlot
<1>8. NoiseArrives(dev[s], slot[s], stream[s], prepared.sigma2)
  BY <1>1 DEF NoiseInv
<1>9. NoiseArrives(dev[s], slot'[s], stream'[s], prepared.sigma2)
  <2>1. \A i \in 1 .. Len(stream'[s]) : stream'[s][i] = "h2d_sigma2" =>
          slot'[s].sigma2_host = prepared.sigma2
    BY <1>5, <1>7, <1>8 DEF NoiseArrives
  <2>2. CASE dev[s].sigma2 = prepared.sigma2
    BY <2>1, <2>2 DEF NoiseArrives
  <2>3. CASE dev[s].sigma2 # prepared.sigma2
    <3>1. PICK i \in 1 .. Len(stream[s]) : stream[s][i] = "h2d_sigma2" /\ i + 2 <= Len(stream[s])
      BY <1>8, <2>3 DEF NoiseArrives
    <3>2. i \in 1 .. Len(stream'[s]) /\ stream'[s][i] = "h2d_sigma2" /\ i + 2 <= Len(stream'[s])
      BY <1>5, <3>1
    <3> QED  BY <2>1, <3>2 DEF NoiseArrives
  <2> QED  BY <2>2, <2>3
<1>10. UsesThePreparedNoise'
  BY <1>1 DEF UsesThePreparedNoise
<1> QED  BY <1>1, <1>6, <1>9, <1>10 DEF NoiseInv, NoiseUsed

LEMMA NoiseMid ==
  ASSUME RingInv, "run" \notin Faults, MidSync
  PROVE  NoiseInv'
<1> DEFINE s == active_slot
           state == update_sigma2_state(sigma2_by_cell[call.request.cell_id],
                                        slot[s].estimate, config)
<1>1. /\ pc = "mid" /\ pc' = "final" /\ stream[s] = <<>> /\ Queue(s, NoisyEqualizeOps)
      /\ prepared' = [prepared EXCEPT !.sigma2 = state.value, !.valid = TRUE]
      /\ slot' = [slot EXCEPT ![s].sigma2_host = state.value]
  BY DEF MidSync, QueuePart, Idle
<1> HIDE DEF state
<1>2. prepared.slot_index = s /\ s \in Ids /\ stream \in [Ids -> Seq(OpKinds)]
  BY <1>1 DEF RingInv, SyncInv, SyncPhases, TypeOK
<1>3. prepared'.slot_index = s /\ prepared'.sigma2 = state.value /\ prepared'.valid = TRUE
  BY <1>1, <1>2 DEF RingInv, ShapeInv, NotPrepared
<1>4. slot'[s].sigma2_host = state.value
  BY <1>1, <1>2 DEF RingInv, ShapeInv, BlankSlot
<1>5. stream'[s] = <<>> \o NoisyEqualizeOps
  BY <1>1, <1>2 DEF Queue
<1>6. stream'[s] = NoisyEqualizeOps
  <2>1. NoisyEqualizeOps \in Seq(OpKinds)
    BY ReuseOpsJoined DEF OpKinds
  <2> QED  BY <1>5, <2>1
<1>7. Len(stream'[s]) = 3 /\ stream'[s][1] = "h2d_sigma2"
  BY <1>6, ReuseOpsJoined
<1>8. NoiseArrives(dev'[s], slot'[s], stream'[s], prepared'.sigma2)
  <2>1. 1 \in 1 .. Len(stream'[s]) /\ 1 + 2 <= Len(stream'[s])
    BY <1>7
  <2> QED  BY <1>3, <1>4, <1>7, <2>1 DEF NoiseArrives
<1>9. UsesThePreparedNoise'
  BY <1>1 DEF UsesThePreparedNoise
<1>10. ~(Len(stream'[s]) <= 1) /\ Len(stream'[s]) # 0
  BY <1>7
<1> QED  BY <1>3, <1>8, <1>9, <1>10 DEF NoiseInv, NoiseUsed

\* The noise a call reports is the one its outputs were equalised with.
LEMMA NoiseFinish ==
  ASSUME RingInv, NoiseInv, NEW outcome \in {"ok", "too_small", "invalid"}, Finish(outcome)
  PROVE  NoiseInv'
<1> DEFINE s == active_slot
           noise_power == slot[s].out.sigma2
<1>1. /\ pc = "final" /\ pc' = "idle" /\ stream[s] = <<>> /\ stream' = stream /\ dev' = dev
      /\ IF device_owned
         THEN prepared' = [prepared EXCEPT !.sigma2 = noise_power, !.valid = TRUE]
         ELSE prepared' = prepared
      /\ IF outcome = "invalid"
         THEN slot' = slot
         ELSE slot' = [slot EXCEPT ![s].output_ready = TRUE] /\ completed_slot' = s
      /\ IF outcome = "ok"
         THEN last'.answer.symbols = slot[completed_slot'].out
         ELSE last' = last
  BY DEF Finish, Idle, device, noise
<1>2. /\ last = Nothing /\ prepared.slot_index = s /\ s \in Ids
      /\ ~prepared.valid => device_owned
      /\ device_owned \in BOOLEAN /\ prepared.valid \in BOOLEAN
  BY <1>1 DEF RingInv, SyncInv, SyncPhases, TypeOK
<1>3. Len(stream[s]) = 0
  BY <1>1
<1>4. prepared.valid => noise_power = prepared.sigma2 /\ dev[s].sigma2 = prepared.sigma2
  <2> SUFFICES ASSUME prepared.valid
               PROVE  noise_power = prepared.sigma2 /\ dev[s].sigma2 = prepared.sigma2
    OBVIOUS
  <2>1. noise_power = prepared.sigma2
    BY <1>1, <1>2, <1>3 DEF NoiseInv, NoiseUsed
  <2>2. NoiseArrives(dev[s], slot[s], stream[s], prepared.sigma2)
    BY <1>2 DEF NoiseInv
  <2> QED  BY <1>3, <2>1, <2>2 DEF NoiseArrives
<1>5. ~prepared.valid => noise_power = dev[s].sigma2
  BY <1>1, <1>2, <1>3 DEF NoiseInv, NoiseUsed
<1> HIDE DEF noise_power
<1>6. /\ prepared'.slot_index = s /\ prepared'.sigma2 = noise_power
      /\ dev[s].sigma2 = noise_power
  <2>1. CASE device_owned
    <3>1. prepared' = [prepared EXCEPT !.sigma2 = noise_power, !.valid = TRUE]
      BY <1>1, <2>1
    <3> QED  BY <1>2, <1>4, <1>5, <3>1 DEF RingInv, ShapeInv, NotPrepared
  <2>2. CASE ~device_owned
    BY <1>1, <1>2, <1>4, <2>2
  <2> QED  BY <2>1, <2>2
<1>7. NoiseArrives(dev'[s], slot'[s], stream'[s], prepared'.sigma2)
  <2>1. \A i \in 1 .. Len(stream'[s]) : FALSE
    BY <1>1, <1>3
  <2> QED  BY <1>1, <1>6, <2>1 DEF NoiseArrives
<1>8. UsesThePreparedNoise'
  <2> SUFFICES ASSUME Answered' PROVE last'.answer.symbols.sigma2 = prepared'.sigma2
    BY DEF UsesThePreparedNoise
  <2>1. outcome = "ok"
    BY <1>1, <1>2 DEF Answered, Nothing
  <2>2. last'.answer.symbols = slot[s].out
    BY <1>1, <2>1
  <2> QED  BY <1>6, <2>2 DEF noise_power
<1> QED  BY <1>1, <1>6, <1>7, <1>8 DEF NoiseInv

\* Collecting and discarding leave the prepared subframe alone.
LEMMA NoiseSettles ==
  ASSUME RingInv, NoiseInv, pc \in BatchPhases,
         dev' = dev, stream' = stream, prepared' = prepared, pc' # "final",
         call'.kind = call.kind,
         slot' = slot \/ \E t : slot' = [slot EXCEPT ![t].submitted = FALSE]
  PROVE  NoiseInv'
<1> DEFINE s == prepared.slot_index
<1>1. slot'[s].sigma2_host = slot[s].sigma2_host
  <2>1. CASE slot' = slot
    BY <2>1
  <2>2. ASSUME NEW t, slot' = [slot EXCEPT ![t].submitted = FALSE]
        PROVE  slot'[s].sigma2_host = slot[s].sigma2_host
    BY <2>2 DEF RingInv, TypeOK, ShapeInv, BlankSlot
  <2> QED  BY <2>1, <2>2
<1>2. call.kind # "run"
  BY SetupAssumption DEF RingInv, BatchInv, BatchCalls
<1>3. UsesThePreparedNoise'
  BY <1>2 DEF UsesThePreparedNoise
<1> QED  BY <1>1, <1>3 DEF NoiseInv, NoiseArrives

LEMMA NoiseHolds ==
  ASSUME RingInv, NoiseInv, [Next]_vars, "run" \notin Faults, "sync" \notin Faults
  PROVE  NoiseInv'
<1>1. ASSUME NEW cfg \in Configs, NEW owned \in Owners,
             InitFails(cfg, owned) \/ \E n \in 1 .. MaxSlots : InitContext(cfg, owned, n)
      PROVE  NoiseInv'
  <2>1. pc = "idle" /\ Reset
    BY <1>1 DEF InitFails, InitContext
  <2>2. prepared'.valid = FALSE /\ last' = Nothing /\ pc' = "idle"
    BY <2>1 DEF Reset, NotPrepared
  <2> QED  BY <2>2 DEF NoiseInv, UsesThePreparedNoise, Answered, Nothing
<1>2. ASSUME NEW r \in Requests, RunMiss(r) \/ RunHit(r)
      PROVE  NoiseInv'
  BY <1>2, NoiseMiss, NoiseHit
<1>3. ASSUME NEW family \in Families, NEW rs \in Batches, BatchBegin(family, rs)
      PROVE  NoiseInv'
  <2>1. UNCHANGED <<prepared, dev, stream, slot>> /\ pc' = "submit" /\ last' = Nothing
    BY <1>3 DEF BatchBegin, BeginCall, noise, device, ring
  <2> QED  BY <2>1 DEF NoiseInv, UsesThePreparedNoise
<1>4. ASSUME NEW s \in Ids, Execute(s)
      PROVE  NoiseInv'
  BY <1>4, NoiseExecute
<1>5. CASE HostStep
  <2>1. CASE MidSync
    BY <2>1, NoiseMid
  <2>2. ASSUME NEW outcome \in {"ok", "too_small", "invalid"}, Finish(outcome)
        PROVE  NoiseInv'
    BY <2>2, NoiseFinish
  <2>3. \A s : ~SyncFails(s)
    BY DEF SyncFails
  <2>4. ~RunSyncFails
    BY <2>3 DEF RunSyncFails
  <2>5. CASE Submit
    <3>1. prepared'.valid = FALSE /\ pc' \in BatchPhases
      BY <2>5 DEF Submit, SubmitStage, StageMiss, BatchPhases
    <3> QED  BY <3>1 DEF NoiseInv, UsesThePreparedNoise, BatchPhases
  <2>6. ASSUME SubmitRejected \/ Guard \/ Collect \/ CollectFails \/ Discard
        PROVE  NoiseInv'
    <3>1. pc \in BatchPhases /\ call \in BatchCalls
      BY <2>6 DEF SubmitRejected, Guard, Collect, CollectFails, Discard, BatchPhases, RingInv,
                  BatchInv
    <3>2. /\ UNCHANGED <<dev, stream, prepared>> /\ pc' # "final"
          /\ slot' = slot \/ \E t : slot' = [slot EXCEPT ![t].submitted = FALSE]
      BY <2>3, <2>6 DEF SubmitRejected, Guard, Collect, CollectFails, Discard, GiveUp, noise,
                        device, ring
    <3>3. call'.kind = call.kind
      BY <2>6, <3>1 DEF SubmitRejected, Guard, Collect, CollectFails, Discard, BatchCalls
    <3> QED  BY <3>1, <3>2, <3>3, NoiseSettles
  <2> QED  BY <1>5, <2>1, <2>2, <2>4, <2>5, <2>6 DEF HostStep
<1>6. CASE Rest \/ UNCHANGED vars
  <2>1. UNCHANGED <<prepared, dev, stream, slot, pc, last, call>>
    BY <1>6 DEF Rest, vars, ring, noise, device
  <2> QED  BY <2>1 DEF NoiseInv, UsesThePreparedNoise, Answered
<1> QED  BY <1>1, <1>2, <1>3, <1>4, <1>5, <1>6 DEF Next

\* A synchronous call equalises with the noise of the prepared subframe, the first
\* call and every later one that reuses it (mmse_equalizer_gpu.cpp:1244), as long
\* as no enqueue and no wait of a synchronous call fails.
THEOREM CallsUseThePreparedNoise ==
  ASSUME "run" \notin Faults, "sync" \notin Faults
  PROVE  Spec => []UsesThePreparedNoise
<1>1. Init => NoiseInv
  BY DEF Init, NoiseInv, NotPrepared, UsesThePreparedNoise, Answered, Nothing
<1>2. RingInv /\ NoiseInv /\ [Next]_vars => NoiseInv'
  BY NoiseHolds
<1>3. NoiseInv => UsesThePreparedNoise
  BY DEF NoiseInv
<1> QED  BY <1>1, <1>2, <1>3, RingInvariance, PTL DEF Spec

=============================================================================
