------------------------------- MODULE GpuRing -------------------------------
(***************************************************************************)
(* MmseEqualizerGpuContext of src/mmse_equalizer_gpu.cpp on its CUDA       *)
(* backend: a ring of slots, each with pinned host buffers, device buffers *)
(* and a stream of its own.  The host writes a slot, queues copies and     *)
(* kernels on its stream and waits for the stream when it needs a result;  *)
(* the device executes each stream in order, and streams in any order.  An *)
(* asynchronous copy reads or writes host memory when it executes, not     *)
(* when it is queued.                                                      *)
(*                                                                         *)
(* A synchronous call (run, run_pdcch_td, ...) equalises one channel; a    *)
(* batch submits decodes to up to slot_count slots before it collects the  *)
(* first.  Queueing an operation, waiting and checking a result can fail:  *)
(* Faults says which of these do.                                          *)
(***************************************************************************)
EXTENDS NoiseState, Sequences, FiniteSets

CONSTANTS
  Grids, Cells,
  Residual,        (* the CRS residual of the samples of a grid               *)
  Requests,        (* what synchronous calls are made for                     *)
  Batches,         (* the sequences of requests batches are made of           *)
  Families,        (* of "common" and "fixed": the batch calls made           *)
  Owners,          (* values of device-owned sigma2 a configuration may have  *)
  Faults,          (* of "run", "submit", "check", "sync", "init"             *)
  MaxSlots,        (* kPinnedRingSlotCount: the largest stream_count          *)
  MaxCalls,        (* bound: calls and batches                                *)
  MaxInits         (* bound: successful calls of init                         *)

\* The layout of a request is what differs between channels of one subframe.
ASSUME ResidualAssumption == Residual \in [Grids -> Nat]
ASSUME RequestsAssumption ==
  /\ \A r \in Requests : r.grid \in Grids /\ r.cell_id \in Cells
  /\ Batches \subseteq Seq(Requests) \ {<<>>}
ASSUME SetupAssumption ==
  /\ Families \subseteq {"common", "fixed"}
  /\ Owners \subseteq BOOLEAN
ASSUME MaxSlotsAssumption == MaxSlots \in Nat \ {0}

Ids == 0 .. (MaxSlots - 1)
AtMost(a, b) == IF a < b THEN a ELSE b

VARIABLES
  initialized, config, slot_count, device_owned,
  \* The ring: host side of each slot, and where the next request goes.
  slot, next_stage_slot, active_slot, completed_slot, next_sequence,
  \* The prepared subframe, and the smoothed noise of each cell.
  prepared, sigma2_by_cell,
  \* The device: what is queued on each stream, and the buffers of each slot.
  stream, dev,
  \* The host thread: where it is, and the call it is in.
  pc, call,
  \* History: the latest result returned to the caller, and counters.
  last, calls, inits

ring == <<slot, next_stage_slot, active_slot, completed_slot, next_sequence>>
noise == <<prepared, sigma2_by_cell>>
device == <<stream, dev>>
setup == <<initialized, config, slot_count, device_owned, inits>>
vars == <<setup, ring, noise, device, pc, call, last, calls>>

Nothing == [status |-> "none"]

BlankSlot ==
  [transport |-> "none", meta |-> Nothing, owned |-> FALSE, sigma2_host |-> 0,
   estimate |-> 0, out |-> Nothing, result |-> Nothing, submitted |-> FALSE,
   output_ready |-> FALSE, sequence |-> 0]

BlankDevice ==
  [grid |-> "none", meta |-> Nothing, owned |-> FALSE, sigma2 |-> 0, h |-> Nothing,
   candidates |-> Nothing, out |-> Nothing, result |-> Nothing]

NoCall == [kind |-> "none"]
NotPrepared == [valid |-> FALSE, key |-> Nothing, slot_index |-> 0, sigma2 |-> 0]

-----------------------------------------------------------------------------
(* The device.                                                             *)

\* H depends on the samples and on the cell the metadata was made for.
EstimateOf(grid, cell) == [grid |-> grid, cell_id |-> cell]

\* What executing operation op does to the device buffers d of a slot whose
\* host side is h.
OnDevice(op, d, h) ==
  CASE op = "h2d_grid" ->
         [d EXCEPT !.grid = h.transport, !.meta = h.meta, !.owned = h.owned]
    [] op = "h2d_meta" -> [d EXCEPT !.meta = h.meta, !.owned = h.owned]
    [] op = "h2d_sigma2" -> [d EXCEPT !.sigma2 = h.sigma2_host]
    [] op = "estimate" ->
         [d EXCEPT !.h = EstimateOf(d.grid, d.meta.cell_id),
                   !.sigma2 = finalize_sigma2(d.sigma2, Residual[d.grid], config, d.owned)]
    [] op = "equalize" ->
         [d EXCEPT !.out = [status |-> "ok", grid |-> d.grid, h |-> d.h, meta |-> d.meta,
                            sigma2 |-> d.sigma2]]
    [] op = "h2d_candidates" -> [d EXCEPT !.candidates = h.meta]
    [] op = "decode" ->
         [d EXCEPT !.result = [symbols |-> d.out, candidates |-> d.candidates]]
    [] OTHER -> d

\* What it does to the host buffers.
OnHost(op, d, h) ==
  CASE op = "d2h_sigma2" -> [h EXCEPT !.estimate = d.sigma2]
    [] op = "d2h_out" -> [h EXCEPT !.out = d.out]
    [] op = "d2h_result" -> [h EXCEPT !.result = d.result]
    [] OTHER -> h

Execute(s) ==
  /\ stream[s] # <<>>
  /\ LET op == Head(stream[s])
     IN  /\ dev' = [dev EXCEPT ![s] = OnDevice(op, @, slot[s])]
         /\ slot' = [slot EXCEPT ![s] = OnHost(op, dev[s], @)]
  /\ stream' = [stream EXCEPT ![s] = Tail(@)]
  /\ UNCHANGED <<setup, next_stage_slot, active_slot, completed_slot, next_sequence,
                 noise, pc, call, last, calls>>

Idle(s) == stream[s] = <<>>

-----------------------------------------------------------------------------
(* Operations queued on a stream.  A copy or kernel that cannot be queued  *)
(* ends the call, and what was queued before it stays queued.              *)

Queue(s, ops) == stream' = [stream EXCEPT ![s] = @ \o ops]

QueuePart(s, ops, fault) ==
  /\ fault \in Faults
  /\ \E n \in 0 .. (Len(ops) - 1) : Queue(s, SubSeq(ops, 1, n))

\* First use of a slot: samples, metadata and, when the device smooths, the
\* noise state; then the channel estimate.
EstimateOps ==
  IF device_owned THEN <<"h2d_grid", "h2d_sigma2", "estimate">>
  ELSE <<"h2d_grid", "estimate", "d2h_sigma2">>

EqualizeOps == <<"equalize", "d2h_out">>
ReuseOps == <<"h2d_meta">> \o EqualizeOps

\* Mutant: the smoothed noise is not sent back to the device.
NoisyEqualizeWithoutNoise == EqualizeOps

NoisyEqualizeOps == <<"h2d_sigma2">> \o EqualizeOps

\* A decode keeps the noise on the device whoever owns it otherwise.
DecodeOps ==
  <<"h2d_grid", "h2d_sigma2", "estimate", "equalize", "h2d_candidates", "decode", "d2h_result">>

-----------------------------------------------------------------------------
(* stage_inputs.                                                           *)

KeyOf(r) == [grid |-> r.grid, cell_id |-> r.cell_id]
Hit(r) == prepared.valid /\ prepared.key = KeyOf(r)

\* A miss overwrites the next slot of the ring, whatever its stream does.
StageMiss(r, owned, submitted) ==
  LET s == next_stage_slot
      noise_power == IF owned THEN sigma2_to_device(sigma2_by_cell[r.cell_id])
                     ELSE slot[s].sigma2_host
      staged == [slot[s] EXCEPT !.transport = r.grid, !.meta = r, !.owned = owned,
                                !.sigma2_host = noise_power, !.out = Nothing,
                                !.result = Nothing, !.submitted = submitted,
                                !.output_ready = FALSE, !.sequence = next_sequence]
  IN  /\ slot' = [slot EXCEPT ![s] = staged]
      /\ next_sequence' = next_sequence + 1
      /\ active_slot' = s
      /\ next_stage_slot' = (s + 1) % slot_count
      /\ prepared' = [valid |-> FALSE, key |-> KeyOf(r), slot_index |-> s,
                      sigma2 |-> prepared.sigma2]

\* Mutant: a hit keeps the layout of the call before.
StageHitKeepingLayout(r) ==
  /\ active_slot' = prepared.slot_index
  /\ UNCHANGED <<slot, next_stage_slot, next_sequence, prepared>>

\* A hit selects the slot of the prepared subframe, and the call refreshes the
\* layout it describes.
StageHit(r) ==
  /\ active_slot' = prepared.slot_index
  /\ slot' = [slot EXCEPT ![prepared.slot_index].meta = r]
  /\ UNCHANGED <<next_stage_slot, next_sequence, prepared>>

-----------------------------------------------------------------------------
(* init.                                                                   *)

\* reset_runtime_state: buffers, streams and the prepared subframe go, the
\* noise states stay.
Reset ==
  /\ slot' = [s \in Ids |-> BlankSlot]
  /\ dev' = [s \in Ids |-> BlankDevice]
  /\ stream' = [s \in Ids |-> <<>>]
  /\ next_stage_slot' = 0
  /\ active_slot' = 0
  /\ completed_slot' = 0
  /\ next_sequence' = 1
  /\ prepared' = NotPrepared
  /\ last' = Nothing
  /\ UNCHANGED <<sigma2_by_cell, pc, call, calls>>

\* Mutant: one stream more than the ring has slots is accepted.
InitOneTooMany(cfg, owned, n) ==
  /\ pc = "idle"
  /\ inits < MaxInits
  /\ inits' = inits + 1
  /\ config' = cfg
  /\ device_owned' = owned
  /\ slot_count' = n + 1
  /\ initialized' = TRUE
  /\ Reset

InitContext(cfg, owned, n) ==
  /\ pc = "idle"
  /\ inits < MaxInits
  /\ inits' = inits + 1
  /\ config' = cfg
  /\ device_owned' = owned
  /\ slot_count' = n
  /\ initialized' = TRUE
  /\ Reset

\* No device, no stream or no memory: everything is released again.
InitFails(cfg, owned) ==
  /\ "init" \in Faults
  /\ pc = "idle"
  /\ inits < MaxInits
  /\ inits' = inits + 1
  /\ config' = cfg
  /\ device_owned' = owned
  /\ slot_count' = 0
  /\ initialized' = FALSE
  /\ Reset

-----------------------------------------------------------------------------
(* A synchronous call.                                                     *)

BeginCall(c) ==
  /\ initialized
  /\ pc = "idle"
  /\ calls < MaxCalls
  /\ calls' = calls + 1
  /\ call' = c
  /\ last' = Nothing

\* The stream is queued up to the first point where the host must wait: the
\* noise estimate of a miss it smooths itself, else the outputs.
RunMiss(r) ==
  LET s == next_stage_slot
      ops == EstimateOps \o (IF device_owned THEN EqualizeOps ELSE <<>>)
  IN  /\ ~Hit(r)
      /\ BeginCall([kind |-> "run", request |-> r])
      /\ StageMiss(r, device_owned, FALSE)
      /\ \/ Queue(s, ops) /\ pc' = IF device_owned THEN "final" ELSE "mid"
         \/ QueuePart(s, ops, "run") /\ pc' = "idle"
      /\ UNCHANGED <<setup, completed_slot, sigma2_by_cell, dev>>

RunHit(r) ==
  LET s == prepared.slot_index
  IN  /\ Hit(r)
      /\ BeginCall([kind |-> "run", request |-> r])
      /\ StageHit(r)
      /\ \/ Queue(s, ReuseOps) /\ pc' = "final"
         \/ QueuePart(s, ReuseOps, "run") /\ pc' = "idle"
      /\ UNCHANGED <<setup, completed_slot, sigma2_by_cell, dev>>

\* The mid-stream wait is over: smooth the noise, send it back, equalise.
MidSync ==
  LET s == active_slot
      cell == call.request.cell_id
      state == update_sigma2_state(sigma2_by_cell[cell], slot[s].estimate, config)
  IN  /\ pc = "mid"
      /\ Idle(s)
      /\ sigma2_by_cell' = [sigma2_by_cell EXCEPT ![cell] = state]
      /\ prepared' = [prepared EXCEPT !.sigma2 = state.value, !.valid = TRUE]
      /\ slot' = [slot EXCEPT ![s].sigma2_host = state.value]
      /\ \/ Queue(s, NoisyEqualizeOps) /\ pc' = "final"
         \/ QueuePart(s, NoisyEqualizeOps, "run") /\ pc' = "idle"
      /\ UNCHANGED <<setup, next_stage_slot, active_slot, completed_slot, next_sequence,
                     dev, call, last, calls>>

\* The final wait is over.  A noise state smoothed by the device is read back
\* from the scratch; then the outputs are checked and copied to the caller.
Finish(outcome) ==
  LET s == active_slot
      noise_power == slot[s].out.sigma2
      state == [initialized |-> TRUE, value |-> noise_power]
  IN  /\ pc = "final"
      /\ Idle(s)
      /\ IF device_owned
         THEN /\ sigma2_by_cell' = [sigma2_by_cell EXCEPT ![call.request.cell_id] = state]
              /\ prepared' = [prepared EXCEPT !.sigma2 = noise_power, !.valid = TRUE]
         ELSE UNCHANGED noise
      /\ IF outcome = "invalid"
         THEN UNCHANGED <<slot, completed_slot>>
         ELSE /\ slot' = [slot EXCEPT ![s].output_ready = TRUE]
              /\ completed_slot' = s
      /\ IF outcome = "ok"
         THEN last' = [status |-> "ok", request |-> call.request,
                       answer |-> [symbols |-> slot[completed_slot'].out,
                                   candidates |-> call.request]]
         ELSE UNCHANGED last
      /\ pc' = "idle"
      /\ UNCHANGED <<setup, next_stage_slot, active_slot, next_sequence, device, call, calls>>

\* A wait that fails: the stream has stopped, nothing on it executes any more.
SyncFails(s) ==
  /\ "sync" \in Faults
  /\ stream' = [stream EXCEPT ![s] = <<>>]

RunSyncFails ==
  /\ pc \in {"mid", "final"}
  /\ SyncFails(active_slot)
  /\ pc' = "idle"
  /\ UNCHANGED <<setup, ring, noise, dev, call, last, calls>>
-----------------------------------------------------------------------------
(* A batch: groups of up to slot_count requests are submitted, then        *)
(* collected in the same order.  call.pending holds the slots submitted    *)
(* and not collected yet, call.next the request to submit next, call.done  *)
(* how many have been answered.  A single decode is a batch of one.        *)

\* Mutant: a group is one longer than the ring.
GroupEndOneTooFar == AtMost(call.group + slot_count + 1, Len(call.requests))

GroupEnd == AtMost(call.group + slot_count, Len(call.requests))

BatchBegin(family, rs) ==
  /\ BeginCall([kind |-> family, requests |-> rs, group |-> 0, next |-> 1, done |-> 0,
                pending |-> <<>>])
  /\ pc' = "submit"
  /\ UNCHANGED <<setup, ring, noise, device>>

\* Submission gives up: what was submitted before is collected and discarded.
GiveUp(pending) == pc' = IF pending = <<>> THEN "idle" ELSE "discard"

SubmitRejected ==
  /\ pc = "submit"
  /\ "submit" \in Faults
  /\ GiveUp(call.pending)
  /\ UNCHANGED <<setup, ring, noise, device, call, last, calls>>

\* The prepared subframe is dropped, so that a decode always estimates afresh.
SubmitStage(r) ==
  LET s == next_stage_slot
      ops == DecodeOps
  IN  /\ pc = "submit"
      /\ \/ /\ StageMiss(r, TRUE, TRUE)
            /\ Queue(s, ops)
            /\ call' = [call EXCEPT !.next = @ + 1, !.pending = Append(@, s)]
            /\ pc' = IF call.next = GroupEnd THEN "collect" ELSE "submit"
         \/ /\ StageMiss(r, TRUE, FALSE)
            /\ QueuePart(s, ops, "submit")
            /\ UNCHANGED call
            /\ pc' = "guard"
      /\ UNCHANGED <<setup, completed_slot, sigma2_by_cell, dev, last, calls>>

Submit == SubmitStage(call.requests[call.next])

\* The guard of a failed submission waits for what it had queued.
Guard ==
  /\ pc = "guard"
  /\ \/ Idle(active_slot) /\ UNCHANGED stream
     \/ SyncFails(active_slot)
  /\ GiveUp(call.pending)
  /\ UNCHANGED <<setup, ring, noise, dev, call, last, calls>>

\* The host waits for the first slot still pending.
Collected == Head(call.pending)

Collect ==
  LET s == Collected
      group_done == Len(call.pending) = 1
      batch_done == call.done + 1 = Len(call.requests)
  IN  /\ pc = "collect"
      /\ slot[s].submitted
      /\ Idle(s)
      /\ slot' = [slot EXCEPT ![s].submitted = FALSE]
      /\ completed_slot' = s
      /\ last' = [status |-> "ok", request |-> call.requests[call.done + 1],
                  answer |-> slot[s].result]
      /\ call' = [call EXCEPT !.done = @ + 1, !.pending = Tail(@),
                              !.group = IF group_done THEN call.done + 1 ELSE @]
      /\ pc' = IF batch_done THEN "idle" ELSE IF group_done THEN "submit" ELSE "collect"
      /\ UNCHANGED <<setup, next_stage_slot, active_slot, next_sequence, noise, device, calls>>

\* The wait fails, or the result that came back is refused.  The fixed family
\* collects the rest of the group; the common-search family returns at once.
CollectFails ==
  LET s == Collected
  IN  /\ pc = "collect"
      /\ \/ SyncFails(s) /\ UNCHANGED slot
         \/ ~slot[s].submitted /\ UNCHANGED <<slot, stream>>
         \/ /\ "check" \in Faults
            /\ Idle(s)
            /\ slot' = [slot EXCEPT ![s].submitted = FALSE]
            /\ UNCHANGED stream
      /\ call' = [call EXCEPT !.pending = Tail(@)]
      /\ IF call.kind = "fixed" THEN GiveUp(Tail(call.pending)) ELSE pc' = "idle"
      /\ UNCHANGED <<setup, next_stage_slot, active_slot, completed_slot, next_sequence,
                     noise, dev, last, calls>>

\* Mutant: draining does not go on to the next slot.
DiscardTheSame ==
  LET s == Collected
  IN  /\ pc = "discard"
      /\ Idle(s)
      /\ slot' = [slot EXCEPT ![s].submitted = FALSE]
      /\ UNCHANGED <<setup, next_stage_slot, active_slot, completed_slot, next_sequence,
                     noise, device, pc, call, last, calls>>

Discard ==
  LET s == Collected
  IN  /\ pc = "discard"
      /\ \/ SyncFails(s) /\ UNCHANGED slot
         \/ /\ Idle(s)
            /\ slot' = [slot EXCEPT ![s].submitted = FALSE]
            /\ UNCHANGED stream
      /\ call' = [call EXCEPT !.pending = Tail(@)]
      /\ GiveUp(Tail(call.pending))
      /\ UNCHANGED <<setup, next_stage_slot, active_slot, completed_slot, next_sequence,
                     noise, dev, last, calls>>

-----------------------------------------------------------------------------
Init ==
  /\ initialized = FALSE
  /\ config \in Configs
  /\ slot_count = 0
  /\ device_owned = FALSE
  /\ slot = [s \in Ids |-> BlankSlot]
  /\ next_stage_slot = 0
  /\ active_slot = 0
  /\ completed_slot = 0
  /\ next_sequence = 1
  /\ prepared = NotPrepared
  /\ sigma2_by_cell = [c \in Cells |-> NoState]
  /\ stream = [s \in Ids |-> <<>>]
  /\ dev = [s \in Ids |-> BlankDevice]
  /\ pc = "idle"
  /\ call = NoCall
  /\ last = Nothing
  /\ calls = 0
  /\ inits = 0

\* What a call does until it returns.
HostStep ==
  \/ MidSync
  \/ \E outcome \in {"ok", "too_small", "invalid"} : Finish(outcome)
  \/ RunSyncFails
  \/ Submit \/ SubmitRejected \/ Guard
  \/ Collect \/ CollectFails \/ Discard

\* The caller need not call again.
Rest == pc = "idle" /\ UNCHANGED vars

Next ==
  \/ \E cfg \in Configs, owned \in Owners :
       InitFails(cfg, owned) \/ \E n \in 1 .. MaxSlots : InitContext(cfg, owned, n)
  \/ \E r \in Requests : RunMiss(r) \/ RunHit(r)
  \/ \E family \in Families, rs \in Batches : BatchBegin(family, rs)
  \/ HostStep
  \/ \E s \in Ids : Execute(s)
  \/ Rest

Spec == Init /\ [][Next]_vars

\* The device makes progress on every stream, and the host on its call.
FairSpec == Spec /\ WF_vars(HostStep) /\ \A s \in Ids : WF_vars(Execute(s))

-----------------------------------------------------------------------------
Phases == {"idle", "mid", "final", "submit", "guard", "collect", "discard"}
OpKinds == {"h2d_grid", "h2d_meta", "h2d_sigma2", "h2d_candidates", "estimate", "equalize",
            "decode", "d2h_sigma2", "d2h_out", "d2h_result"}

TypeOK ==
  /\ initialized \in BOOLEAN
  /\ config \in Configs
  /\ slot_count \in 0 .. MaxSlots
  /\ device_owned \in BOOLEAN
  /\ {next_stage_slot, active_slot, completed_slot} \subseteq Ids
  /\ next_sequence \in Nat
  /\ prepared.slot_index \in Ids /\ prepared.valid \in BOOLEAN /\ prepared.sigma2 \in Nat
  /\ sigma2_by_cell \in [Cells -> NoiseStates]
  /\ stream \in [Ids -> Seq(OpKinds)]
  /\ pc \in Phases
  /\ \A s \in Ids : {slot[s].submitted, slot[s].output_ready, slot[s].owned} \subseteq BOOLEAN
  /\ calls \in Nat /\ inits \in Nat

Answered == last.status = "ok"

\* Every answer was computed from the samples, cell, layout and candidates of
\* its own request, whatever the order the streams ran in, which slots were
\* reused, and which calls failed half-way before (mmse_equalizer_gpu.cpp:873).
AnswersTheRequest ==
  Answered =>
    LET r == last.request
        symbols == last.answer.symbols
    IN  /\ symbols.status = "ok"
        /\ symbols.grid = r.grid
        /\ symbols.h = EstimateOf(r.grid, r.cell_id)
        /\ symbols.meta = r
        /\ last.answer.candidates = r

\* The noise the device equalised with is never below the configured floor,
\* also after init has raised it.
FloorKept == Answered => last.answer.symbols.sigma2 >= config.sigma2_min

\* A synchronous call equalises with the noise of the prepared subframe: the
\* first call and every later one that reuses it (mmse_equalizer_gpu.cpp:1244).
UsesThePreparedNoise ==
  (Answered /\ pc = "idle" /\ call.kind = "run") =>
    last.answer.symbols.sigma2 = prepared.sigma2

\* "A slot is reused only after its stream has been synchronized or its pending
\* decode has been collected" (mmse_equalizer_gpu.cpp:197).
SlotReusedWhenDrained ==
  [][\A s \in Ids : slot'[s].sequence > slot[s].sequence => Idle(s)]_vars

\* Every call returns once the device has executed what was queued.
EveryCallReturns == (pc # "idle") ~> (pc = "idle")

-----------------------------------------------------------------------------
(* The inductive invariant behind AnswersTheRequest and FloorKept.  A      *)
(* stream may still hold operations of a call that failed, but what the    *)
(* call in progress queued is at its end: how many operations are left     *)
(* tells which of them have executed.  d, h and q stand for the device     *)
(* side, the host side and the stream of the slot that serves request r.   *)

Floored(sigma2) == sigma2 \in Nat /\ sigma2 >= config.sigma2_min

\* The last operations of q are those of ops, as far as they are still there.
EndsWith(q, ops) ==
  \A i \in 1 .. Len(ops) :
    i <= Len(q) => q[Len(q) - i + 1] = ops[Len(ops) - i + 1]

\* Symbols, and decoded candidates, that answer r.
SymbolsFor(out, r) ==
  /\ out.status = "ok" /\ out.grid = r.grid /\ out.meta = r
  /\ out.h = EstimateOf(r.grid, r.cell_id)
  /\ Floored(out.sigma2)

ResultFor(result, r) == SymbolsFor(result.symbols, r) /\ result.candidates = r

\* The samples, and then the channel, of r are on the device.
SamplesOn(d, r) == d.grid = r.grid /\ d.meta = r
ChannelOn(d, r) ==
  d.grid = r.grid /\ d.h = EstimateOf(r.grid, r.cell_id) /\ Floored(d.sigma2)

\* The slot was staged for r by a miss.
StagedFor(h, r) == h.transport = r.grid /\ h.meta = r

\* The device will smooth the noise it finds with the state sent to it.
DeviceSmooths(h) == h.owned = TRUE /\ h.sigma2_host \in Nat

\* What a slot staged for r holds when so many of DecodeOps are left to execute.
DecodingAt(left, d, h, r) ==
  /\ StagedFor(h, r) /\ DeviceSmooths(h)
  /\ h.submitted
  /\ left <= 6 => SamplesOn(d, r) /\ d.owned = TRUE
  /\ left <= 5 => d.sigma2 \in Nat
  /\ left <= 4 => ChannelOn(d, r)
  /\ left <= 3 => SymbolsFor(d.out, r)
  /\ left <= 2 => d.candidates = r
  /\ left <= 1 => ResultFor(d.result, r)
  /\ left = 0 => ResultFor(h.result, r)

Decoding(d, h, q, r) == EndsWith(q, DecodeOps) /\ DecodingAt(Len(q), d, h, r)

\* A miss whose noise the device smooths.
EqualizingMissOps == <<"h2d_grid", "h2d_sigma2", "estimate", "equalize", "d2h_out">>
EqualizingMissAt(left, d, h, r) ==
  /\ StagedFor(h, r) /\ DeviceSmooths(h)
  /\ left <= 4 => SamplesOn(d, r) /\ d.owned = TRUE
  /\ left <= 3 => d.sigma2 \in Nat
  /\ left <= 2 => ChannelOn(d, r)
  /\ left <= 1 => SymbolsFor(d.out, r)
  /\ left = 0 => SymbolsFor(h.out, r)

EqualizingMiss(d, h, q, r) ==
  EndsWith(q, EqualizingMissOps) /\ EqualizingMissAt(Len(q), d, h, r)

\* A miss whose noise the host will smooth.
EstimatingOps == <<"h2d_grid", "estimate", "d2h_sigma2">>
EstimatingAt(left, d, h, r) ==
  /\ StagedFor(h, r) /\ h.owned = FALSE
  /\ left <= 2 => SamplesOn(d, r) /\ d.owned = FALSE
  /\ left <= 1 => ChannelOn(d, r)
  /\ left = 0 => h.estimate \in Nat

Estimating(d, h, q, r) == EndsWith(q, EstimatingOps) /\ EstimatingAt(Len(q), d, h, r)

\* What the prepared subframe still has queued leaves its channel alone.
ReuseKinds == {"h2d_meta", "h2d_sigma2", "equalize", "d2h_out"}

PreparedOn(d, h, q, key) ==
  /\ ChannelOn(d, key)
  /\ \A i \in 1 .. Len(q) :
       q[i] \in ReuseKinds /\ (q[i] = "h2d_sigma2" => Floored(h.sigma2_host))

\* Equalising with the channel of the prepared subframe: the layout of r is on
\* the device, or the operation before EqualizeOps brings it there.
EqualizingAt(left, d, h, r) ==
  /\ h.meta = r
  /\ left <= 2 => d.meta = r
  /\ left <= 1 => SymbolsFor(d.out, r)
  /\ left = 0 => SymbolsFor(h.out, r)

Equalizing(d, h, q, r) ==
  /\ EndsWith(q, EqualizeOps)
  /\ Len(q) > 2 => q[Len(q) - 2] = "h2d_meta" \/ d.meta = r
  /\ EqualizingAt(Len(q), d, h, r)

ShapeInv ==
  /\ DOMAIN slot = Ids /\ DOMAIN dev = Ids
  /\ \A s \in Ids : DOMAIN slot[s] = DOMAIN BlankSlot /\ DOMAIN dev[s] = DOMAIN BlankDevice
  /\ \A s \in Ids : slot[s].sequence \in Nat
  /\ DOMAIN prepared = DOMAIN NotPrepared
  /\ initialized => slot_count > 0
  /\ slot_count > 0 => next_stage_slot < slot_count

PreparedInv ==
  prepared.valid =>
    LET s == prepared.slot_index
    IN  PreparedOn(dev[s], slot[s], stream[s], prepared.key)

SyncPhases == {"mid", "final"}
BatchPhases == {"submit", "guard", "collect", "discard"}

SyncInv ==
  pc \in SyncPhases =>
    LET s == active_slot
        r == call.request
    IN  /\ initialized
        /\ call = [kind |-> "run", request |-> r] /\ r \in Requests
        /\ last = Nothing
        /\ prepared.slot_index = s /\ prepared.key = KeyOf(r)
        /\ pc = "mid" => ~prepared.valid /\ Estimating(dev[s], slot[s], stream[s], r)
        /\ pc = "final" =>
             IF prepared.valid THEN Equalizing(dev[s], slot[s], stream[s], r)
             ELSE device_owned /\ EqualizingMiss(dev[s], slot[s], stream[s], r)

BatchCalls ==
  [kind : Families, requests : Batches, group : Nat, next : Nat, done : Nat,
   pending : Seq(Ids)]

\* The slot that is n places behind the next one on the ring.
Behind(n) ==
  IF n <= next_stage_slot THEN next_stage_slot - n ELSE next_stage_slot - n + slot_count

\* The pending slots are the ones staged last, in that order.
PendingRound(pending) ==
  /\ Len(pending) <= slot_count
  /\ \A i \in 1 .. Len(pending) : pending[i] = Behind(Len(pending) - i + 1)

BatchInv ==
  pc \in BatchPhases =>
    /\ initialized
    /\ call \in BatchCalls
    /\ pc = "discard" => call.pending # <<>>
    /\ pc \in {"submit", "guard"} =>
         /\ call.done = call.group
         /\ call.next = call.group + 1 + Len(call.pending)
         /\ call.next <= GroupEnd
    /\ pc = "collect" =>
         /\ call.pending # <<>>
         /\ call.group <= call.done
         /\ GroupEnd = call.done + Len(call.pending)
         /\ call.next = GroupEnd + 1
    /\ pc \in {"submit", "collect"} =>
         /\ PendingRound(call.pending)
         /\ \A i \in 1 .. Len(call.pending) :
              LET s == call.pending[i]
              IN  Decoding(dev[s], slot[s], stream[s], call.requests[call.done + i])

AnswerInv == Answered => SymbolsFor(last.answer.symbols, last.request)
                         /\ last.answer.candidates = last.request

RingInv == TypeOK /\ ShapeInv /\ PreparedInv /\ SyncInv /\ BatchInv /\ AnswerInv

\* Behind SlotReusedWhenDrained, where neither a synchronous call fails half-way
\* nor a common-search batch returns early: the streams with operations left are
\* those the call in progress is going to wait for.
AwaitedBy(s) ==
  \/ pc \in SyncPhases \cup {"guard"} /\ s = active_slot
  \/ pc \in BatchPhases /\ \E i \in 1 .. Len(call.pending) : call.pending[i] = s

DrainInv == \A s \in Ids : ~Idle(s) => AwaitedBy(s)

\* Behind UsesThePreparedNoise, where synchronous calls do not fail half-way: the
\* noise of the prepared subframe is on the device, or on its way there ahead of
\* an equalisation, and the last equalisation has used it.
NoiseArrives(d, h, q, sigma2) ==
  /\ \A i \in 1 .. Len(q) : q[i] = "h2d_sigma2" => h.sigma2_host = sigma2
  /\ d.sigma2 = sigma2 \/ \E i \in 1 .. Len(q) : q[i] = "h2d_sigma2" /\ i + 2 <= Len(q)

NoiseUsed(d, h, q, sigma2) ==
  /\ Len(q) <= 1 => d.out.sigma2 = sigma2
  /\ Len(q) = 0 => h.out.sigma2 = sigma2

NoiseInv ==
  LET s == prepared.slot_index
  IN  /\ prepared.valid => NoiseArrives(dev[s], slot[s], stream[s], prepared.sigma2)
      /\ pc = "final" =>
           NoiseUsed(dev[s], slot[s], stream[s],
                     IF prepared.valid THEN prepared.sigma2 ELSE dev[s].sigma2)
      /\ UsesThePreparedNoise

=============================================================================
