# A TLA+ development of MMSE_CPP

MMSE_CPP is an LTE downlink SDK: it takes the FFT-domain samples of a subframe,
estimates the channel from the cell-specific reference signals (CRS), equalises
the resource elements (REs) of a channel by MMSE, and carries the symbols on to
PDCCH decoding and a PDSCH handoff.  This directory holds TLA+ models of its
stateful core and of the receiver's stages, the TLC configurations that check
them, and TLAPS proofs.  Paths
below are relative to the repository; line numbers are those of the sources the
modules were translated from.

## 1. Inventory

| Component | Source | State it keeps | Operations | What is hard |
|---|---|---|---|---|
| `StaticThreadPool` | `src/thread_pool.cpp` | ticket (`generation`), reports, ranges, callback, `stop`, threads | `init`, `stop`, `parallel_for`, worker loop | lost wakeups, mixed snapshots, early return, stop against a new ticket |
| CPU context | `src/mmse_equalizer_cpu.cpp` | configuration, one prepared subframe (key, H, sigma2), noise per cell | `init`, `run`, ten channel entry points | stale key, failure after preparation, init of a context in use |
| Chunked dispatch | same, 1381-1499 | per-worker ranges | `run_channel_from_prepared_estimate` | rounding, more workers than elements |
| RE layouts, CRS estimate, MMSE maths | same, 488-1334; `src/mmse_avx2.cpp` | none | pure | index arithmetic, float equality of two paths |
| CUDA backend | `src/mmse_equalizer_gpu.cpp` | ring of slots, prepared subframe, noise per cell, streams | `init`, `run`, wrappers, PDCCH decode and batches | asynchronous copies, slot reuse, failures half-way through a queue |
| Auto backend | same, 1390-1424, 2068- | slots, and a CPU context | the same entry points without a device | two caches on top of each other |
| CUDA runtime | `src/mmse_cuda_runtime.cu`, stub, header | device buffers of a slot | copies, kernels, synchronisation | order of operations, noise kernel equal to the host's |
| PDCCH module API | `include/mmse/pdcch_module_api.h` | a search's result while it runs | PCFICH/PHICH reservations, REG/CCE mapping, four blind searches, rate recovery, DCI 1A | index arithmetic, rounding on narrow bands, rejects and failures in mid-search |
| PDCCH chain SDK | `include/mmse/pdcch_chain_sdk.h` | geometry cache of the caller | geometry search | stale lock, false lock, ambiguity, failure half-way through a search |
| Tail-biting Viterbi | `src/pdcch_tail_biting_decoder.cpp` | none | `decode` | start and end state, ties |
| Soft demodulation, descrambling | `include/mmse/lte_soft_demod.h`, `lte_descrambling.h`, `pdsch_module_api.h` | the caller's PDSCH descrambling plan | LLRs, Gold sequence | shortcuts per modulation, unrolled registers, a stale plan |
| PDSCH handoff, MCS/TBS | `include/mmse/pdcch_pdsch_handoff.h`, `lte_pdsch_transport.h` | none | allocation decoding, table lookup | ranges of RIV and tables |
| Module APIs, DTOs, types | the other headers of `include/mmse` | none | validation | - |
| Benchmarks, scripts, build, reports | `bench`, `scripts`, `cmake`, `outputs`, `figures` | - | - | - |

How they interact.  A CPU context owns a pool and calls `parallel_for` once per
equalised channel; the callback's context is a local of the calling frame.  All
entry points of a context share one prepared subframe, looked up by pointers,
shape, cell, subframe, ports and the caller's `generation`.  A GPU context owns
a ring of slots (host buffers, device buffers, a stream each) and a CPU context:
the CUDA backend queues work on streams and waits for them, the Auto backend
copies the samples to a slot and hands the slot's view to the CPU context.

What makes each component correct:

- pool: a call is a barrier, every chunk runs exactly once, nobody sleeps on a
  condition that holds, `stop` joins everyone;
- dispatch: workers write disjoint elements and together all of them;
- CPU context: an equalisation uses the estimate of its own samples; the noise
  of a cell counts every prepared subframe once; what is reported was used;
- CUDA backend: an answer is computed from its own request whatever the streams
  do; a slot is not overwritten in flight; a reused subframe keeps its noise;
- Auto backend: the same promises as the CPU context, seen from the caller;
- control region: REGs are numbered as 36.211 numbers them, a reservation costs
  exactly its REGs, and a candidate reads what a transmitter wrote there;
- layouts: each channel gets its own elements, each once, in an order its reader
  can undo;
- estimate and equalisers: an affine channel is estimated exactly; symbols are
  unbiased and the reported ratio is the true one;
- soft bits: max-log LLRs of the constellation, scrambled as the transmitter was,
  whatever shortcut, unrolling or cached plan produced them;
- rate recovery and decoder: the inverse of rate matching, and a most likely
  tail-biting codeword, the same on host and device;
- searches: what is sent in a search space is reported once at its level, nothing
  else is, and the counters account for every candidate;
- handoff: a grant describes the PDSCH that was assigned, in a form the equaliser
  accepts;
- geometry search: a lock serves only the cell and subframe kind it was found
  for, and a cell that keeps transmitting is found again in bounded time.

`PROJECT.json` lists the hazards at their lines with the properties that would
catch them.

## 2. Modules

| Module | Models | Correspondence |
|---|---|---|
| `Chunking` | how elements are cut into ranges | `chunk_count`, the loop at cpu:1438-1444; a range is `<<begin, end>>` of a half-open interval |
| `ForkJoin` | abstract: what `parallel_for` promises | a call with a set of chunks; each is executed once, then the call returns |
| `ThreadPool` | `StaticThreadPool` | one action per critical section of the mutex; the fields of `Impl` are variables; `fn` and `ctx` of a call are its number |
| `CpuDispatch` | context on the pool | `Dispatch(n)` cuts a channel of `n` elements and enters the pool with it |
| `NoiseState` | the noise IIR of host and kernel | operators only; a power is a natural number, `sigma2_iir_alpha` is a fraction of `AlphaUnit` |
| `NoiseOwnership` | host-owned against device-owned noise | both owners fed the same residuals, with `init` in between |
| `CpuContext` | the CPU context | one action per call: `prepare_subframe_if_needed`, then equalise or fail; `Reject` is every return before that |
| `AutoBackend` | the Auto backend, EXTENDS `CpuContext` | `Stage` copies samples to the next slot; `RunFallback` is `cpu_fallback.run` on the slot's view |
| `GpuRing` | the CUDA backend | `slot` is the pinned host side, `dev` the device side, `stream` the queued operations; `Execute(s)` runs the head of a stream |
| `ControlRegion` | PCFICH and PHICH reservations (FDD, TDD, MBSFN), `build_pdcch_re_layout`, CCEs and common candidates | operators only; a REG is `<<symbol, prb, k>>`, an element `<<symbol, prb, tone>>`; reference definitions beside them |
| `GeometrySearch` | `run_pdcch_cpu_si_rnti_geometry_search`, EXTENDS `ControlRegion` | one action per way a call ends; what is hit follows from the layouts and what is on the air |
| `Gold` | `lte_descrambling.h` | operators; a register is an integer below 2^31, the unrolled loop a recursive function |
| `SoftDemod`, EXTENDS `Gold` | `lte_soft_demod.h`, the plan of `pdsch_module_api.h`, the LLR calls of the control channels, the PDCCH LLR kernel | levels in units of the norm of the constellation; layers `capacity` apart as in the output view |
| `TailBiting` | the Viterbi decoder of host and device | trellis of one start state, survivors and traceback, ties by the code's comparisons |
| `RateMatching` | `recover_pdcch_convolutional_rate_matched_llrs` and the recovery kernel with its table | a slot of the circular buffer collects the soft bits that arrive at it |
| `DciFormat1A` | CRC, RNTI mask, fields, `decode_pdcch_type2_riv`, MCS table, CRC kernel | words are sequences of bits |
| `ChannelEstimate`, EXTENDS `Gold`, `Equalisation` | CRS, LS samples, interpolation, residual | pilots are Gaussian integers in units of 1/sqrt 2; quotients are fractions |
| `Equalisation` | one and two layers, transmit diversity of two and four ports, `normalize_pdcch_td_cce_order` | an estimate is a fraction `[num, den]` |
| `ReLayouts`, EXTENDS `ChannelEstimate` | `descriptor_supported`, `validate_grid`, the layouts of the four channels | an element is its index in the grid; the PDCCH's comes from `ControlRegion` |
| `PdschGrant`, EXTENDS `ReLayouts`, `DciFormat1A` | `pdcch_pdsch_handoff.h` | refusals in the order of the code; the PRB bitmap is a set |
| `PdcchSearch`, EXTENDS `DciFormat1A` | the common, UE-specific, SI-RNTI and fixed-candidate searches | `search` is the call in progress, `result` what it reports; one candidate per step |
| `DownlinkReceiver` | the receiver built of all these | searches and handoffs; PDSCH calls on one plan; one action for each question to a stage |
| `MC...` | instances for TLC | values of the constants only |
| `Induction` | - | induction on numbers, the existence of iterates, the unfolding of folds, the joining of sequences, sequences without repetition and divisions with rest, for the proofs |
| `ThreadPoolProofs`, `GpuRingProofs`, `NoiseStateProofs`, `NoiseProofs`, `CpuContextProofs`, `GeometrySearchProofs`, `DownlinkReceiverProofs` | theorems and proofs | section 5 |

Composition: `CpuDispatch` puts `Chunking` on `ThreadPool`; `ThreadPool`
instantiates `ForkJoin` under a refinement mapping (`Contract`); `CpuContext`,
`NoiseOwnership` and `GpuRing` use the noise arithmetic of `NoiseState`;
`AutoBackend` is a `CpuContext` whose views are those of callers and slots;
`DownlinkReceiver` runs the searches of `PdcchSearch`, hands their hits to
`PdschGrant` and the descriptors to the checks of `ReLayouts`, and composes
`ReLayouts`, `Equalisation`, `SoftDemod`, `RateMatching`, `TailBiting` and
`DciFormat1A` into the chain from samples to fields (`ReceiveDci`).

Modelling decisions.

- *Thread pool.*  A wait on a condition variable is two steps: evaluating the
  predicate under the lock, and, if it is false, joining the wait set in the same
  step.  `notify_all` and `notify_one` move waiting threads back; spurious
  wakeups are actions.  The callback runs between two critical sections, as a
  step that counts which chunk ran.  `SpawnFails` is `std::thread` throwing
  during `init`; the owner of such a pool may initialise it again or destroy it.
- *CPU context.*  A context is used by one thread at a time, so a call is atomic;
  what its `parallel_for` does inside is the subject of `ThreadPool`.  Samples are
  abstracted to a content, a channel estimate to what it was computed from.  The
  caller keeps the contract of `types.h:66-67`: new samples, new generation.
- *Noise.*  Powers are naturals and division truncates, in the host's step and in
  the kernel's alike.  The floor, the first estimate, the weights and the kernel's
  inference of "no previous state" are as in the code.  Non-finite values are not
  modelled.
- *CUDA backend.*  An asynchronous copy reads host memory when it executes.  Host
  writes of one call and the operations it queues are one action.  This removes
  only interleavings in which the stream of the slot being staged is not empty,
  which is what `SlotReusedWhenDrained` speaks about; a stream executes in order
  in either case.  A failing enqueue leaves the operations queued before it on
  the stream.  A failing wait leaves a stream that executes nothing more.  Which
  failures may happen is the constant `Faults`.  A single PDCCH decode is a batch
  of one.  The kernels between equalisation and result (LLR, rate recovery,
  Viterbi, CRC, compaction) are one operation, `decode`.  `init` discards what is
  queued with the streams.
- *Auto backend.*  A slot's buffers are taken to have the same address after a new
  `init` as before, which the allocator may or may not do.

- *Geometry search.*  The environment chooses a cell's DCI (or silence), at most one
  geometry under which noise passes the CRC, and whether an attempt fails.  A DCI is
  readable under a geometry when some candidate there begins at the same CCE (the
  descrambling offset depends on it) and covers the REGs the DCI begins with, in
  order: the code decodes every geometry from the same samples, so which of them hit
  is a question about layouts, and the model answers it with the layouts of
  `ControlRegion`.  A lower level that reads a prefix of the codeword is taken to
  decode it.  `Fails` also holds for a port count and mode without an equaliser.
  Reservations are those of FDD (the search sets `mi` to 1, and refuses TDD).  `acquired` and
  `stable` are history; `stable.calls` stops at five, the limit of misses plus one.

- *Searches.*  The environment says what is on the air; the decoder's word for a
  candidate follows from it.  A candidate of exactly the CCEs of a transmission
  decodes to what was sent; one that shares only the first CCE decodes to that word
  or to another; elsewhere the scrambling offset hides it, and the word carries an
  RNTI nobody searches for.  CRC, RNTI and field checks then run bit by bit.  A
  caller's decoder may fail at any candidate (`adapter`); the built-in one cannot,
  given what the searches hand to it.
- *Stages.*  The stages without state are operators.  An action of
  `DownlinkReceiver` asks one question, with an input from a small set, and records
  question and answer; a property compares the answer with a transmitter
  (`EncodeDci`, `Encode`, `SentOrder`, `Received`), with a definition (nearest
  point, exhaustive search over codewords, the register step by step) or with
  36.211 to 36.213.  These references share nothing with the operators they judge
  except the conventions section 4 lists.
- *Numbers.*  Complex numbers are pairs of integers and quotients are fractions, so
  that "exactly" means what it says; the clamps of determinant, gain and ratio
  would only touch fractions whose denominator is zero here.  The average of
  residuals of noise is taken over all sign patterns.
- *Grants.*  The table of transport block sizes is kept as its range.

## 3. Runs

| Run | Checks | Bounds, and why they suffice |
|---|---|---|
| `ThreadPool` | `IInv` (with `TypeOK`), `NoWorkerOutlivesTheCall`, `SnapshotIsTheCurrentCall`, `NoLostWakeup`, `EveryChunkRanOnce`, `ImplementsForkJoin` | owner and up to two background workers, three calls, two inits: a worker can be one call behind, a call can follow an init that followed a call; spans shorter and longer than the pool, with and without work |
| `CpuDispatch` | `WorkersWriteDisjointElements`, `EveryReEqualisedOnce`, `EveryCallReturns`, `StopJoinsEveryWorker` | one to four workers, zero to six elements: every remainder, idle workers, and ranges that begin past the end; liveness under `DispatchFairSpec` |
| `NoiseOwnership` | `OwnersAgree` | every weight in quarters, six residuals below, at and above the floor, two re-initialisations |
| `CpuContext` | `TypeOK`, `FreshEstimate`, `NoiseStateIsTheFold`, `NoiseStaysWithinEstimates`, `ReportsTheNoiseUsed` | inputs that differ from a base input in one key field each, two contents, two configurations, two inits, three calls: A, B, A and A, fail, A; one new generation per view |
| `AutoOneCounter` | `AutoFreshEstimate` | two callers, two slots, three calls, generations unique over all views |
| `AutoStale` | `AutoFreshEstimate`, violated | one slot, generations counted per view |
| `GeometrySearch` | `TypeOK`, `LockedWhereAcquired`, `ReacquiresAStableCell`, `RegsFollowTheStandard`, `CandidatesReadWhatWasSent` | cells of 25 PRBs that differ from a base cell in one field the cache compares each, one of 6 PRBs, one no equaliser supports; all 12 to 24 geometries of each; three DCIs (one and three symbols, both durations, both levels), one false hit; no bound on calls: the state space is finite |
| `DownlinkReceiver` | `SearchFindsWhatWasSent`, `SearchCountersAddUp`, `GrantsReachTheEqualiser`, `LlrsAreMaxLog`, `PlanIsTransparent`, `DecoderIsMaximumLikelihood`, `RecoveryInvertsRateMatching`, `DciRoundTrip`, `SymbolsAndRatiosAreTrue`, `EstimateIsExact`, `LayoutsCarryTheChannels`, `DciSurvivesTheChain` | below |
| `GpuRing` | `RingInv` (with `TypeOK`), `AnswersTheRequest`, `FloorKept` | one or two slots, two channels of a subframe and another subframe, batches of one and three requests (longer than the ring), both families, both noise owners, every failure, two inits, two calls or batches |
| `GpuRingDrained` | `UsesThePreparedNoise`, `SlotReusedWhenDrained`, `EveryCallReturns` | three calls; submissions and checks of results may fail, enqueueing of synchronous calls may not (see section 4); fixed-candidate batches; liveness under `FairSpec` |
| `GpuCommonBatch` | `SlotReusedWhenDrained`, violated | common-search batches, checks of results may fail |
| `GpuNoiseLost` | `UsesThePreparedNoise`, violated | enqueueing may fail |

The bounds of `DownlinkReceiver`.  Searches: regions of 20 CCEs (100 PRBs, one
symbol) and of 6 PRBs, one assignment at every place of levels one, two, four and
eight that a search space can reach in the subframe, mixes of assignments, uplink
grants, orders, reserved and distributed assignments, failing decoders, and requests
the code refuses; every order of outcomes follows, since a search is sequential.
Handoff: both port counts, each kind of hit.  PDSCH calls: every modulation, two
layers, views that are too small, and any sequence of them on one plan (bit counts
below, at and above multiples of eight).  Decoder: words of one to eight bits, clean,
noisy, erased and tied; eight bits are more than the six of the register, and all
256 codewords can be compared.  Rate recovery: two lengths, levels one (punctured)
and four (repeated twice over).  Allocations: all runs of 6 and 15 blocks, and runs at the
ends and across the half of 50 and 100 (where the indication value turns over).  Layouts: cells of every residue that matters, all port counts, all
configurations and subframes of TDD with both PHICH durations.  Estimates: affine
channels of one and four ports on twelve pilots (the outermost intervals and one
inside are all the kinds of interval there are).  The chain: one, two and four ports,
a punctured and a repeated word, the second CCE, a word over the full band.

Bounds are `MaxWorkers`, `MaxRe`, `MaxCalls`, `MaxInits`, `MaxGeneration`,
`MaxSlots` and `SlotCount`; each is a conjunct of a guard or a range.  Deadlock
is checked in every run: a pool that was destroyed, and an idle GPU context,
stutter explicitly (`Ended`, `Rest`); everything else must be able to go on.

Fairness.  `ThreadPool` assumes that the operating system runs every runnable
thread: weak fairness of each worker's loop and of the owner inside a call.
Nothing obliges the owner to call, and spurious wakeups are never owed.
`GpuRing` assumes that the device executes every stream with work (weak fairness
of each `Execute`) and that the host thread inside a call goes on; waits are
guards, so a wait for a stream that never drains would show as a call that does
not return.

## 4. Where the code and its comments differ

Each has a run that shows it.

1. `GpuCommonBatch`: `run_pdcch_gpu_common_search_decode_batch` returns at the
   first failed collection (gpu:2682) and leaves the rest of the group in flight;
   the next call stages over a running slot, against gpu:197-198.  The
   fixed-candidate batch drains the rest.
2. `GpuNoiseLost`: the subframe is marked prepared (gpu:1231) before its smoothed
   noise is queued to the device (gpu:1236).  If that fails, a later call reuses
   the subframe with the unsmoothed value, against gpu:1244.
3. `AutoStale`: the Auto backend's inner cache sees slot pointers with the caller's
   generation; two views with equal generations are indistinguishable, against
   gpu:872-874.  With generations unique over all views (`AutoOneCounter`) the
   promise holds.
Met while modelling, without a run of their own.  Of the control region: with four
ports, `build_pdcch_re_layout` visits the second REG of symbol 1 before that of
symbol 0 and the second of symbol 2 (cpu:565-574), whereas 36.211 6.2.4 and 6.8.5
number REGs by their lowest tone and then by symbol, so that `TimeFirst` is false
from two control symbols on; and extended PHICH numbers three REGs per PRB in
symbol 1 (api:131-145), which holds two with four ports (cpu:530), so that
`TakesWholeRegs` is false with several groups.  `docs/mmse_equalizer_tdd.md:6` names
36.211 as the standard the module is aligned with; `RegsFollowTheStandard` is
stated for one and two ports.  Of the CPU context: `init` of a context in use
with a higher `sigma2_min` keeps the prepared noise, against cpu:880, and the next
hit equalises below the floor.  Of the Auto backend: `run_pbch`, `run_pcfich` and
`run_pdcch` report the RE indices of a slot layout that is cleared and never filled
(gpu:2046).  Further: a synchronous call that fails
while it queues work leaves its slot in flight (`Faults` of `GpuRingDrained`
extended by `"run"` shows it); the kernel restarts the smoothing when `init` has
raised the floor above the previous value, the host goes on smoothing (a second
floor in `NoiseOwnership`); in the Auto backend a second channel of a subframe
goes to another slot and is estimated, and its noise folded, again; the
completion token does not change when a prepared subframe is reused.

Of the geometry search: at 6 PRBs the PHICH resources 1/6, 1/2 and 1 all reserve one
group, at 15 PRBs 1/6 and 1/2 do; their geometries have the same layout, all of them
are hit, and the search answers `kAmbiguous` and never locks (`README.md:325` has it
lock on a unique hit, which such a cell cannot have).  `ReacquiresAStableCell` is
stated for geometries that no other one equals in this way (`SetApart`).

Of the receiver's stages, against 36.211 to 36.213, with which
`docs/mmse_equalizer_tdd.md:6` says the module is aligned.  The properties are stated
with the convention of the code, so that they say the code is consistent with
itself there; a transmitter of the standard would show the difference.

- The amplitude bits of 16QAM to 256QAM are inverted with respect to 36.211
  7.1.3-7.1.5 (zero is the outer point); `tests/mmse_tests.cpp:313-364` has the same.
- Transmit diversity of two ports takes port 0 to send s0, s1* and port 1 s1, -s0*;
  four ports are paired (0, 1), (2, 3) where the standard pairs (0, 2), (1, 3).
- The CRS sequence starts at its first value for every bandwidth (the standard's
  index is m + 110 - N_RB), and ports 2 and 3 keep one frequency shift in both slots.
- The convolutional generators are applied with the newest bit lowest, the
  time-reverse of 36.212 5.1.3.1 (`tests/mmse_tests.cpp:436-451` encodes alike).
- The soft bits of two PDSCH layers are descrambled layer after layer with one
  initial value; the PDSCH layout does not leave out PBCH and synchronisation.

Of the searches: the common search gives up and clears its hits at the first word it
rejects, the other two go on (`docs/pdcch_chain_sdk_api_reference.md:753` describes
the UE-specific one); the SI search takes `kUnsupportedConfig` and
`kInvalidArgument` of a caller's decoder for a candidate without a DCI (api:1672); a
DCI readable at several levels from one CCE is reported at each.  Of the estimate:
ports 2 and 3 have no pilot before symbol 1, whose estimate symbol 0 holds; the
kernels always take 200 pilots, which is safe because the GPU's PDCCH entries refuse
other bands (gpu:2418, 2487, 2575).  Of `run`: it accepts a transmit-diversity PDSCH
descriptor and equalises it like one port (cpu:1501); the refusal of odd pairs in
`run_pdsch_td` (cpu:1554) cannot be reached, which is part of
`LayoutsCarryTheChannels`.

Known and covered by no property: `std::thread` throwing while a context in use is
initialised again leaves it `initialized` (thread_pool.cpp:44); a caller that gives
new samples an old generation meets the cache of the old ones (types.h:68), which the
models exclude; a decode smooths the noise on the device and does not write it back
to the host's state (gpu:1348); `release_runtime_state` frees the buffers of a slot
without waiting for the stream of a call that failed half-way (gpu:378), and a failed
wait leaves a copy into a local of the caller (gpu:1215).

## 5. Proofs

The theorems hold for every value of the constants allowed by the assumptions
named in the modules; TLC evaluates those assumptions in the runs.  Hypotheses
beyond these are part of a theorem's statement and are listed here with it.

- **Thread pool** (`ThreadPoolProofs`).  `Invariance` proves `Spec => []IInv`.
  The three safety properties are not inductive: that nobody holds a snapshot
  outside a call needs the accounting of reports.  `IInv` adds `ThreadsInv`
  (threads are `1 .. k`, all of them once init is over), `StopInv` (who may have
  set the flag), `TicketInv` (reports made plus workers that still owe one are
  `worker_count - 1` while a call is published, and the generation is complete
  exactly when none is owed), `PublishedInv` (the published data are the owner's
  call) and `HitsInv` (during a call a chunk has run as often as it should exactly
  if its thread is past it).  The counting steps use the cardinality lemmas of the
  library on the set `Pending`.  `TypeCorrectness` (`TypeOK` is a part of `IInv`),
  `CallsAreBarriers`, `SnapshotsAreConsistent` and `WakeupsAreNotLost` follow, and
  `ChunksRunExactlyOnce`: when a call returns nobody owes a report, so every chunk
  is past its thread.
- **Fork and join** (same module).  `PoolImplementsForkJoin`: under the refinement
  mapping of `ThreadPool` initial states are initial states of `ForkJoin`, and each
  action is a call, the execution of one chunk, a return, or a stutter.  The step in
  which the last report completes the ticket is the one that needs `HitsInv`.
- **Dispatch** (same module).  `DispatchInvariance` adds to `IInv` that the call in
  progress works on the chunks of the current channel.  With the lemmas about
  `chunk_count` and `ChunkRanges` (ranges are disjoint and cover `0 .. n_re - 1`, for
  more workers than elements too) `NoDataRaceOnTheOutput` and
  `ElementsAreEqualisedOnce` follow from it.
- **CUDA backend** (`GpuRingProofs`).  `RingInvariance` proves `RingInv` for every ring
  size, every request, both owners of the noise and every failure of `Faults`.
  `AnswersTheRequest` and `FloorKept` look at finished calls; `RingInv` says what is
  on its way: `PreparedInv` (the channel of the prepared subframe is on its slot's
  device, or only operations that keep it are queued there), `SyncInv` (the queue of a
  synchronous call is a tail of the operations it enqueued, and what has already run
  is in device and host memory), `BatchInv` (the pending decodes are the slots staged
  last, in order, each with a tail of its own operations) and `AnswerInv`.
  `EveryAnswerIsItsRequests` and `TheFloorIsKept` are consequences.
  `SlotsAreReusedWhenDrained` assumes that no enqueue of a synchronous call fails and
  that there are no common-search batches, since these are the two places where the
  code returns without draining (section 4); its invariant `DrainInv` says that a
  stream with work is one the call in progress is going to wait for.
  `CallsUseThePreparedNoise` assumes that neither an enqueue nor a wait of a
  synchronous call fails (the case of `GpuNoiseLost`); its `NoiseInv` says that the
  smoothed noise is on the device, or queued ahead of an equalisation.
- **Noise** (`NoiseStateProofs`, `NoiseProofs`).  The lemmas bound `AtLeast`, type
  the smoothing step, show that an update is at least the floor and that it lies
  between the previous value and the estimate.
  `OwnersAgreeWithOneFloor`: under `OneFloorOnly` (all configurations have the same
  `sigma2_min`) the device's test "previous value below the floor" is exactly the
  host's "not initialised", by the invariant that an initialised state is at
  least the floor; so both owners compute the same state.
- **CPU context** (`CpuContextProofs`).  `CpuContextTypes` proves `TypeOK`.
  `EstimatesAreFresh` proves `FreshEstimate` from the invariant that while the
  prepared subframe is valid and its generation is the view's current one, H is
  the estimate of the view's current content, and that no key has a generation
  the view has not reached.  `NoiseInvariance` adds `SnapshotInv`, that the prepared
  subframe is that of the latest admitted call and its noise the state of its cell; `ReportsAreTheNoiseUsed` and
  `NoiseIsBounded` are parts of it.  `NoiseIsTheFold`: the fold of the property is
  the value of a function on lengths; appending a call that prepared a subframe
  adds one step to it, every other action none.
- **Auto backend** (same module).  `AutoUsesTheCallersSamples` assumes `OneCounter`, that
  generations are unique over the callers' views: without it the property is false,
  which `AutoStale` shows.  The invariant: a generation determines a content, a
  staged slot holds the content of the generation it is labelled with, and so does
  the estimate the inner context has prepared from a slot.
- **Geometry search** (`GeometrySearchProofs`).  `LocksAreAcquired` proves
  `LockedWhereAcquired` for any cells, DCIs and layouts.  The property speaks of the
  last answer; the invariant that carries it from call to call is `LockInv`, that the
  cache's cell and geometry are those of the last search that locked, with the form of
  the cache and the range of its counter (`LockInvariance`).  `TypeInvariance` proves
  `TypeOK`.  `CellsHeardAloneAreReacquired`: a cell whose DCI only its own layout
  can show is found after five searches in a row.  `StableInv`: while such a cell keeps
  being heard, a lock is either the right one without a miss, or a stale one that has
  missed at every one of these searches, which the fourth miss gives up.
  `StableCellsAreReacquired` is the property of the run, from the
  hypothesis that layouts which are set apart do not show each other's DCIs; it is a
  fact about the layouts only, and TLC evaluates it for the cells of the run
  (`SetApartIsHeardAlone` in `MCGeometrySearch`).
- **Control region** (same module).  What the layouts are, for every cell id, number of
  ports, subframe kind and geometry: both properties are invariants as they stand.
  `CellsAssumption` is what `run_pdcch_cpu_si_rnti_geometry_search` asks of a request
  (sdk:309-313): one of the six LTE bandwidths, and FDD, where `mi` is one (sdk:243).
  `LayoutsAreRead` proves `CandidatesReadWhatWasSent`.  The 32 columns hold every
  number below n once, so that the read order is a permutation (`ReadOrderLists`); the
  receiver's cyclic shift undoes the transmitter's (`ShiftUndone`), and each REG is
  found where it was sent (`FoundOnce`, `TransmitterInverted`).  The physical REGs are
  lists without repetition joined PRB by PRB (`PhysicalRegsList`), hence the layout has
  none twice (`LayoutLists`).  `ReservationsAreWhole` proves `RegsFollowTheStandard`,
  for one and two ports: with four the property is false (section 4).  REGs are ordered
  by their lowest tone within a PRB (`PrbByTones`).  A symbol has room for all groups
  of its PHICH between the thirds of what is left beside PCFICH (`GroupsFit`, from the
  numbers of REGs of each bandwidth), so the REGs of different groups are apart
  (`PhichRegsApart`); as no REG shares a tone with another (`TonesApart`), a
  reserved one makes exactly itself unusable (`OneRegTaken`), and the REGs lost are
  counted.
- **Searches** (`DownlinkReceiverProofs`).  `CandidatesAreAccountedFor` proves
  `SearchCountersAddUp` for any transmissions, candidates and failures.  The property
  does not say that a running search knows its candidates; `CInv` adds that the
  counter of candidates is their number, that it returns after the last one, and the
  form of search and result, without which an `EXCEPT` says nothing.
- **Scrambling** (same module).  `UnrolledIsStepped`: generating eight samples per
  round with a remainder gives the sequence of one sample per round, for every length
  and register, by induction on the length in steps of eight.
  `ScramblingFollowsTheStandard`: these are the samples of 36.211, for every seed of 31
  bits and every length.  `Shows` relates the two: a register holds the last 31 samples
  of its sequence, the oldest lowest.  `ShiftedBits` (a shift moves every bit one place
  down) keeps that from step to step, and jumps and samples that are taken by halves
  are taken one by one (`ByHalves`).  `PlansAreTransparent`
  proves `PlanIsTransparent` for calls of any size in any order; `PlanKept`, that
  a valid plan holds the sequence of its own seed and length, is the invariant
  that makes a kept plan as good as a new one.  `PdschInputsAssumption` types the calls.
- **Soft bits** (same module).  `SoftBitsAreTheDefinition` proves `LlrsAreMaxLog`,
  which is an invariant as it stands, so the proof is about the answers: where the
  elements of the layers lie and where the bits of an element lie (`FlattenedParts`,
  `WhereElementsLie`, `PlainParts`), that an accepted view never reads behind its arrays
  (`ElementsAreRead`), the shortcuts of the modulations, and the sequence above for a
  seed of less than 31 bits, which the widths of the arguments ensure.  Assumed of the
  calls (`PdschInputsAssumption`, `ControlInputsAssumption`): these widths, arrays that
  hold `capacity` elements of every layer, and for the control channels as many
  elements as the arrays have, with a supported modulation and at least one layer.
  `SixteenQamIsMaxLog` and `SixtyFourQamIsMaxLog`:
  the shortcuts give the definition's LLRs for every symbol and ratio.  The argument:
  for a symbol on the positive side every level is nearer than its mirror image, and
  of the mirror images the innermost is the nearest (`OwnSideIsNearer`), so half of
  each minimum can be dropped; the negative side is the mirror image (`Mirrored`).
- **Symbols and ratios** (same module).  `SymbolsComeBackWithTheirRatios` proves
  `SymbolsAndRatiosAreTrue`, again about the answers.  Assumed of the questions
  (`DiversityInputsAssumption`, `LayersInputsAssumption`): two symbols of unit power,
  and channels whose two columns are independent, that is, whose determinant without
  noise is not zero (elsewhere the code divides by its floor).  The number of receive
  antennas is any.  Both equalisers solve the normal equations of two columns
  (`LayersSolveTheColumns`, `DiversitySolvesTheColumns`; for diversity the columns are
  those of a pair of elements, twice as long as there are antennas).  The sums over
  antennas are folds over sets; `SumsInOrder` and `TotalsInOrder` replace them by
  partial sums, after which everything is induction on the number of antennas.
  `InnerOfMix` gives the inner products of what is received with a column,
  `InnerOfUnit` those of unit noise, `NoiseLeft` the power of all the noise a
  combination of columns lets through.  That power is the combination's own norm,
  which is why the determinant is positive (`DeterminantPositive`: a determinant of
  zero would leave no noise, hence no channel) and why the reported ratio is the true
  one (`RatioIsTrue`).
- **Channel estimate** (same module).  `ChannelsAreEstimatedExactly` proves
  `EstimateIsExact`.  `EstimateInputsAssumption`: cells and subframes of the standard,
  one, two or four ports, at least two pilots per symbol, elements of one subframe,
  and channels with a constant slope in time and one in frequency; for the noise, rows
  of at least three samples.  The pilots the code generates are the standard's
  (`PilotsAreStandard`, from the scrambling theorem); two ports never share a pilot's
  element (`PortsKeepApart`), so an antenna hears one port there (`PilotHeard`) and a
  row holds twice the channel (`RowIsHeard`).  `TonesAreExact` and `BetweenTwoSymbols`
  are the interpolation in frequency and in time, the edges included, for whichever
  pilots the code picks; `Neighbours` says which pilot symbols those are, and that
  ports 2 and 3 have one before theirs.  Three samples of a row lie on a line, so the residual
  is a sum of zeros (`RowsAreStraight`, `NoResidual`).  `ResidualIsThePower` is by
  induction on the length of the rows of noise: a sample more, of either sign, adds a
  second difference to every row, whose mean depends on whether the row's last two
  samples agree, and half of the rows end in two that do (`AgreementCancels`).
- **Handoff** (same module).  `AllocationsAreReadBack`: for each of the six LTE
  bandwidths, every run is decoded from its value; quotient and rest are separated
  per bandwidth because the solver cannot divide by a variable.  `GrantsAreExtracted`:
  every grant that is made gives a descriptor the equaliser supports, from the
  refusals of the handoff alone.
- **DCI** (same module).  `DcisAreReadBack` proves `DciRoundTrip`, an invariant as it
  stands.  `DciInputsAssumption` says what is sent: a band of the standard, TDD or a
  carrier indicator only where the code knows their format, every field within its
  width, an RNTI of 16 bits, and either an allocation that is the number of a run in
  the band or a random-access order padded as the standard pads it.  The checksum:
  `ChecksumIsRemainder`, the register that takes one bit at a time against the long
  division of a payload of any length, by induction on the bits divided; a register
  exclusive-ored twice cancels (`RegistersCancel`), so a word shows the RNTI it was
  masked with (`WordShowsRnti`).  The fields: each begins where the one before it ends
  (`OffsetsAddUp`), the transmitter's joined bits hold each field where the receiver
  looks for it (`PayloadHoldsTheFields`), and a number that fits its width is the one
  read from its bits (`BitsOfNumber`).  The number of a run never has every bit set
  (`RunIsNoOrder`), which is why an assignment is not taken for an order, and the
  zeros behind an order's preamble and mask are the ones the code looks for
  (`OrderEndsInZeros`).

Proofs about recursive functions.  The induction schemes of the prover's library take
an operator as a parameter, which the installed backends cannot instantiate.
`Induction` states them for sets instead, from the order of the natural numbers: a set
with 0 that is closed under successor contains every number (`NumberByNumber`),
likewise by all smaller numbers (`ByPredecessors`), a function that iterates given
steps from a given start exists (`StepByStep`), which is what a recursive definition
needs before anything can be said of its values, and one that takes its steps by halves
takes them one by one (`ByHalves`).  A fold over a finite set of numbers, which the
community modules define by recursion over its subsets, is unfolded by its last element
(`SetFoldExists`, `FoldOfRuns`), as is one over a sequence (`FoldStepByStep`);
sequences of sequences are joined by `FlattenExists` and `JoinedParts`, and lists
without repetition make one by `JoinedLists`.  The fold of the noise, the Gold
sequence, the checksum and the layouts rest on them; the functions are curried, since
the provers do not read functions of two arguments.

Only model-checked.  Liveness (`EveryCallReturns`, `StopJoinsEveryWorker`), which is
out of the prover's reach.  Of the receiver: `SearchFindsWhatWasSent`,
`GrantsReachTheEqualiser`, `DecoderIsMaximumLikelihood`, `RecoveryInvertsRateMatching`,
`LayoutsCarryTheChannels` and `DciSurvivesTheChain`.  The decoder is the hardest of them: what is
proved of it would have to be about the survivors of 64 start states, and the chain
contains it; the others are about layouts and candidates, where a proof is open work.

## 6. Plan

Done: `Chunking`, `ThreadPool` with `ForkJoin`, `CpuDispatch`, `NoiseState`,
`NoiseOwnership`, `CpuContext`, `AutoBackend`, `GpuRing`, `ControlRegion`,
`GeometrySearch`; then the stages (`Gold`, `SoftDemod`, `TailBiting`, `RateMatching`,
`DciFormat1A`, `Equalisation`, `ChannelEstimate`, `ReLayouts`), `PdschGrant`,
`PdcchSearch` and the receiver made of them.  The order was: what runs concurrently,
then what caches, then what is pure, then the composition.  Of the proofs: the
invariants of every stateful component, the refinement of `ForkJoin`, the control
region, and the receiver's caches, counters, soft bits, equalisers, channel estimate,
checksum and DCI fields.

Left: proofs about the stages.  `GrantsReachTheEqualiser` from `GrantsAreExtracted` and the
layout of the PDSCH; `SearchFindsWhatWasSent` from the candidates being the search
space.

## 7. Not modelled, and why

Rounding of floating-point arithmetic, clamps, saturation and the AVX2 copies of the
loops: out of reach of both tools; the formulas are modelled exactly.  The compaction
of hits on the device, and the 2700 entries of the transport-block table.  Deep-trace validation is one
nondeterministic outcome of a finished call.  Profiling counters, pinned-memory
fallbacks, validation of arguments beyond "rejected", DTO copies, the stub runtime
of builds without CUDA, benchmarks and scripts hold no state a property is about.
Contexts hold no lock of their own: the models assume one calling thread per context.

## 8. Running

Definitions marked `Mutant:` are plausible bugs of the definition after them;
`PROJECT.json` says which property notices each.  No run uses them.

    tlc -config ThreadPool.cfg MCThreadPool.tla
    tlapm ThreadPoolProofs.tla

and likewise for the other runs (module and configuration in `PROJECT.json`).
The longest run takes about a minute and a half on two workers.
