--------------------------- MODULE CpuContextProofs ---------------------------
(***************************************************************************)
(* Proofs about CpuContext, for every number of views, cells, contents and *)
(* calls: its types, that the channel grid a call equalises with is always *)
(* that of its own samples, and what becomes of the noise power.  Then     *)
(* about AutoBackend, for any number of callers, slots and calls: when all *)
(* callers share one counter, the staging ring hides nobody's samples from *)
(* the cache of the CPU context behind it.                                 *)
(*                                                                         *)
(* What is proved of CpuContext uses nothing of AutoBackend: no step cites *)
(* RingAssumption before the proofs about AutoBackend begin.               *)
(***************************************************************************)
EXTENDS AutoBackend, NoiseStateProofs, Induction

CallRecords == [input : Inputs, config : Configs, memory : [content : Contents, generation : Nat]]

\* The cached estimate is that of the view's samples as long as the view has
\* the generation the estimate was made at; generations never go back.
CacheInv ==
  prepared.valid =>
    LET in == prepared.key.input
        generation == prepared.key.generation
    IN  /\ generation <= memory[in.grid].generation
        /\ generation = memory[in.grid].generation => h_full = estimate_channel(in)

FreshInv == TypeOK /\ CacheInv /\ FreshEstimate

-----------------------------------------------------------------------------
\* Whatever entry point is called, it rejects the call, or it prepares the
\* subframe and equalises with the grid of the context, or fails after that.
LEMMA CallCases ==
  ASSUME NEW in, Call(in)
  PROVE  \/ Reject
         \/ FailAfterPrepare(in)
         \/ \E reports \in BOOLEAN : Equalise(in, reports)
<1> DEFINE Goal == \/ Reject
                   \/ FailAfterPrepare(in)
                   \/ \E reports \in BOOLEAN : Equalise(in, reports)
<1>1. ASSUME NEW channel \in Channels, run(channel, in)
      PROVE  Goal
  BY <1>1 DEF run
<1>2. ASSUME RunOnePort(in)
      PROVE  Goal
  BY <1>2 DEF RunOnePort
<1>3. ASSUME NEW ports, RunDiversity(in, ports)
      PROVE  Goal
  BY <1>3 DEF RunDiversity
<1>4. RunTd(in) => RunDiversity(in, 2)
  BY DEF RunTd
<1>5. RunTd4(in) => Reject \/ RunDiversity(in, 4)
  BY DEF RunTd4
<1> QED
  BY <1>1, <1>2, <1>3, <1>4, <1>5
     DEF Call, run_pbch, run_pcfich, run_pdcch, run_pdsch_td, run_pbch_td, run_pcfich_td,
         run_pdcch_td, run_pbch_td4, run_pcfich_td4, run_pdcch_td4

\* A call that was admitted is recorded with the samples it was made for.
LEMMA AdmitRecords ==
  ASSUME TypeOK, NEW in \in Inputs, Admit(in)
  PROVE  /\ calls' \in Seq(CallRecords)
         /\ LastCall' = [input |-> in, memory |-> memory[in.grid], config |-> config]
<1> DEFINE record == [input |-> in, memory |-> memory[in.grid], config |-> config]
<1>1. in.grid \in Grids
  BY InputsAssumption
<1>2. record \in CallRecords /\ calls \in Seq(CallRecords)
  BY <1>1 DEF TypeOK, CallRecords
<1>3. calls' = Append(calls, record)
  BY DEF Admit
<1> HIDE DEF record
<1>4. calls' \in Seq(CallRecords) /\ Len(calls') = Len(calls) + 1 /\ calls'[Len(calls')] = record
  BY <1>2, <1>3
<1> QED
  BY <1>4 DEF LastCall, record

\* After prepare_subframe_if_needed the grid is that of the call's samples,
\* on a hit because nothing has been written since, on a miss by estimating.
LEMMA PrepareIsFresh ==
  ASSUME TypeOK, CacheInv, NEW in \in Inputs, prepare_subframe_if_needed(in),
         UNCHANGED memory
  PROVE  CacheInv' /\ h_full' = estimate_channel(in)
<1>1. memory[in.grid].generation \in Nat
  BY InputsAssumption DEF TypeOK
<1>2. CASE Prepared(in) /\ UNCHANGED core
  BY <1>1, <1>2 DEF Prepared, CacheInv, core, make_prepared_subframe_key, estimate_channel
<1>3. CASE ~Prepared(in)
  <2>1. /\ h_full' = estimate_channel(in)
        /\ prepared'.key = make_prepared_subframe_key(in)
    BY <1>3 DEF prepare_subframe_if_needed
  <2> QED
    BY <1>1, <2>1 DEF CacheInv, make_prepared_subframe_key, estimate_channel
<1> QED BY <1>2, <1>3 DEF prepare_subframe_if_needed

LEMMA PrepareKeepsTypes ==
  ASSUME TypeOK, NEW in \in Inputs, prepare_subframe_if_needed(in)
  PROVE  /\ prepared'.valid \in BOOLEAN
         /\ prepared'.sigma2 \in Nat
         /\ prepared'.valid => prepared'.key \in [input : Inputs, generation : Nat]
         /\ sigma2_by_cell' \in [Cells -> NoiseStates]
<1>1. CASE UNCHANGED core
  BY <1>1 DEF core, TypeOK
<1>2. CASE ~Prepared(in)
  <2> DEFINE estimate == NoiseOf[memory[in.grid].content]
             state == update_sigma2_state(sigma2_by_cell[in.cell_id], estimate, config)
  <2>1. in.grid \in Grids /\ in.cell_id \in Cells
    BY InputsAssumption
  <2>2. estimate \in Nat /\ memory[in.grid].generation \in Nat
    BY <2>1, NoiseAssumption DEF TypeOK
  <2>3. sigma2_by_cell[in.cell_id] \in NoiseStates /\ config \in Configs
    BY <2>1 DEF TypeOK
  <2>4. state \in NoiseStates
    BY <2>2, <2>3, UpdateFloors
  <2>5. /\ sigma2_by_cell' = [sigma2_by_cell EXCEPT ![in.cell_id] = state]
        /\ prepared' = [valid |-> TRUE, key |-> make_prepared_subframe_key(in),
                        sigma2 |-> sigma2_by_cell'[in.cell_id].value]
    BY <1>2 DEF prepare_subframe_if_needed
  <2> HIDE DEF state
  <2>6. sigma2_by_cell' \in [Cells -> NoiseStates] /\ sigma2_by_cell'[in.cell_id] = state
    BY <2>1, <2>4, <2>5 DEF TypeOK
  <2>7. state.value \in Nat
    BY <2>4 DEF NoiseStates
  <2> QED
    BY <2>2, <2>5, <2>6, <2>7 DEF make_prepared_subframe_key
<1> QED BY <1>1, <1>2 DEF prepare_subframe_if_needed

-----------------------------------------------------------------------------
LEMMA InitFresh == Init => FreshInv
<1> SUFFICES ASSUME Init
             PROVE  FreshInv
  OBVIOUS
<1>1. NoState \in NoiseStates
  BY DEF NoState, NoiseStates
<1>2. TypeOK
  <2>1. memory \in [Grids -> [content : Contents, generation : Nat]]
    BY DEF Init
  <2>2. calls \in Seq([input : Inputs, config : Configs,
                      memory : [content : Contents, generation : Nat]])
    BY DEF Init
  <2>3. /\ initialized \in BOOLEAN /\ config \in Configs /\ inits \in Nat
        /\ sigma2_by_cell \in [Cells -> NoiseStates]
        /\ ~prepared.valid /\ prepared.sigma2 \in Nat
    BY <1>1, DefaultConfigAssumption DEF Init
  <2>4. prepared.valid \in BOOLEAN
    BY DEF Init
  <2> QED BY <2>1, <2>2, <2>3, <2>4 DEF TypeOK
<1>3. CacheInv
  BY DEF Init, CacheInv
<1>4. FreshEstimate
  BY DEF Init, FreshEstimate, Equalised, NoResult
<1> QED BY <1>2, <1>3, <1>4 DEF FreshInv

\* A call without a result promises nothing about the channel grid.
LEMMA NoResultIsFresh ==
  ASSUME last' = NoResult
  PROVE  FreshEstimate'
BY DEF FreshEstimate, Equalised, NoResult

LEMMA RejectKeeps ==
  ASSUME FreshInv, Reject
  PROVE  FreshInv'
<1>1. TypeOK'
  BY DEF FreshInv, Reject, core, TypeOK
<1>2. CacheInv'
  BY DEF FreshInv, Reject, core, CacheInv, estimate_channel
<1>3. FreshEstimate'
  BY NoResultIsFresh DEF Reject
<1> QED BY <1>1, <1>2, <1>3 DEF FreshInv

LEMMA AdmitKeeps ==
  ASSUME FreshInv, NEW in \in Inputs, Admit(in), last' = NoResult \/ last'.h = h_full'
  PROVE  FreshInv'
<1>1. TypeOK /\ CacheInv /\ prepare_subframe_if_needed(in)
  BY DEF FreshInv, Admit
<1>2. UNCHANGED <<initialized, config, memory, inits>>
  BY DEF Admit
<1>3. TypeOK'
  <2>1. calls' \in Seq(CallRecords)
    BY <1>1, AdmitRecords
  <2>2. /\ prepared'.valid \in BOOLEAN
        /\ prepared'.sigma2 \in Nat
        /\ prepared'.valid => prepared'.key \in [input : Inputs, generation : Nat]
        /\ sigma2_by_cell' \in [Cells -> NoiseStates]
    BY <1>1, PrepareKeepsTypes
  <2> QED BY <1>1, <1>2, <2>1, <2>2 DEF TypeOK, CallRecords
<1>4. CacheInv' /\ h_full' = estimate_channel(in)
  BY <1>1, <1>2, PrepareIsFresh
<1>5. FreshEstimate'
  <2>1. CASE last' = NoResult
    BY <2>1, NoResultIsFresh
  <2>2. CASE last'.h = h_full'
    <3>1. LastCall' = [input |-> in, memory |-> memory[in.grid], config |-> config]
      BY <1>1, AdmitRecords
    <3> QED
      BY <1>4, <2>2, <3>1 DEF FreshEstimate, estimate_channel
  <2> QED BY <2>1, <2>2
<1> QED BY <1>3, <1>4, <1>5 DEF FreshInv

LEMMA InitContextKeeps ==
  ASSUME FreshInv, NEW cfg \in Configs, InitContext(cfg)
  PROVE  FreshInv'
<1>1. TypeOK'
  BY DEF FreshInv, InitContext, core, TypeOK
<1>2. CacheInv'
  BY DEF FreshInv, InitContext, core, CacheInv, estimate_channel
<1>3. FreshEstimate'
  BY NoResultIsFresh DEF InitContext
<1> QED BY <1>1, <1>2, <1>3 DEF FreshInv

\* New samples come with a generation the cached key cannot have.
LEMMA WriteGridKeeps ==
  ASSUME FreshInv, NEW g \in Grids, NEW content \in Contents, WriteGrid(g, content)
  PROVE  FreshInv'
<1>1. /\ memory' = [memory EXCEPT ![g] = [content |-> content, generation |-> @.generation + 1]]
      /\ UNCHANGED <<initialized, config, core, calls, inits>>
  BY DEF WriteGrid
<1>2. memory \in [Grids -> [content : Contents, generation : Nat]]
  BY DEF FreshInv, TypeOK
<1>3. memory' \in [Grids -> [content : Contents, generation : Nat]]
  BY <1>1, <1>2
<1>4. TypeOK'
  BY <1>1, <1>3 DEF FreshInv, core, TypeOK
<1>5. CacheInv'
  <2> SUFFICES ASSUME prepared.valid
               PROVE  LET in == prepared.key.input
                          generation == prepared.key.generation
                      IN  /\ generation <= memory'[in.grid].generation
                          /\ generation = memory'[in.grid].generation
                               => h_full = estimate_channel(in)'
    BY <1>1 DEF CacheInv, core
  <2> DEFINE in == prepared.key.input
  <2>1. in.grid \in Grids /\ prepared.key.generation \in Nat
    BY InputsAssumption DEF FreshInv, TypeOK
  <2>2. CASE in.grid = g
    <3>1. memory'[in.grid].generation = memory[in.grid].generation + 1
      BY <1>1, <1>2, <2>2
    <3>2. /\ memory[in.grid].generation \in Nat
          /\ prepared.key.generation <= memory[in.grid].generation
      BY <1>2, <2>1 DEF FreshInv, CacheInv
    <3> QED BY <2>1, <3>1, <3>2
  <2>3. CASE in.grid # g
    <3>1. memory'[in.grid] = memory[in.grid]
      BY <1>1, <1>2, <2>1, <2>3
    <3> QED BY <1>1, <3>1 DEF FreshInv, CacheInv, core, estimate_channel
  <2> QED BY <2>2, <2>3
<1>6. FreshEstimate'
  BY NoResultIsFresh DEF WriteGrid
<1> QED BY <1>4, <1>5, <1>6 DEF FreshInv

LEMMA NextKeeps ==
  ASSUME FreshInv, [Next]_vars
  PROVE  FreshInv'
<1>1. ASSUME NEW cfg \in Configs, InitContext(cfg)
      PROVE  FreshInv'
  BY <1>1, InitContextKeeps
<1>2. CASE InitRejected
  BY <1>2, RejectKeeps DEF InitRejected
<1>3. ASSUME NEW g \in Grids, NEW content \in Contents, WriteGrid(g, content)
      PROVE  FreshInv'
  BY <1>3, WriteGridKeeps
<1>4. ASSUME NEW in \in Inputs, Call(in)
      PROVE  FreshInv'
  <2>1. ASSUME NEW reports \in BOOLEAN, Equalise(in, reports)
        PROVE  FreshInv'
    BY <2>1, AdmitKeeps DEF Equalise
  <2>2. CASE FailAfterPrepare(in)
    BY <2>2, AdmitKeeps DEF FailAfterPrepare
  <2> QED  BY <1>4, <2>1, <2>2, CallCases, RejectKeeps
<1>5. CASE UNCHANGED vars
  BY <1>5 DEF vars, core, FreshInv, TypeOK, CacheInv, estimate_channel, FreshEstimate,
              Equalised, LastCall
<1> QED BY <1>1, <1>2, <1>3, <1>4, <1>5 DEF Next

LEMMA FreshInvariance == Spec => []FreshInv
BY InitFresh, NextKeeps, PTL DEF Spec

\* Every variable of the context keeps its type.
THEOREM CpuContextTypes == Spec => []TypeOK
<1>1. FreshInv => TypeOK
  BY DEF FreshInv
<1> QED BY <1>1, FreshInvariance, PTL

\* Every equalisation uses the channel of its own samples, cell, subframe and
\* ports, whatever calls, failures, writes and inits came before it, provided
\* new samples always come with a new generation (mmse_equalizer_cpu.cpp:1390).
THEOREM EstimatesAreFresh == Spec => []FreshEstimate
<1>1. FreshInv => FreshEstimate
  BY DEF FreshInv
<1> QED BY <1>1, FreshInvariance, PTL

-----------------------------------------------------------------------------
(* The noise power.                                                        *)

\* The prepared subframe is that of the latest call that was admitted, and
\* its noise power is the state of its cell.
SnapshotInv ==
  /\ prepared.valid <=> Len(calls) # 0
  /\ prepared.valid =>
       /\ prepared.key = [input |-> LastCall.input, generation |-> LastCall.memory.generation]
       /\ h_full.content = LastCall.memory.content
       /\ sigma2_by_cell[prepared.key.input.cell_id] =
            [initialized |-> TRUE, value |-> prepared.sigma2]

NoiseInv == FreshInv /\ SnapshotInv /\ ReportsTheNoiseUsed /\ NoiseStaysWithinEstimates

\* What admitting a call does to the list of calls, entry by entry.
LEMMA AdmitAppends ==
  ASSUME TypeOK, NEW in \in Inputs, Admit(in), NEW n, n = Len(calls)
  PROVE  /\ n \in Nat /\ Len(calls') = n + 1
         /\ calls' \in Seq(CallRecords)
         /\ Entries = 1 .. n /\ Entries' = 1 .. (n + 1)
         /\ \A i \in 1 .. n : calls'[i] = calls[i]
         /\ calls'[n + 1] = [input |-> in, memory |-> memory[in.grid], config |-> config]
<1> DEFINE record == [input |-> in, memory |-> memory[in.grid], config |-> config]
<1>1. record \in CallRecords /\ calls \in Seq(CallRecords)
  BY InputsAssumption DEF TypeOK, CallRecords
<1>2. calls' = Append(calls, record)
  BY DEF Admit
<1> HIDE DEF record
<1>3. /\ n \in Nat /\ Len(calls') = n + 1
      /\ calls' \in Seq(CallRecords)
      /\ \A i \in 1 .. n : calls'[i] = calls[i]
      /\ calls'[n + 1] = record
  BY <1>1, <1>2
<1> QED  BY <1>3 DEF Entries, record

\* The key says whether the call goes on with the subframe of the one before.
LEMMA KeyTellsSubframes ==
  ASSUME FreshInv, SnapshotInv, NEW in \in Inputs, Admit(in), NEW n, n = Len(calls)
  PROVE  StartsSubframe(n + 1)' <=> ~Prepared(in)
<1>1. /\ n \in Nat
      /\ \A i \in 1 .. n : calls'[i] = calls[i]
      /\ calls'[n + 1] = [input |-> in, memory |-> memory[in.grid], config |-> config]
  BY AdmitAppends DEF FreshInv
<1>2. StartsSubframe(n + 1)' <=> n + 1 = 1 \/ ~SameSubframe(calls'[(n + 1) - 1], calls'[n + 1])
  BY DEF StartsSubframe, SameSubframe
<1>3. memory[in.grid] \in [content : Contents, generation : Nat]
  BY InputsAssumption DEF FreshInv, TypeOK
<1>4. CASE n = 0
  BY <1>2, <1>4 DEF SnapshotInv, Prepared
<1>5. CASE n # 0
  <2>1. n + 1 # 1 /\ (n + 1) - 1 = n /\ n \in 1 .. n
    BY <1>1, <1>5
  <2>2. StartsSubframe(n + 1)' <=> ~SameSubframe(calls[n], calls'[n + 1])
    BY <1>1, <1>2, <2>1
  <2>3. calls[n] \in CallRecords
    <3>1. calls \in Seq(CallRecords)
      BY DEF FreshInv, TypeOK, CallRecords
    <3> QED  BY <2>1, <3>1
  <2>4. prepared.valid
        /\ prepared.key = [input |-> calls[n].input, generation |-> calls[n].memory.generation]
    BY <1>5 DEF SnapshotInv, LastCall
  <2>5. Prepared(in) <=> calls[n].input = in
                         /\ calls[n].memory.generation = memory[in.grid].generation
    BY <2>4 DEF Prepared, make_prepared_subframe_key
  <2>6. Prepared(in) => calls[n].memory = memory[in.grid]
    <3> SUFFICES ASSUME Prepared(in)  PROVE calls[n].memory = memory[in.grid]
      OBVIOUS
    <3>1. h_full = estimate_channel(in)
      BY <2>4, <1>3 DEF FreshInv, CacheInv, Prepared, make_prepared_subframe_key
    <3>2. calls[n].memory.content = memory[in.grid].content
      BY <1>5, <3>1 DEF SnapshotInv, LastCall, Prepared, estimate_channel
    <3> QED  BY <1>3, <2>3, <2>5, <3>2 DEF CallRecords
  <2> QED  BY <1>1, <2>2, <2>5, <2>6 DEF SameSubframe
<1> QED  BY <1>4, <1>5

\* A prepared subframe adds its estimate to those of its cell; nothing else does.
LEMMA AdmitEstimates ==
  ASSUME FreshInv, SnapshotInv, NEW in \in Inputs, Admit(in), NEW cell \in Cells,
         NEW n, n = Len(calls)
  PROVE  EstimatesOf(cell)' = IF ~Prepared(in) /\ in.cell_id = cell
                              THEN EstimatesOf(cell) \cup {n + 1}
                              ELSE EstimatesOf(cell)
<1>1. /\ n \in Nat /\ Entries = 1 .. n /\ Entries' = 1 .. (n + 1)
      /\ \A i \in 1 .. n : calls'[i] = calls[i]
      /\ calls'[n + 1] = [input |-> in, memory |-> memory[in.grid], config |-> config]
  BY AdmitAppends DEF FreshInv
<1>2. EstimatesOf(cell)' =
        {i \in Entries' : calls'[i].input.cell_id = cell /\ StartsSubframe(i)'}
  BY DEF EstimatesOf
<1>3. ASSUME NEW i \in 1 .. n
      PROVE  StartsSubframe(i)' = StartsSubframe(i)
  <2>1. i # 1 => i - 1 \in 1 .. n
    BY <1>1
  <2> QED  BY <1>1, <2>1 DEF StartsSubframe, SameSubframe
<1>4. StartsSubframe(n + 1)' <=> ~Prepared(in)
  BY KeyTellsSubframes
<1>5. 1 .. (n + 1) = (1 .. n) \cup {n + 1} /\ n + 1 \notin 1 .. n
  BY <1>1
<1>6. calls'[n + 1].input.cell_id = in.cell_id
  BY <1>1
<1> QED  BY <1>1, <1>2, <1>3, <1>4, <1>5, <1>6 DEF EstimatesOf

\* Of the state of the cells, a call changes that of the subframe it prepares.
LEMMA AdmitUpdates ==
  ASSUME FreshInv, NEW in \in Inputs, Admit(in)
  PROVE  /\ Prepared(in) => UNCHANGED core
         /\ ~Prepared(in) =>
              /\ prepared'.valid /\ prepared'.key = make_prepared_subframe_key(in)
              /\ prepared'.sigma2 = sigma2_by_cell'[in.cell_id].value
              /\ sigma2_by_cell'[in.cell_id] =
                   update_sigma2_state(sigma2_by_cell[in.cell_id],
                                       NoiseOf[memory[in.grid].content], config)
              /\ \A cell \in Cells \ {in.cell_id} : sigma2_by_cell'[cell] = sigma2_by_cell[cell]
<1>1. sigma2_by_cell \in [Cells -> NoiseStates] /\ in.cell_id \in Cells
  BY InputsAssumption DEF FreshInv, TypeOK
<1>2. prepare_subframe_if_needed(in)
  BY DEF Admit
<1> QED  BY <1>1, <1>2 DEF prepare_subframe_if_needed

LEMMA AdmitKeepsSnapshot ==
  ASSUME FreshInv, SnapshotInv, NEW in \in Inputs, Admit(in)
  PROVE  SnapshotInv'
<1> DEFINE n == Len(calls)
<1>1. /\ n \in Nat /\ Len(calls') = n + 1
      /\ calls'[n + 1] = [input |-> in, memory |-> memory[in.grid], config |-> config]
  BY AdmitAppends DEF FreshInv
<1> HIDE DEF n
<1>2. Len(calls') # 0 /\ LastCall' = [input |-> in, memory |-> memory[in.grid], config |-> config]
  BY <1>1 DEF LastCall
<1>3. h_full'.content = memory[in.grid].content
  <2>1. h_full' = estimate_channel(in)
    BY PrepareIsFresh DEF FreshInv, Admit
  <2> QED  BY <2>1 DEF estimate_channel
<1>4. CASE Prepared(in)
  <2>1. prepared' = prepared /\ sigma2_by_cell' = sigma2_by_cell /\ prepared.valid
        /\ prepared.key = make_prepared_subframe_key(in)
    BY <1>4, AdmitUpdates DEF core, Prepared
  <2> QED  BY <1>2, <1>3, <2>1 DEF SnapshotInv, make_prepared_subframe_key
<1>5. CASE ~Prepared(in)
  <2>1. /\ prepared'.valid /\ prepared'.key = make_prepared_subframe_key(in)
        /\ prepared'.sigma2 = sigma2_by_cell'[in.cell_id].value
        /\ sigma2_by_cell'[in.cell_id] =
             update_sigma2_state(sigma2_by_cell[in.cell_id],
                                 NoiseOf[memory[in.grid].content], config)
    BY <1>5, AdmitUpdates
  <2>2. /\ sigma2_by_cell'[in.cell_id] \in NoiseStates
        /\ sigma2_by_cell'[in.cell_id].initialized
    <3>1. sigma2_by_cell[in.cell_id] \in NoiseStates /\ config \in Configs
          /\ NoiseOf[memory[in.grid].content] \in Nat
      BY InputsAssumption, NoiseAssumption DEF FreshInv, TypeOK
    <3> QED  BY <2>1, <3>1, UpdateFloors
  <2>3. sigma2_by_cell'[in.cell_id] = [initialized |-> TRUE, value |-> prepared'.sigma2]
    BY <2>1, <2>2 DEF NoiseStates
  <2> QED  BY <1>2, <1>3, <2>1, <2>3 DEF SnapshotInv, make_prepared_subframe_key
<1> QED  BY <1>4, <1>5

\* What is reported is read after the subframe has been prepared, from the
\* state its noise power went into.
LEMMA EqualiseReports ==
  ASSUME FreshInv, SnapshotInv, NEW in \in Inputs, NEW reports \in BOOLEAN,
         Equalise(in, reports)
  PROVE  ReportsTheNoiseUsed'
<1> SUFFICES ASSUME reports
             PROVE  last'.reported = AtLeast(last'.used, config'.sigma2_min)
  BY DEF Equalise, ReportsTheNoiseUsed
<1>1. Admit(in) /\ config' = config /\ last'.used = prepared'.sigma2
      /\ last'.reported = peek_sigma2_state(sigma2_by_cell'[in.cell_id], config.sigma2_min)
  BY DEF Equalise, Admit
<1>2. SnapshotInv' /\ LastCall'.input = in /\ Len(calls') # 0
  <2>1. TypeOK
    BY DEF FreshInv
  <2>2. LastCall'.input = in
    BY <1>1, <2>1, AdmitRecords
  <2>3. Len(calls') = Len(calls) + 1 /\ Len(calls) \in Nat
    BY <1>1, <2>1, AdmitAppends
  <2>4. Len(calls') # 0
    BY <2>3
  <2> QED  BY <1>1, <2>2, <2>4, AdmitKeepsSnapshot
<1>3. sigma2_by_cell'[in.cell_id] = [initialized |-> TRUE, value |-> prepared'.sigma2]
  BY <1>2 DEF SnapshotInv
<1> QED  BY <1>1, <1>3 DEF peek_sigma2_state

Floored(i) == AtLeast(NoiseOf[calls[i].memory.content], calls[i].config.sigma2_min)

\* NoiseStaysWithinEstimates, without the set of the estimates.
LEMMA BoundsByEntries ==
  NoiseStaysWithinEstimates <=>
    \A cell \in Cells : sigma2_by_cell[cell].initialized =>
      /\ \E i \in EstimatesOf(cell) : Floored(i) <= sigma2_by_cell[cell].value
      /\ \E i \in EstimatesOf(cell) : sigma2_by_cell[cell].value <= Floored(i)
BY DEF NoiseStaysWithinEstimates, Floored

\* The new estimate is one of the cell's, and the state moves towards it.
LEMMA AdmitKeepsBounds ==
  ASSUME FreshInv, SnapshotInv, NoiseStaysWithinEstimates, NEW in \in Inputs, Admit(in)
  PROVE  NoiseStaysWithinEstimates'
<1>1. PICK n \in Nat : n = Len(calls)
  BY AdmitAppends DEF FreshInv
<1>2. /\ n \in Nat /\ Entries = 1 .. n
      /\ \A i \in 1 .. n : calls'[i] = calls[i]
      /\ calls'[n + 1] = [input |-> in, memory |-> memory[in.grid], config |-> config]
  BY <1>1, AdmitAppends DEF FreshInv
<1>3. \A i \in 1 .. n : Floored(i)' = Floored(i)
  BY <1>2 DEF Floored
<1>4. Floored(n + 1)' = AtLeast(NoiseOf[memory[in.grid].content], config.sigma2_min)
  BY <1>2 DEF Floored
<1>5. \A cell \in Cells : EstimatesOf(cell) \subseteq 1 .. n
  BY <1>2 DEF EstimatesOf
<1>6. \A cell \in Cells :
        EstimatesOf(cell)' = IF ~Prepared(in) /\ in.cell_id = cell
                             THEN EstimatesOf(cell) \cup {n + 1}
                             ELSE EstimatesOf(cell)
  BY <1>1, AdmitEstimates
<1>7. \A cell \in Cells : sigma2_by_cell[cell].initialized =>
        /\ \E i \in EstimatesOf(cell) : Floored(i) <= sigma2_by_cell[cell].value
        /\ \E i \in EstimatesOf(cell) : sigma2_by_cell[cell].value <= Floored(i)
  BY BoundsByEntries
<1>8. SUFFICES ASSUME NEW cell \in Cells, sigma2_by_cell'[cell].initialized
               PROVE  /\ \E i \in EstimatesOf(cell)' : Floored(i)' <= sigma2_by_cell'[cell].value
                      /\ \E i \in EstimatesOf(cell)' : sigma2_by_cell'[cell].value <= Floored(i)'
  <2>1. (\A cell \in Cells : sigma2_by_cell[cell].initialized =>
          /\ \E i \in EstimatesOf(cell) : Floored(i) <= sigma2_by_cell[cell].value
          /\ \E i \in EstimatesOf(cell) : sigma2_by_cell[cell].value <= Floored(i))'
        => NoiseStaysWithinEstimates'
    BY BoundsByEntries, PTL
  <2> QED  BY <2>1
<1>9. CASE sigma2_by_cell'[cell] = sigma2_by_cell[cell]
  <2>1. EstimatesOf(cell) \subseteq EstimatesOf(cell)'
    BY <1>6
  <2>2. /\ \E i \in EstimatesOf(cell) : Floored(i) <= sigma2_by_cell[cell].value
        /\ \E i \in EstimatesOf(cell) : sigma2_by_cell[cell].value <= Floored(i)
    BY <1>7, <1>8, <1>9
  <2> QED  BY <1>3, <1>5, <1>9, <2>1, <2>2
<1>10. CASE ~Prepared(in) /\ in.cell_id = cell
  <2> DEFINE estimate == NoiseOf[memory[in.grid].content]
             state == sigma2_by_cell[cell]
             value == sigma2_by_cell'[cell].value
  <2>1. state \in NoiseStates /\ config \in Configs /\ estimate \in Nat
    BY InputsAssumption, NoiseAssumption DEF FreshInv, TypeOK
  <2>2. sigma2_by_cell'[cell] = update_sigma2_state(state, estimate, config)
    BY <1>10, AdmitUpdates
  <2> HIDE DEF estimate
  <2>3. \/ value = AtLeast(estimate, config.sigma2_min)
        \/ /\ state.initialized
           /\ AtLeast(estimate, config.sigma2_min) <= value \/ state.value <= value
           /\ value <= AtLeast(estimate, config.sigma2_min) \/ value <= state.value
    BY <2>1, <2>2, UpdateStaysBetween
  <2>4. Floored(n + 1)' = AtLeast(estimate, config.sigma2_min)
    BY <1>4 DEF estimate
  <2>5. EstimatesOf(cell)' = EstimatesOf(cell) \cup {n + 1}
    BY <1>6, <1>10
  <2>6. value \in Nat /\ state.value \in Nat
    <3>1. update_sigma2_state(state, estimate, config) \in NoiseStates
      BY <2>1, UpdateFloors
    <3> QED  BY <2>1, <2>2, <3>1 DEF NoiseStates
  <2>7. ASSUME NEW i \in EstimatesOf(cell)
        PROVE  Floored(i) \in Nat /\ Floored(i)' = Floored(i) /\ i \in EstimatesOf(cell)'
    <3>1. i \in 1 .. n
      BY <1>5
    <3>2. calls[i] \in CallRecords
      <4>1. calls \in Seq(CallRecords)
        BY DEF FreshInv, TypeOK, CallRecords
      <4> QED  BY <1>1, <3>1, <4>1
    <3>3. NoiseOf[calls[i].memory.content] \in Nat /\ calls[i].config.sigma2_min \in Nat
      BY <3>2, NoiseAssumption, ConfigsAssumption DEF CallRecords
    <3> QED  BY <1>3, <2>5, <3>1, <3>3 DEF Floored, AtLeast
  <2>8. estimate \in Nat /\ config.sigma2_min \in Nat
        /\ AtLeast(estimate, config.sigma2_min) \in Nat
    BY <2>1, ConfigsAssumption DEF AtLeast
  <2>9. CASE value = AtLeast(estimate, config.sigma2_min)
    <3>1. n + 1 \in EstimatesOf(cell)' /\ Floored(n + 1)' = value
      BY <2>4, <2>5, <2>9
    <3>2. value <= value
      BY <2>6
    <3> QED  BY <3>1, <3>2
  <2>10. CASE /\ state.initialized
              /\ AtLeast(estimate, config.sigma2_min) <= value \/ state.value <= value
              /\ value <= AtLeast(estimate, config.sigma2_min) \/ value <= state.value
    <3>1. PICK i \in EstimatesOf(cell) : Floored(i) <= state.value
      BY <1>7, <2>10
    <3>2. PICK j \in EstimatesOf(cell) : state.value <= Floored(j)
      BY <1>7, <2>10
    <3>3. /\ Floored(i) \in Nat /\ Floored(i)' = Floored(i) /\ i \in EstimatesOf(cell)'
          /\ Floored(j) \in Nat /\ Floored(j)' = Floored(j) /\ j \in EstimatesOf(cell)'
      BY <2>7
    <3>4. \E k \in EstimatesOf(cell)' : Floored(k)' <= value
      <4>1. CASE AtLeast(estimate, config.sigma2_min) <= value
        BY <2>4, <2>5, <4>1
      <4>2. CASE state.value <= value
        <5>1. Floored(i)' <= value
          BY <2>6, <3>1, <3>3, <4>2
        <5> QED  BY <3>3, <5>1
      <4> QED  BY <2>10, <4>1, <4>2
    <3>5. \E k \in EstimatesOf(cell)' : value <= Floored(k)'
      <4>1. CASE value <= AtLeast(estimate, config.sigma2_min)
        BY <2>4, <2>5, <4>1
      <4>2. CASE value <= state.value
        <5>1. value <= Floored(j)'
          BY <2>6, <3>2, <3>3, <4>2
        <5> QED  BY <3>3, <5>1
      <4> QED  BY <2>10, <4>1, <4>2
    <3> QED  BY <3>4, <3>5
  <2> QED  BY <2>3, <2>9, <2>10
<1>11. sigma2_by_cell'[cell] = sigma2_by_cell[cell] \/ (~Prepared(in) /\ in.cell_id = cell)
  BY AdmitUpdates DEF core
<1> QED  BY <1>9, <1>10, <1>11

-----------------------------------------------------------------------------
LEMMA InitNoise == Init => NoiseInv
<1> SUFFICES ASSUME Init
             PROVE  NoiseInv
  OBVIOUS
<1>1. ~prepared.valid /\ Len(calls) = 0
  BY DEF Init
<1>2. SnapshotInv
  BY <1>1 DEF SnapshotInv
<1>3. ReportsTheNoiseUsed
  BY DEF Init, ReportsTheNoiseUsed, NoResult
<1>4. NoiseStaysWithinEstimates
  BY DEF Init, NoiseStaysWithinEstimates, NoState
<1> QED  BY <1>2, <1>3, <1>4, InitFresh DEF NoiseInv

\* A step that makes no call and has no result keeps the noise.
LEMMA OthersKeepNoise ==
  ASSUME NoiseInv, UNCHANGED <<core, calls>>,
         last' = NoResult \/ UNCHANGED <<last, config>>
  PROVE  SnapshotInv' /\ ReportsTheNoiseUsed' /\ NoiseStaysWithinEstimates'
<1>1. SnapshotInv'
  BY DEF NoiseInv, SnapshotInv, core, LastCall
<1>2. ReportsTheNoiseUsed'
  BY DEF NoiseInv, ReportsTheNoiseUsed, NoResult
<1>3. NoiseStaysWithinEstimates'
  BY DEF NoiseInv, NoiseStaysWithinEstimates, EstimatesOf, StartsSubframe, SameSubframe,
         Entries, core
<1> QED  BY <1>1, <1>2, <1>3

LEMMA NextKeepsNoise ==
  ASSUME NoiseInv, [Next]_vars
  PROVE  NoiseInv'
<1>1. FreshInv'
  BY NextKeeps DEF NoiseInv
<1>2. CASE UNCHANGED <<core, calls>> /\ (last' = NoResult \/ UNCHANGED <<last, config>>)
  BY <1>1, <1>2, OthersKeepNoise DEF NoiseInv
<1>3. ASSUME NEW in \in Inputs, Admit(in), last' = NoResult \/ ReportsTheNoiseUsed'
      PROVE  NoiseInv'
  <2>1. SnapshotInv' /\ NoiseStaysWithinEstimates'
    BY <1>3, AdmitKeepsSnapshot, AdmitKeepsBounds DEF NoiseInv
  <2>2. ReportsTheNoiseUsed'
    BY <1>3 DEF ReportsTheNoiseUsed, NoResult
  <2> QED  BY <1>1, <2>1, <2>2 DEF NoiseInv
<1>4. ASSUME NEW in \in Inputs, Call(in)
      PROVE  NoiseInv'
  <2>1. CASE Reject
    BY <1>2, <2>1 DEF Reject
  <2>2. CASE FailAfterPrepare(in)
    BY <1>3, <2>2 DEF FailAfterPrepare
  <2>3. ASSUME NEW reports \in BOOLEAN, Equalise(in, reports)
        PROVE  NoiseInv'
    <3>1. ReportsTheNoiseUsed'
      BY <2>3, EqualiseReports DEF NoiseInv
    <3> QED  BY <1>3, <2>3, <3>1 DEF Equalise
  <2> QED  BY <1>4, <2>1, <2>2, <2>3, CallCases
<1>5. CASE UNCHANGED vars
  BY <1>2, <1>5 DEF vars
<1>6. ASSUME NEW cfg \in Configs, InitContext(cfg)
      PROVE  NoiseInv'
  BY <1>2, <1>6 DEF InitContext
<1>7. CASE InitRejected
  BY <1>2, <1>7 DEF InitRejected, Reject
<1>8. ASSUME NEW g \in Grids, NEW content \in Contents, WriteGrid(g, content)
      PROVE  NoiseInv'
  BY <1>2, <1>8 DEF WriteGrid
<1> QED  BY <1>4, <1>5, <1>6, <1>7, <1>8 DEF Next

\* The snapshot of the context is that of the latest call which got as far as
\* the cache, and with it the noise bounds below (mmse_equalizer_cpu.cpp:1390).
THEOREM NoiseInvariance == Spec => []NoiseInv
BY InitNoise, NextKeepsNoise, PTL DEF Spec

\* The noise power a result reports is the one its symbols were equalised
\* with, or the floor if init has raised it in between, also on a hit of the
\* prepared subframe.
THEOREM ReportsAreTheNoiseUsed == Spec => []ReportsTheNoiseUsed
<1>1. NoiseInv => ReportsTheNoiseUsed
  BY DEF NoiseInv
<1> QED  BY <1>1, NoiseInvariance, PTL

\* No sequence of calls, failures and changes of the configuration takes the
\* noise power of a cell out of the interval of the estimates it was given.
THEOREM NoiseIsBounded == Spec => []NoiseStaysWithinEstimates
<1>1. NoiseInv => NoiseStaysWithinEstimates
  BY DEF NoiseInv
<1> QED  BY <1>1, NoiseInvariance, PTL

-----------------------------------------------------------------------------
\* The fold: there is one, and appending a call takes at most one step of it.

FoldEquation(f, list, estimates) ==
  f = [n \in 0 .. Len(list) |->
        IF n = 0 THEN NoState
        ELSE IF n \in estimates
             THEN update_sigma2_state(f[n - 1], NoiseOf[list[n].memory.content], list[n].config)
             ELSE f[n - 1]]

\* One step of the fold, when call n + 1 is an estimate and when it is not.
FoldStep(state, list, estimates, n) ==
  IF n + 1 \in estimates
  THEN update_sigma2_state(state, NoiseOf[list[n + 1].memory.content], list[n + 1].config)
  ELSE state

LEMMA FoldExists ==
  ASSUME NEW list \in Seq(CallRecords), NEW estimates
  PROVE  \E f : FoldEquation(f, list, estimates) /\ Folded(list, estimates) = f[Len(list)]
<1> DEFINE step == [n \in Nat |-> [state \in NoiseStates |->
                      IF n + 1 \in 1 .. Len(list) THEN FoldStep(state, list, estimates, n)
                      ELSE state]]
<1>1. Len(list) \in Nat
  OBVIOUS
<1>2. step \in [Nat -> [NoiseStates -> NoiseStates]]
  <2> SUFFICES ASSUME NEW n \in Nat, NEW state \in NoiseStates, n + 1 \in 1 .. Len(list)
               PROVE  FoldStep(state, list, estimates, n) \in NoiseStates
    OBVIOUS
  <2>1. list[n + 1] \in CallRecords
    OBVIOUS
  <2>2. list[n + 1].config \in Configs /\ NoiseOf[list[n + 1].memory.content] \in Nat
    BY <2>1, NoiseAssumption DEF CallRecords
  <2> QED
    BY <2>2, UpdateFloors DEF FoldStep
<1>3. NoState \in NoiseStates
  BY DEF NoState, NoiseStates
<1>4. \A n \in Nat : \A state \in NoiseStates :
        n + 1 \in 1 .. Len(list) => step[n][state] = FoldStep(state, list, estimates, n)
  OBVIOUS
<1> HIDE DEF step
<1>5. PICK it \in [Nat -> NoiseStates] : IsIteration(it, NoState, step)
  BY <1>2, <1>3, StepByStep
<1> DEFINE g == [n \in 0 .. Len(list) |-> it[n]]
<1>6. ASSUME NEW n \in 0 .. Len(list)
      PROVE  g[n] = IF n = 0 THEN NoState
                    ELSE IF n \in estimates
                         THEN update_sigma2_state(g[n - 1], NoiseOf[list[n].memory.content],
                                                  list[n].config)
                         ELSE g[n - 1]
  <2>1. CASE n = 0
    BY <1>5, <2>1 DEF IsIteration
  <2>2. CASE n # 0
    <3>1. PICK m \in Nat : n = m + 1 /\ m = n - 1 /\ m \in 0 .. Len(list) /\ n \in 1 .. Len(list)
      BY <1>1, <2>2
    <3>2. it[m] \in NoiseStates /\ it[m + 1] = step[m][it[m]]
      BY <1>5 DEF IsIteration
    <3>3. it[n] = FoldStep(it[m], list, estimates, m)
      BY <1>4, <3>1, <3>2
    <3>4. g[n] = it[n] /\ g[n - 1] = it[m]
      BY <3>1
    <3> HIDE DEF g
    <3> QED
      BY <2>2, <3>1, <3>3, <3>4 DEF FoldStep
  <2> QED
    BY <2>1, <2>2
<1>7. FoldEquation(g, list, estimates)
  <2>1. g = [n \in 0 .. Len(list) |-> g[n]]
    OBVIOUS
  <2> HIDE DEF g
  <2> QED
    BY <1>6, <2>1 DEF FoldEquation
<1> HIDE DEF g
<1> DEFINE state == CHOOSE f : f = [n \in 0 .. Len(list) |->
                      IF n = 0 THEN NoState
                      ELSE IF n \in estimates
                           THEN update_sigma2_state(f[n - 1], NoiseOf[list[n].memory.content],
                                                    list[n].config)
                           ELSE f[n - 1]]
<1>8. FoldEquation(state, list, estimates)
  BY <1>7 DEF FoldEquation
<1>9. Folded(list, estimates) = state[Len(list)]
  BY DEF Folded
<1> HIDE DEF state
<1> QED
  BY <1>8, <1>9

\* The equation, entry by entry.
LEMMA FoldEntries ==
  ASSUME NEW f, NEW list \in Seq(CallRecords), NEW estimates, FoldEquation(f, list, estimates)
  PROVE  /\ f[0] = NoState
         /\ \A n \in Nat : n + 1 <= Len(list) => f[n + 1] = FoldStep(f[n], list, estimates, n)
<1> DEFINE F(n) == IF n = 0 THEN NoState
                   ELSE IF n \in estimates
                        THEN update_sigma2_state(f[n - 1], NoiseOf[list[n].memory.content],
                                                 list[n].config)
                        ELSE f[n - 1]
<1>1. Len(list) \in Nat
  OBVIOUS
<1>2. f = [n \in 0 .. Len(list) |-> F(n)]
  BY DEF FoldEquation
<1> HIDE DEF F
<1>3. \A n \in 0 .. Len(list) : f[n] = F(n)
  BY <1>2
<1>4. f[0] = NoState
  BY <1>1, <1>3 DEF F
<1>5. ASSUME NEW n \in Nat, n + 1 <= Len(list)
      PROVE  f[n + 1] = FoldStep(f[n], list, estimates, n)
  <2>1. n + 1 \in 0 .. Len(list) /\ n + 1 # 0 /\ (n + 1) - 1 = n
    BY <1>1, <1>5
  <2>2. f[n + 1] = F(n + 1)
    BY <1>3, <2>1
  <2> QED
    BY <2>1, <2>2 DEF F, FoldStep
<1> QED
  BY <1>4, <1>5

LEMMA FoldAppends ==
  ASSUME NEW list \in Seq(CallRecords), NEW record \in CallRecords,
         NEW more, NEW estimates, estimates = more \ {Len(list) + 1}
  PROVE  Folded(Append(list, record), more) =
           IF Len(list) + 1 \in more
           THEN update_sigma2_state(Folded(list, estimates), NoiseOf[record.memory.content],
                                    record.config)
           ELSE Folded(list, estimates)
<1>1. PICK n \in Nat : n = Len(list)
  OBVIOUS
<1> DEFINE longer == Append(list, record)
<1>2. /\ longer \in Seq(CallRecords) /\ Len(longer) = n + 1
      /\ \A i \in 1 .. n : longer[i] = list[i]
      /\ longer[n + 1] = record
  BY <1>1
<1>3. PICK f : FoldEquation(f, list, estimates) /\ Folded(list, estimates) = f[n]
  BY <1>1, FoldExists
<1> HIDE DEF longer
<1>4. PICK g : FoldEquation(g, longer, more) /\ Folded(longer, more) = g[n + 1]
  BY <1>2, FoldExists
<1>5. /\ f[0] = NoState
      /\ \A k \in Nat : k + 1 <= n => f[k + 1] = FoldStep(f[k], list, estimates, k)
  BY <1>1, <1>3, FoldEntries
<1>6. /\ g[0] = NoState
      /\ \A k \in Nat : k + 1 <= n + 1 => g[k + 1] = FoldStep(g[k], longer, more, k)
  BY <1>2, <1>4, FoldEntries
<1>7. \A k \in Nat : k <= n => g[k] = f[k]
  <2> DEFINE T == {k \in Nat : k <= n => g[k] = f[k]}
  <2>1. 0 \in T
    BY <1>5, <1>6
  <2>2. ASSUME NEW k \in Nat, k \in T
        PROVE  k + 1 \in T
    <3> SUFFICES ASSUME k + 1 <= n PROVE g[k + 1] = f[k + 1]
      OBVIOUS
    <3>1. g[k] = f[k] /\ k + 1 \in 1 .. n /\ k + 1 # n + 1 /\ k + 1 <= n + 1
      BY <1>2, <2>2
    <3>2. k + 1 \in more <=> k + 1 \in estimates
      BY <1>1, <3>1
    <3>3. longer[k + 1] = list[k + 1]
      BY <1>2, <3>1
    <3> QED
      BY <1>5, <1>6, <3>1, <3>2, <3>3 DEF FoldStep
  <2> HIDE DEF T
  <2>3. \A k \in Nat : k \in T
    BY <2>1, <2>2, NumberByNumber
  <2> QED
    BY <2>3 DEF T
<1>8. g[n + 1] = FoldStep(f[n], longer, more, n)
  BY <1>2, <1>6, <1>7
<1> QED
  BY <1>1, <1>2, <1>3, <1>4, <1>8 DEF FoldStep, longer

\* The state of a cell takes one step of the filter when a subframe of the cell
\* is prepared, with the noise of its samples, and at no other time: a second
\* channel of the subframe, a retry after a failure, a failed call, a new
\* configuration and the other cells' calls all leave it as it is.
LEMMA AdmitFolds ==
  ASSUME FreshInv, SnapshotInv, NoiseStateIsTheFold, NEW in \in Inputs, Admit(in)
  PROVE  NoiseStateIsTheFold'
<1> DEFINE record == [input |-> in, memory |-> memory[in.grid], config |-> config]
<1>1. PICK n \in Nat : n = Len(calls)
  BY AdmitAppends DEF FreshInv
<1>2. Entries = 1 .. n
  BY <1>1, AdmitAppends DEF FreshInv
<1>3. record \in CallRecords /\ calls \in Seq(CallRecords) /\ calls' = Append(calls, record)
  BY InputsAssumption DEF FreshInv, TypeOK, CallRecords, Admit
<1> SUFFICES ASSUME NEW cell \in Cells
             PROVE  sigma2_by_cell'[cell] = Folded(calls', EstimatesOf(cell)')
  BY DEF NoiseStateIsTheFold, Folded
<1> DEFINE before == EstimatesOf(cell)
           new == ~Prepared(in) /\ in.cell_id = cell
<1>4. EstimatesOf(cell)' = IF new THEN before \cup {n + 1} ELSE before
  BY <1>1, AdmitEstimates
<1>5. before \in SUBSET (1 .. n) /\ n + 1 \notin before
  BY <1>2 DEF EstimatesOf
<1>6. sigma2_by_cell[cell] = Folded(calls, before)
  BY DEF NoiseStateIsTheFold
<1>7. record.memory.content = memory[in.grid].content /\ record.config = config
  OBVIOUS
<1> HIDE DEF record, before
<1>8. CASE new
  <2>1. Folded(calls', before \cup {n + 1}) =
          update_sigma2_state(Folded(calls, before), NoiseOf[record.memory.content], record.config)
    <3>1. before = (before \cup {n + 1}) \ {n + 1} /\ n + 1 \in before \cup {n + 1}
      BY <1>5
    <3> QED
      BY <1>1, <1>3, <3>1, FoldAppends
  <2>2. sigma2_by_cell'[cell] =
          update_sigma2_state(sigma2_by_cell[cell], NoiseOf[memory[in.grid].content], config)
    BY <1>8, AdmitUpdates
  <2> QED
    BY <1>4, <1>6, <1>7, <1>8, <2>1, <2>2
<1>9. CASE ~new
  <2>1. Folded(calls', before) = Folded(calls, before)
    <3>1. before = before \ {n + 1}
      BY <1>5
    <3> QED
      BY <1>1, <1>3, <1>5, <3>1, FoldAppends
  <2>2. sigma2_by_cell'[cell] = sigma2_by_cell[cell]
    BY <1>9, AdmitUpdates DEF core
  <2> QED
    BY <1>4, <1>6, <1>9, <2>1, <2>2
<1> QED
  BY <1>8, <1>9

\* Every other step leaves the states and the calls alone.
LEMMA OthersKeepTheFold ==
  ASSUME NoiseStateIsTheFold, UNCHANGED <<core, calls>>
  PROVE  NoiseStateIsTheFold'
<1>1. \A cell \in Cells : EstimatesOf(cell)' = EstimatesOf(cell)
  BY DEF EstimatesOf, StartsSubframe, SameSubframe, Entries
<1>2. \A cell \in Cells : Folded(calls', EstimatesOf(cell)') = Folded(calls, EstimatesOf(cell))
  BY <1>1
<1> QED
  BY <1>2 DEF NoiseStateIsTheFold, core, Folded

LEMMA InitFold == Init => NoiseStateIsTheFold
<1> SUFFICES ASSUME Init, NEW cell \in Cells
             PROVE  sigma2_by_cell[cell] = Folded(calls, EstimatesOf(cell))
  BY DEF NoiseStateIsTheFold
<1>1. calls = <<>> /\ calls \in Seq(CallRecords) /\ Len(calls) = 0
  BY DEF Init
<1>2. PICK f : /\ FoldEquation(f, calls, EstimatesOf(cell))
               /\ Folded(calls, EstimatesOf(cell)) = f[Len(calls)]
  BY <1>1, FoldExists
<1>3. f[0] = NoState
  BY <1>1, <1>2, FoldEntries
<1> QED
  BY <1>1, <1>2, <1>3 DEF Init

\* After any sequence of calls, failures, configurations and writes the noise
\* state of a cell is the fold of exactly one estimate for each subframe that
\* was prepared for it (mmse_equalizer_cpu.cpp:1394).
THEOREM NoiseIsTheFold == Spec => []NoiseStateIsTheFold
<1>1. Init => NoiseStateIsTheFold
  BY InitFold
<1>2. NoiseInv /\ NoiseStateIsTheFold /\ [Next]_vars => NoiseStateIsTheFold'
  <2> SUFFICES ASSUME NoiseInv, NoiseStateIsTheFold, [Next]_vars
               PROVE  NoiseStateIsTheFold'
    OBVIOUS
  <2>1. FreshInv /\ SnapshotInv
    BY DEF NoiseInv
  <2>2. ASSUME NEW in \in Inputs, Call(in)
        PROVE  NoiseStateIsTheFold'
    <3>1. CASE Reject
      BY <3>1, OthersKeepTheFold DEF Reject
    <3>2. CASE FailAfterPrepare(in)
      BY <2>1, <3>2, AdmitFolds DEF FailAfterPrepare
    <3>3. ASSUME NEW reports \in BOOLEAN, Equalise(in, reports)
          PROVE  NoiseStateIsTheFold'
      BY <2>1, <3>3, AdmitFolds DEF Equalise
    <3> QED  BY <2>2, <3>1, <3>2, <3>3, CallCases
  <2>3. ASSUME NEW cfg \in Configs, InitContext(cfg)
        PROVE  NoiseStateIsTheFold'
    BY <2>3, OthersKeepTheFold DEF InitContext
  <2>4. CASE InitRejected
    BY <2>4, OthersKeepTheFold DEF InitRejected, Reject
  <2>5. ASSUME NEW g \in Grids, NEW content \in Contents, WriteGrid(g, content)
        PROVE  NoiseStateIsTheFold'
    BY <2>5, OthersKeepTheFold DEF WriteGrid
  <2>6. CASE UNCHANGED vars
    BY <2>6, OthersKeepTheFold DEF vars
  <2> QED  BY <2>2, <2>3, <2>4, <2>5, <2>6 DEF Next
<1> QED  BY <1>1, <1>2, NoiseInvariance, PTL DEF Spec

-----------------------------------------------------------------------------
\* AutoBackend: the inputs and types of its calls.
AutoInputs == [grid : Grids, cell_id : Cells, sfn_subframe : Subframes, n_tx_ports : {1, 2, 4}]

AutoTypeOK ==
  /\ memory \in [Grids -> [content : Contents, generation : Nat]]
  /\ calls \in Seq([input : AutoInputs, memory : [content : Contents, generation : Nat],
                    config : Configs])
  /\ config \in Configs
  /\ prepared.valid \in BOOLEAN
  /\ prepared.valid => prepared.key \in [input : AutoInputs, generation : Nat]
  /\ next_stage_slot \in Slots

\* With one counter a generation has one content, wherever it has been copied.
OneContentPerGeneration ==
  \A v, w \in Grids : memory[v].generation = memory[w].generation => memory[v] = memory[w]

\* One caller's samples are the latest, and what is staged or prepared is no
\* newer: the next write has a generation of its own.
NewestIsACallers ==
  Callers # {} =>
    \E c \in Callers :
      /\ \A v \in Grids : memory[v].generation <= memory[c].generation
      /\ prepared.valid => prepared.key.generation <= memory[c].generation

\* The estimate is of the samples with its generation, in whichever view.
AutoCacheInv ==
  prepared.valid =>
    \A v \in Grids : memory[v].generation = prepared.key.generation =>
      h_full = [content |-> memory[v].content, cell_id |-> prepared.key.input.cell_id,
                sfn_subframe |-> prepared.key.input.sfn_subframe,
                n_tx_ports |-> prepared.key.input.n_tx_ports]

\* What is staged is still what the caller handed in.
StagedInv ==
  staged.pending =>
    /\ staged.input \in AutoInputs /\ staged.slot \in Slots
    /\ memory[staged.slot] = memory[staged.input.grid]

AutoInv == /\ AutoTypeOK /\ OneContentPerGeneration /\ NewestIsACallers
           /\ AutoCacheInv /\ StagedInv /\ AutoFreshEstimate

-----------------------------------------------------------------------------
LEMMA AutoInitHolds == AutoInit => AutoInv
<1> SUFFICES ASSUME AutoInit  PROVE AutoInv
  OBVIOUS
<1>1. PICK content \in Contents :
        memory = [g \in Grids |-> [content |-> content, generation |-> 0]]
  BY DEF AutoInit, Init
<1>2. /\ calls = <<>> /\ config = DefaultConfig /\ prepared.valid = FALSE
      /\ next_stage_slot = 0 /\ staged = Nobody /\ last = NoResult
  BY DEF AutoInit, Init
<1>3. AutoTypeOK
  <2>1. 0 \in Slots
    BY RingAssumption DEF Slots
  <2>2. memory \in [Grids -> [content : Contents, generation : Nat]]
    BY <1>1
  <2>3. calls \in Seq([input : AutoInputs, memory : [content : Contents, generation : Nat],
                      config : Configs])
    BY <1>2
  <2>4. config \in Configs /\ prepared.valid \in BOOLEAN /\ ~prepared.valid
    BY <1>2, DefaultConfigAssumption
  <2> QED  BY <1>2, <2>1, <2>2, <2>3, <2>4 DEF AutoTypeOK
<1>4. OneContentPerGeneration
  BY <1>1 DEF OneContentPerGeneration
<1>5. NewestIsACallers
  BY <1>1, <1>2, RingAssumption DEF NewestIsACallers
<1>6. AutoCacheInv /\ StagedInv /\ AutoFreshEstimate
  BY <1>2 DEF AutoCacheInv, StagedInv, AutoFreshEstimate, Nobody, Equalised, NoResult
<1> QED  BY <1>3, <1>4, <1>5, <1>6 DEF AutoInv

\* The cache is as good for the views of the slots as for the callers' own.
LEMMA AutoPrepare ==
  ASSUME AutoInv, NEW in \in AutoInputs, prepare_subframe_if_needed(in), UNCHANGED memory
  PROVE  /\ h_full' = estimate_channel(in)
         /\ prepared'.valid \in BOOLEAN
         /\ prepared'.valid => prepared'.key \in [input : AutoInputs, generation : Nat]
         /\ AutoCacheInv' /\ NewestIsACallers'
<1>1. in.grid \in Grids /\ memory[in.grid] \in [content : Contents, generation : Nat]
  BY DEF AutoInv, AutoTypeOK, AutoInputs
<1>2. CASE Prepared(in) /\ UNCHANGED core
  <2>1. prepared.valid /\ prepared.key.input = in
        /\ prepared.key.generation = memory[in.grid].generation
    BY <1>2 DEF Prepared, make_prepared_subframe_key
  <2>2. h_full = estimate_channel(in)
    BY <1>1, <2>1 DEF AutoInv, AutoCacheInv, estimate_channel
  <2>3. UNCHANGED <<prepared, h_full>>
    BY <1>2 DEF core
  <2> QED  BY <2>2, <2>3 DEF AutoInv, AutoTypeOK, AutoCacheInv, NewestIsACallers
<1>3. CASE ~Prepared(in)
  <2>1. h_full' = estimate_channel(in) /\ prepared'.valid = TRUE
        /\ prepared'.key = [input |-> in, generation |-> memory[in.grid].generation]
    BY <1>3 DEF prepare_subframe_if_needed, make_prepared_subframe_key
  <2>2. AutoCacheInv'
    <3> SUFFICES ASSUME NEW v \in Grids, memory[v].generation = memory[in.grid].generation
                 PROVE  h_full' = [content |-> memory[v].content, cell_id |-> in.cell_id,
                                   sfn_subframe |-> in.sfn_subframe,
                                   n_tx_ports |-> in.n_tx_ports]
      BY <2>1 DEF AutoCacheInv
    <3>1. memory[v] = memory[in.grid]
      BY <1>1 DEF AutoInv, OneContentPerGeneration
    <3> QED  BY <2>1, <3>1 DEF estimate_channel
  <2>3. NewestIsACallers'
    BY <1>1, <2>1 DEF AutoInv, NewestIsACallers
  <2>4. prepared'.valid \in BOOLEAN /\ prepared'.key \in [input : AutoInputs, generation : Nat]
    <3>1. memory[in.grid].generation \in Nat
      BY <1>1
    <3>2. [input |-> in, generation |-> memory[in.grid].generation]
             \in [input : AutoInputs, generation : Nat]
      BY <3>1
    <3>3. prepared'.key \in [input : AutoInputs, generation : Nat]
      BY <2>1, <3>2
    <3>4. prepared'.valid \in BOOLEAN
      BY <2>1
    <3> QED  BY <3>3, <3>4
  <2> QED  BY <2>1, <2>2, <2>3, <2>4
<1> QED  BY <1>2, <1>3 DEF prepare_subframe_if_needed

\* A call on a view with a caller's samples answers that caller's call.
LEMMA AutoAdmit ==
  ASSUME AutoInv, NEW in \in AutoInputs, NEW caller \in AutoInputs,
         in = [caller EXCEPT !.grid = in.grid], memory[in.grid] = memory[caller.grid],
         Admit(in), Serving(caller), last' = NoResult \/ last'.h = h_full',
         next_stage_slot' = next_stage_slot, staged' \in {staged, Nobody}
  PROVE  AutoInv'
<1> DEFINE record == [input |-> in, memory |-> memory[in.grid], config |-> config]
<1>1. UNCHANGED <<memory, config>> /\ prepare_subframe_if_needed(in)
      /\ calls' = Append(calls, record)
  BY DEF Admit
<1>2. record \in [input : AutoInputs, memory : [content : Contents, generation : Nat],
                  config : Configs]
  BY DEF AutoInv, AutoTypeOK, AutoInputs
<1> HIDE DEF record
<1>3. /\ calls' \in Seq([input : AutoInputs, memory : [content : Contents, generation : Nat],
                         config : Configs])
      /\ Len(calls') = Len(calls) + 1 /\ Len(calls) \in Nat
  BY <1>1, <1>2 DEF AutoInv, AutoTypeOK
<1>4. /\ h_full' = estimate_channel(in)
      /\ prepared'.valid \in BOOLEAN
      /\ prepared'.valid => prepared'.key \in [input : AutoInputs, generation : Nat]
      /\ AutoCacheInv' /\ NewestIsACallers'
  BY <1>1, AutoPrepare
<1>5. AutoTypeOK'
  BY <1>1, <1>3, <1>4 DEF AutoInv, AutoTypeOK
<1>6. OneContentPerGeneration'
  BY <1>1 DEF AutoInv, OneContentPerGeneration
<1>7. StagedInv'
  BY <1>1 DEF AutoInv, StagedInv, Nobody
<1>8. AutoFreshEstimate'
  <2>1. CASE last' = NoResult
    BY <2>1 DEF AutoFreshEstimate, Equalised, NoResult
  <2>2. CASE last'.h = h_full'
    <3>1. Len(calls') > Len(calls)
      BY <1>3
    <3>2. served' = [status |-> "served", input |-> caller, memory |-> memory[caller.grid]]
      BY <3>1 DEF Serving
    <3>3. /\ in.cell_id = caller.cell_id /\ in.sfn_subframe = caller.sfn_subframe
          /\ in.n_tx_ports = caller.n_tx_ports
      BY DEF AutoInputs
    <3> QED  BY <1>4, <2>2, <3>2, <3>3 DEF AutoFreshEstimate, estimate_channel
  <2> QED  BY <2>1, <2>2
<1> QED  BY <1>4, <1>5, <1>6, <1>7, <1>8 DEF AutoInv

\* A rejected call, an init: nothing but the configuration changes.
LEMMA AutoIdle ==
  ASSUME AutoInv, UNCHANGED <<core, memory, calls>>, config' \in Configs, last' = NoResult,
         next_stage_slot' \in Slots, staged' \in {staged, Nobody}
  PROVE  AutoInv'
<1>1. AutoTypeOK'
  BY DEF AutoInv, AutoTypeOK, core
<1>2. OneContentPerGeneration' /\ NewestIsACallers' /\ AutoCacheInv'
  BY DEF AutoInv, OneContentPerGeneration, NewestIsACallers, AutoCacheInv, core
<1>3. StagedInv' /\ AutoFreshEstimate'
  BY DEF AutoInv, StagedInv, Nobody, AutoFreshEstimate, Equalised, NoResult
<1> QED  BY <1>1, <1>2, <1>3 DEF AutoInv

LEMMA AutoCalls ==
  ASSUME AutoInv, NEW in \in AutoInputs, NEW caller \in AutoInputs,
         in = [caller EXCEPT !.grid = in.grid], memory[in.grid] = memory[caller.grid],
         Call(in), Serving(caller),
         next_stage_slot' = next_stage_slot, staged' \in {staged, Nobody}
  PROVE  AutoInv'
<1>1. CASE Reject
  <2>1. /\ UNCHANGED <<core, memory, calls, config>> /\ last' = NoResult
        /\ config \in Configs /\ next_stage_slot \in Slots
    BY <1>1 DEF Reject, AutoInv, AutoTypeOK
  <2> QED  BY <2>1, AutoIdle
<1>2. CASE FailAfterPrepare(in)
  BY <1>2, AutoAdmit DEF FailAfterPrepare
<1>3. ASSUME NEW reports \in BOOLEAN, Equalise(in, reports)
      PROVE  AutoInv'
  BY <1>3, AutoAdmit DEF Equalise
<1> QED  BY <1>1, <1>2, <1>3, CallCases

LEMMA AutoFallback ==
  ASSUME AutoInv, NEW channel \in Channels, RunFallback(channel)
  PROVE  AutoInv'
<1> DEFINE caller == staged.input
           in == [caller EXCEPT !.grid = staged.slot]
<1>1. /\ staged.pending /\ run(channel, in) /\ Serving(caller)
      /\ staged' = Nobody /\ next_stage_slot' = next_stage_slot
  BY DEF RunFallback
<1>2. /\ caller \in AutoInputs /\ staged.slot \in Grids
      /\ memory[staged.slot] = memory[caller.grid]
  BY <1>1, RingAssumption DEF AutoInv, StagedInv
<1>3. in \in AutoInputs /\ in.grid = staged.slot /\ in = [caller EXCEPT !.grid = in.grid]
  BY <1>2 DEF AutoInputs
<1>4. Call(in)
  BY <1>1 DEF Call
<1> HIDE DEF caller, in
<1> QED  BY <1>1, <1>2, <1>3, <1>4, AutoCalls

LEMMA AutoStage ==
  ASSUME AutoInv, NEW in \in Inputs, Stage(in)
  PROVE  AutoInv'
<1> DEFINE s == next_stage_slot
<1>1. /\ memory' = [memory EXCEPT ![s] = memory[in.grid]]
      /\ staged' = [pending |-> TRUE, input |-> in, slot |-> s]
      /\ next_stage_slot' = (s + 1) % SlotCount
      /\ last' = NoResult /\ UNCHANGED <<config, core, calls>>
      /\ ~staged.pending
  BY DEF Stage
<1>2. in \in AutoInputs /\ in.grid \in Grids
  BY InputsAssumption DEF AutoInputs
<1>3. s \in Slots /\ s \in Grids
  BY RingAssumption DEF AutoInv, AutoTypeOK
<1>4. /\ memory \in [Grids -> [content : Contents, generation : Nat]]
      /\ memory' \in [Grids -> [content : Contents, generation : Nat]]
      /\ memory'[s] = memory[in.grid] /\ \A v \in Grids \ {s} : memory'[v] = memory[v]
  BY <1>1, <1>2, <1>3 DEF AutoInv, AutoTypeOK
<1>5. (s + 1) % SlotCount \in Slots
  <2>1. s \in Nat /\ SlotCount \in Nat \ {0}
    BY <1>3, RingAssumption DEF Slots
  <2> HIDE DEF s
  <2> QED  BY <2>1 DEF Slots
<1>6. AutoTypeOK'
  BY <1>1, <1>4, <1>5 DEF AutoInv, AutoTypeOK, core
<1>7. \A v \in Grids : \E w \in Grids : memory'[v] = memory[w]
  BY <1>2, <1>4
<1>8. OneContentPerGeneration'
  BY <1>7 DEF AutoInv, OneContentPerGeneration
<1>9. NewestIsACallers'
  <2>1. \A c \in Callers : c \in Grids \ {s}
    BY <1>3, RingAssumption
  <2>2. \A c \in Callers : memory'[c] = memory[c]
    BY <1>4, <2>1
  <2> QED  BY <1>1, <1>7, <2>2 DEF AutoInv, NewestIsACallers, core
<1>10. AutoCacheInv'
  BY <1>1, <1>7 DEF AutoInv, AutoCacheInv, core
<1>11. StagedInv'
  <2>1. memory'[in.grid] = memory[in.grid]
    BY <1>2, <1>4
  <2> QED  BY <1>1, <1>2, <1>3, <1>4, <2>1 DEF StagedInv
<1>12. AutoFreshEstimate'
  BY <1>1 DEF AutoFreshEstimate, Equalised, NoResult
<1> QED  BY <1>6, <1>8, <1>9, <1>10, <1>11, <1>12 DEF AutoInv

\* With one counter a write makes the one view of the new generation.
LEMMA AutoWrite ==
  ASSUME OneCounter, AutoInv, NEW g \in Callers, NEW content \in Contents,
         CallerWrites(g, content)
  PROVE  AutoInv'
<1>1. PICK c \in Callers :
        /\ \A v \in Grids : memory[v].generation <= memory[c].generation
        /\ prepared.valid => prepared.key.generation <= memory[c].generation
  BY DEF AutoInv, NewestIsACallers
<1>2. memory \in [Grids -> [content : Contents, generation : Nat]]
      /\ g \in Grids /\ c \in Grids /\ Callers \subseteq Grids
  BY RingAssumption DEF AutoInv, AutoTypeOK
<1>3. \A v \in Grids : memory[v].generation \in Nat
  BY <1>2
<1>4. NextGeneration(g) = 1 + memory[c].generation
  <2> DEFINE Newest(m) == \A d \in Callers : memory[d].generation <= m
             newest == CHOOSE m \in {memory[d].generation : d \in Callers} : Newest(m)
  <2>1. memory[c].generation \in {memory[d].generation : d \in Callers}
        /\ Newest(memory[c].generation)
    BY <1>1, <1>2
  <2>2. newest \in {memory[d].generation : d \in Callers} /\ Newest(newest)
    BY <2>1
  <2>3. newest = memory[c].generation
    <3>1. newest <= memory[c].generation /\ memory[c].generation <= newest
      BY <1>1, <1>2, <2>2
    <3>2. newest \in Nat /\ memory[c].generation \in Nat
      BY <1>2, <1>3, <2>2
    <3> HIDE DEF newest
    <3> QED  BY <3>1, <3>2
  <2> QED  BY <2>3 DEF NextGeneration
<1> DEFINE next == 1 + memory[c].generation
<1>5. /\ memory' = [memory EXCEPT ![g] = [content |-> content, generation |-> next]]
      /\ last' = NoResult /\ ~staged.pending
      /\ UNCHANGED <<config, core, calls, next_stage_slot, staged>>
  BY <1>4 DEF CallerWrites
<1>6. next \in Nat /\ (\A v \in Grids : memory[v].generation < next)
      /\ (prepared.valid => prepared.key.generation < next)
  <2>1. prepared.valid => prepared.key.generation \in Nat
    BY DEF AutoInv, AutoTypeOK
  <2> QED  BY <1>1, <1>2, <1>3, <2>1
<1> HIDE DEF next
<1>7. /\ memory' \in [Grids -> [content : Contents, generation : Nat]]
      /\ memory'[g] = [content |-> content, generation |-> next]
      /\ \A v \in Grids \ {g} : memory'[v] = memory[v]
  BY <1>2, <1>5, <1>6
<1>8. AutoTypeOK'
  BY <1>5, <1>7 DEF AutoInv, AutoTypeOK, core
<1>9. \A v \in Grids \ {g} : memory'[v].generation # next
  BY <1>3, <1>6, <1>7
<1>10. OneContentPerGeneration'
  <2> SUFFICES ASSUME NEW v \in Grids, NEW w \in Grids,
                      memory'[v].generation = memory'[w].generation
               PROVE  memory'[v] = memory'[w]
    BY DEF OneContentPerGeneration
  <2>1. CASE v = g \/ w = g
    BY <1>7, <1>9, <2>1
  <2>2. CASE v # g /\ w # g
    BY <1>7, <2>2 DEF AutoInv, OneContentPerGeneration
  <2> QED  BY <2>1, <2>2
<1>11. NewestIsACallers'
  <2>1. \A v \in Grids : memory'[v].generation <= memory'[g].generation
    BY <1>3, <1>6, <1>7
  <2>2. prepared'.valid => prepared'.key.generation <= memory'[g].generation
    <3>1. prepared.valid => prepared.key.generation \in Nat
      BY DEF AutoInv, AutoTypeOK
    <3> QED  BY <1>5, <1>6, <1>7, <3>1 DEF core
  <2> QED  BY <2>1, <2>2 DEF NewestIsACallers
<1>12. AutoCacheInv'
  <2> SUFFICES ASSUME prepared.valid, NEW v \in Grids,
                      memory'[v].generation = prepared.key.generation
               PROVE  h_full = [content |-> memory'[v].content,
                                cell_id |-> prepared.key.input.cell_id,
                                sfn_subframe |-> prepared.key.input.sfn_subframe,
                                n_tx_ports |-> prepared.key.input.n_tx_ports]
    BY <1>5 DEF AutoCacheInv, core
  <2>1. prepared.key.generation \in Nat
    BY DEF AutoInv, AutoTypeOK
  <2>2. v # g
    BY <1>6, <1>7, <2>1
  <2>3. memory'[v] = memory[v]
    BY <1>7, <2>2
  <2> QED  BY <2>3 DEF AutoInv, AutoCacheInv
<1>13. StagedInv' /\ AutoFreshEstimate'
  BY <1>5 DEF StagedInv, AutoFreshEstimate, Equalised, NoResult
<1> QED  BY <1>8, <1>10, <1>11, <1>12, <1>13 DEF AutoInv

LEMMA AutoNextKeeps ==
  ASSUME OneCounter, AutoInv, [AutoNext]_autoVars
  PROVE  AutoInv'
<1>1. ASSUME NEW cfg \in Configs, AutoInitContext(cfg)
      PROVE  AutoInv'
  <2>1. 0 \in Slots
    BY RingAssumption DEF Slots
  <2>2. /\ UNCHANGED <<core, memory, calls>> /\ config' \in Configs /\ last' = NoResult
        /\ next_stage_slot' \in Slots /\ staged' = staged
    BY <1>1, <2>1 DEF AutoInitContext, InitContext
  <2> QED  BY <2>2, AutoIdle
<1>2. ASSUME NEW in \in Inputs, in.grid \in Callers, AutoDiversity(in)
      PROVE  AutoInv'
  <2>1. in \in AutoInputs /\ in = [in EXCEPT !.grid = in.grid]
    BY InputsAssumption DEF AutoInputs
  <2>2. Call(in) /\ Serving(in) /\ next_stage_slot' = next_stage_slot /\ staged' = staged
    BY <1>2 DEF AutoDiversity, Call
  <2> QED  BY <2>1, <2>2, AutoCalls
<1>3. CASE AutoRun
  BY <1>3, AutoFallback DEF AutoRun, Channels
<1>4. CASE AutoWrapper
  BY <1>4, AutoFallback DEF AutoWrapper, Channels
<1>5. CASE UNCHANGED autoVars
  BY <1>5 DEF autoVars, vars, core, AutoInv, AutoTypeOK, OneContentPerGeneration,
              NewestIsACallers, AutoCacheInv, StagedInv, AutoFreshEstimate, Equalised
<1> QED
  BY <1>1, <1>2, <1>3, <1>4, <1>5, AutoStage, AutoWrite DEF AutoNext

LEMMA AutoInvariance == ASSUME OneCounter PROVE AutoSpec => []AutoInv
<1>1. AutoInv /\ [AutoNext]_autoVars => AutoInv'
  BY AutoNextKeeps
<1> QED  BY <1>1, AutoInitHolds, PTL DEF AutoSpec

\* Callers that number the samples of all their views together get, through
\* the staging ring and past it, symbols equalised with the channel of their
\* own samples, however many slots there are and whoever called in between
\* (mmse_equalizer_gpu.cpp:872).
THEOREM AutoUsesTheCallersSamples ==
  ASSUME OneCounter
  PROVE  AutoSpec => []AutoFreshEstimate
<1>1. AutoInv => AutoFreshEstimate
  BY DEF AutoInv
<1> QED  BY <1>1, AutoInvariance, PTL

=============================================================================
