------------------------------ MODULE AutoBackend ------------------------------
(***************************************************************************)
(* MmseEqualizerGpuContext of src/mmse_equalizer_gpu.cpp when its backend  *)
(* is kAuto: no device is used, and the CPU context of CpuContext.tla does *)
(* the work.  run copies the caller's samples into the next slot of the    *)
(* staging ring and hands the slot's own view to the CPU context; a        *)
(* transmit-diversity entry point hands it the caller's view as it is.     *)
(*                                                                         *)
(* The Grids of CpuContext are the views of the callers and of the slots.  *)
(***************************************************************************)
EXTENDS CpuContext

CONSTANTS
  Callers,        (* the callers' views of samples                           *)
  SlotCount,      (* stream_count of the configuration                       *)
  OneCounter      (* callers number the samples of all their views together  *)

Slots == 0 .. (SlotCount - 1)

ASSUME RingAssumption ==
  /\ SlotCount \in Nat \ {0}
  /\ Grids = Callers \cup Slots
  /\ Callers \cap Slots = {}
  /\ OneCounter \in BOOLEAN

VARIABLES
  next_stage_slot,
  staged,         \* the call whose samples are in a slot, not yet equalised
  layout,         \* slot.layout: the elements a slot was laid out for
  wrapped,        \* history: the latest answer of run_pbch, _pcfich, _pdcch
  served          \* history: the latest call that prepared a subframe

autoVars == <<vars, next_stage_slot, staged, layout, wrapped, served>>

Nobody == [pending |-> FALSE]
NoLayout == <<>>
NoAnswer == [status |-> "none"]

-----------------------------------------------------------------------------
AutoInit ==
  /\ Init
  /\ next_stage_slot = 0
  /\ staged = Nobody
  /\ layout = [s \in Slots |-> NoLayout]
  /\ wrapped = NoAnswer
  /\ served = NoAnswer

\* prepared.valid is only set by the CUDA path, so every call stages again.
Stage(in) ==
  /\ initialized /\ ~staged.pending
  /\ Len(calls) < MaxCalls
  /\ memory' = [memory EXCEPT ![next_stage_slot] = memory[in.grid]]
  /\ staged' = [pending |-> TRUE, input |-> in, slot |-> next_stage_slot]
  /\ layout' = [layout EXCEPT ![next_stage_slot] = NoLayout]
  /\ next_stage_slot' = (next_stage_slot + 1) % SlotCount
  /\ last' = NoResult
  /\ wrapped' = NoAnswer
  /\ UNCHANGED <<initialized, config, core, calls, inits, served>>

\* The call of the caller that was served, and the samples it was made for.
Serving(in) ==
  served' = IF Len(calls') > Len(calls)
            THEN [status |-> "served", input |-> in, memory |-> memory[in.grid]]
            ELSE served

\* cpu_fallback.run on the view of the slot.
RunFallback(channel) ==
  /\ staged.pending
  /\ run(channel, [staged.input EXCEPT !.grid = staged.slot])
  /\ Serving(staged.input)
  /\ staged' = Nobody
  /\ UNCHANGED <<next_stage_slot, layout>>

AutoRun == RunFallback("pdsch") /\ wrapped' = NoAnswer

\* run_pbch, run_pcfich and run_pdcch call run and then copy the elements of
\* the slot's layout to the caller's re_grid_indices.
AutoWrapper ==
  /\ \E channel \in {"pbch", "pcfich", "pdcch"} : RunFallback(channel)
  /\ wrapped' = IF last' = NoResult THEN NoAnswer
                ELSE [status |-> "ok", input |-> staged.input,
                      elements |-> layout[staged.slot]]

AutoDiversity(in) ==
  /\ ~staged.pending
  /\ \/ run_pbch_td(in) \/ run_pcfich_td(in) \/ run_pdcch_td(in) \/ run_pdsch_td(in)
     \/ run_pbch_td4(in) \/ run_pcfich_td4(in) \/ run_pdcch_td4(in)
  /\ Serving(in)
  /\ wrapped' = NoAnswer
  /\ UNCHANGED <<next_stage_slot, staged, layout>>

\* reset_runtime_state, then cpu_fallback.init: the CPU context keeps its
\* prepared subframe and its noise states.
AutoInitContext(cfg) ==
  /\ ~staged.pending
  /\ InitContext(cfg)
  /\ next_stage_slot' = 0
  /\ layout' = [s \in Slots |-> NoLayout]
  /\ wrapped' = NoAnswer
  /\ UNCHANGED <<staged, served>>

\* The caller's side: every view has a counter of its own, or all share one.
NextGeneration(g) ==
  1 + IF OneCounter
      THEN CHOOSE n \in {memory[c].generation : c \in Callers} :
             \A c \in Callers : memory[c].generation <= n
      ELSE memory[g].generation

CallerWrites(g, content) ==
  /\ ~staged.pending
  /\ NextGeneration(g) <= MaxGeneration
  /\ memory' = [memory EXCEPT ![g] = [content |-> content, generation |-> NextGeneration(g)]]
  /\ last' = NoResult
  /\ wrapped' = NoAnswer
  /\ UNCHANGED <<initialized, config, core, calls, inits, next_stage_slot, staged, layout, served>>

AutoNext ==
  \/ \E cfg \in Configs : AutoInitContext(cfg)
  \/ \E g \in Callers, content \in Contents : CallerWrites(g, content)
  \/ \E in \in Inputs : in.grid \in Callers /\ (Stage(in) \/ AutoDiversity(in))
  \/ AutoRun
  \/ AutoWrapper

AutoSpec == AutoInit /\ [][AutoNext]_autoVars

-----------------------------------------------------------------------------
\* The channel a caller's symbols are equalised with was estimated from the
\* samples of that caller and call: the slot's pointers do not make two
\* callers' subframes look the same (mmse_equalizer_gpu.cpp:872).
AutoFreshEstimate ==
  Equalised =>
    last.h = [content |-> served.memory.content, cell_id |-> served.input.cell_id,
              sfn_subframe |-> served.input.sfn_subframe,
              n_tx_ports |-> served.input.n_tx_ports]

=============================================================================
