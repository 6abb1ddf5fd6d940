------------------------------ MODULE CpuContext ------------------------------
(***************************************************************************)
(* MmseEqualizerCpuContext of src/mmse_equalizer_cpu.cpp: the one prepared *)
(* subframe it caches, the noise power it smooths per cell, and the entry  *)
(* points that share both.  A context is used by one thread at a time, so  *)
(* a call is one action; what happens inside its parallel_for is           *)
(* ThreadPool's subject.                                                   *)
(*                                                                         *)
(* Samples are abstracted to a content, and a channel grid H to the        *)
(* content, cell, subframe and ports it was estimated from.  The noise     *)
(* power of a cell is NoiseState's.                                        *)
(***************************************************************************)
EXTENDS NoiseState, Sequences, FiniteSets

CONSTANTS
  Grids,           (* planar grid views: the pointers, and the shape with them *)
  SingleAntenna,   (* those of them with one receive antenna                   *)
  Contents,        (* what the samples of a view can be                        *)
  NoiseOf,         (* the CRS residual of a content                            *)
  Cells, Subframes,
  Inputs,          (* the calls' inputs                                        *)
  DefaultConfig,   (* the one a context is constructed with                    *)
  MaxGeneration,   (* bound: generation counter of a view                      *)
  MaxCalls,        (* bound: calls that reach the prepared subframe            *)
  MaxInits         (* bound: successful calls of init                          *)

ASSUME NoiseAssumption == NoiseOf \in [Contents -> Nat]
ASSUME DefaultConfigAssumption == DefaultConfig \in Configs
ASSUME ViewsAssumption == SingleAntenna \subseteq Grids
ASSUME InputsAssumption ==
  Inputs \subseteq [grid : Grids, cell_id : Cells, sfn_subframe : Subframes,
                    n_tx_ports : {1, 2, 4}]

Channels == {"pdsch", "pdcch", "pbch", "pcfich"}

VARIABLES
  initialized, config,         \* as in Impl
  prepared,                    \* the prepared-subframe cache: valid, key, sigma2
  h_full,                      \* what the channel grid was estimated from
  sigma2_by_cell,              \* the IIR state of each cell
  memory,                      \* the caller's samples: content, generation
  last,                        \* the latest call: its input, result, H and noise
  calls,                       \* history: every call that passed validation
  inits

core == <<prepared, h_full, sigma2_by_cell>>
vars == <<initialized, config, core, memory, last, calls, inits>>

-----------------------------------------------------------------------------
(* The prepared subframe.                                                  *)

\* Mutant: the generation of the samples is not part of the key.
KeyWithoutGeneration(in) == [input |-> in, generation |-> 0]

\* What the cache compares: the view, its generation, and the descriptor
\* fields the estimate depends on.
make_prepared_subframe_key(in) ==
  [input |-> in, generation |-> memory[in.grid].generation]

NoKey == [generation |-> 0]

\* The estimate of H is a function of the samples and of where the CRS are.
estimate_channel(in) ==
  [content |-> memory[in.grid].content, cell_id |-> in.cell_id,
   sfn_subframe |-> in.sfn_subframe, n_tx_ports |-> in.n_tx_ports]

Prepared(in) == prepared.valid /\ prepared.key = make_prepared_subframe_key(in)

\* Mutant: every channel estimates, also in a subframe that is prepared.
prepare_always(in) ==
  /\ h_full' = estimate_channel(in)
  /\ sigma2_by_cell' =
       [sigma2_by_cell EXCEPT
          ![in.cell_id] = update_sigma2_state(@, NoiseOf[memory[in.grid].content], config)]
  /\ prepared' = [valid |-> TRUE,
                  key |-> make_prepared_subframe_key(in),
                  sigma2 |-> sigma2_by_cell'[in.cell_id].value]

\* A miss estimates H, folds the residual into the state of the cell and
\* publishes both as the one snapshot of the context.
prepare_subframe_if_needed(in) ==
  \/ /\ Prepared(in)
     /\ UNCHANGED core
  \/ /\ ~Prepared(in)
     /\ h_full' = estimate_channel(in)
     /\ sigma2_by_cell' =
          [sigma2_by_cell EXCEPT
             ![in.cell_id] = update_sigma2_state(@, NoiseOf[memory[in.grid].content], config)]
     /\ prepared' = [valid |-> TRUE,
                     key |-> make_prepared_subframe_key(in),
                     sigma2 |-> sigma2_by_cell'[in.cell_id].value]

-----------------------------------------------------------------------------
(* The entry points.  Each rejects a call before it touches the cache, or  *)
(* prepares the subframe and then equalises or fails on what follows.      *)

None == -1
NoResult == [h |-> <<>>, used |-> None, reported |-> None]

\* A handler that returns before prepare_subframe_if_needed: the context is not
\* initialised, a pointer is missing, or nobody supports the shape, the number
\* of ports or the descriptor.  Which status says so is left out.
Reject ==
  /\ last' = NoResult
  /\ UNCHANGED <<initialized, config, core, memory, calls, inits>>

Admit(in) ==
  /\ initialized
  /\ Len(calls) < MaxCalls
  /\ prepare_subframe_if_needed(in)
  /\ calls' = Append(calls, [input |-> in, memory |-> memory[in.grid], config |-> config])
  /\ UNCHANGED <<initialized, config, memory, inits>>

\* Mutant: the noise to report is read before the subframe is prepared.
EqualiseReportingEarly(in, reports) ==
  /\ Admit(in)
  /\ last' = [h |-> h_full', used |-> prepared'.sigma2,
              reported |-> IF reports
                           THEN peek_sigma2_state(sigma2_by_cell[in.cell_id], config.sigma2_min)
                           ELSE None]

\* The call equalised with H and sigma2 of the snapshot, and reports the
\* noise of its cell when it gets as far as filling in a result record.
Equalise(in, reports) ==
  /\ Admit(in)
  /\ last' = [h |-> h_full', used |-> prepared'.sigma2,
              reported |-> IF reports
                           THEN peek_sigma2_state(sigma2_by_cell'[in.cell_id], config.sigma2_min)
                           ELSE None]

\* The subframe is prepared, but the layout or the buffer does not fit.
FailAfterPrepare(in) == Admit(in) /\ last' = NoResult

\* run: the base entry point has no result record to report the noise in.
run(channel, in) ==
  \/ Reject
  \/ /\ in.n_tx_ports \in (IF channel = "pdsch" THEN {1, 2} ELSE {1})
     /\ Equalise(in, FALSE) \/ FailAfterPrepare(in)

\* The one-port wrappers of run: the metadata arrays are measured after the
\* symbols have been written, and the call may still fail then.
RunOnePort(in) ==
  \/ Reject
  \/ /\ in.n_tx_ports = 1
     /\ (\E reports \in BOOLEAN : Equalise(in, reports)) \/ FailAfterPrepare(in)

run_pbch(in) == RunOnePort(in)
run_pcfich(in) == RunOnePort(in)
run_pdcch(in) == RunOnePort(in)

\* Transmit diversity: the elements are grouped by the number of ports after
\* the subframe is prepared, and the group length is checked there.
RunDiversity(in, ports) ==
  \/ Reject
  \/ /\ in.n_tx_ports = ports
     /\ Equalise(in, TRUE) \/ FailAfterPrepare(in)

RunTd(in) == RunDiversity(in, 2)
RunTd4(in) == Reject \/ (in.grid \in SingleAntenna /\ RunDiversity(in, 4))

run_pdsch_td(in) == RunTd(in)
run_pbch_td(in) == RunTd(in)
run_pcfich_td(in) == RunTd(in)
run_pdcch_td(in) == RunTd(in)
run_pbch_td4(in) == RunTd4(in)
run_pcfich_td4(in) == RunTd4(in)
run_pdcch_td4(in) == RunTd4(in)

Call(in) ==
  \/ \E channel \in Channels : run(channel, in)
  \/ run_pbch(in) \/ run_pcfich(in) \/ run_pdcch(in)
  \/ run_pdsch_td(in) \/ run_pbch_td(in) \/ run_pcfich_td(in) \/ run_pdcch_td(in)
  \/ run_pbch_td4(in) \/ run_pcfich_td4(in) \/ run_pdcch_td4(in)

-----------------------------------------------------------------------------
Init ==
  /\ initialized = FALSE
  /\ config = DefaultConfig
  /\ prepared = [valid |-> FALSE, key |-> NoKey, sigma2 |-> 0]
  /\ h_full = <<>>
  /\ sigma2_by_cell = [c \in Cells |-> NoState]
  /\ \E content \in Contents : memory = [g \in Grids |-> [content |-> content, generation |-> 0]]
  /\ last = NoResult
  /\ calls = <<>>
  /\ inits = 0

\* Mutant: init does not refuse a floor of zero.
InitUnvalidated(cfg) ==
  /\ inits < MaxInits
  /\ inits' = inits + 1
  /\ config' \in {cfg, [cfg EXCEPT !.sigma2_min = 0]}
  /\ initialized' = TRUE
  /\ last' = NoResult
  /\ UNCHANGED <<core, memory, calls>>

\* init, also of a context that is in use: the configuration is replaced, the
\* prepared subframe and the noise states stay.
InitContext(cfg) ==
  /\ inits < MaxInits
  /\ inits' = inits + 1
  /\ config' = cfg
  /\ initialized' = TRUE
  /\ last' = NoResult
  /\ UNCHANGED <<core, memory, calls>>

\* A configuration out of range, or AVX2 asked for where there is none.
InitRejected == Reject

\* The caller's side of the cache contract: new samples, new generation.
WriteGrid(g, content) ==
  /\ memory[g].generation < MaxGeneration
  /\ memory' = [memory EXCEPT ![g] = [content |-> content, generation |-> @.generation + 1]]
  /\ last' = NoResult
  /\ UNCHANGED <<initialized, config, core, calls, inits>>

Next ==
  \/ \E cfg \in Configs : InitContext(cfg)
  \/ InitRejected
  \/ \E g \in Grids, content \in Contents : WriteGrid(g, content)
  \/ \E in \in Inputs : Call(in)

Spec == Init /\ [][Next]_vars

-----------------------------------------------------------------------------
TypeOK ==
  /\ initialized \in BOOLEAN
  /\ config \in Configs
  /\ prepared.valid \in BOOLEAN
  /\ prepared.sigma2 \in Nat
  /\ prepared.valid => prepared.key \in [input : Inputs, generation : Nat]
  /\ sigma2_by_cell \in [Cells -> NoiseStates]
  /\ memory \in [Grids -> [content : Contents, generation : Nat]]
  /\ calls \in Seq([input : Inputs, config : Configs,
                    memory : [content : Contents, generation : Nat]])
  /\ inits \in Nat

Equalised == last.used # None
LastCall == calls[Len(calls)]

\* Every equalisation uses the channel of its own samples, cell, subframe and
\* ports, whatever other calls were made in between and however they failed:
\* one estimate is shared by all entry points (mmse_equalizer_cpu.cpp:1394).
FreshEstimate ==
  Equalised =>
    LET in == LastCall.input
    IN  last.h = [content |-> LastCall.memory.content, cell_id |-> in.cell_id,
                  sfn_subframe |-> in.sfn_subframe, n_tx_ports |-> in.n_tx_ports]

\* The sigma2 a result reports is the one its symbols were equalised with, or
\* the floor if init has raised it since: a consumer that scales LLRs by it
\* would otherwise use another noise power.
ReportsTheNoiseUsed ==
  last.reported # None => last.reported = AtLeast(last.used, config.sigma2_min)

\* Calls for one prepared subframe follow each other; the first of them is new.
Entries == 1 .. Len(calls)
SameSubframe(c, d) == c.input = d.input /\ c.memory = d.memory
StartsSubframe(i) == i = 1 \/ ~SameSubframe(calls[i - 1], calls[i])

\* The estimates that cell was given: one per prepared subframe.
EstimatesOf(cell) ==
  {i \in Entries : calls[i].input.cell_id = cell /\ StartsSubframe(i)}

\* The filter over some calls, of which only the estimates are folded in.
Folded(list, estimates) ==
  LET state[n \in 0 .. Len(list)] ==
        IF n = 0 THEN NoState
        ELSE IF n \in estimates
             THEN update_sigma2_state(state[n - 1], NoiseOf[list[n].memory.content], list[n].config)
             ELSE state[n - 1]
  IN  state[Len(list)]

\* The smoothed noise of a cell is the fold of exactly one estimate for each
\* prepared subframe: neither a second channel of the subframe nor a retry
\* after a failure counts it twice, and no failed call loses it.
NoiseStateIsTheFold ==
  \A cell \in Cells : sigma2_by_cell[cell] = Folded(calls, EstimatesOf(cell))

\* Smoothing cannot leave the interval of the estimates it was given, each
\* raised to the floor in force when it was made.
NoiseStaysWithinEstimates ==
  \A cell \in Cells : sigma2_by_cell[cell].initialized =>
    LET estimates == {AtLeast(NoiseOf[calls[i].memory.content], calls[i].config.sigma2_min)
                       : i \in EstimatesOf(cell)}
        value == sigma2_by_cell[cell].value
    IN  (\E e \in estimates : e <= value) /\ (\E e \in estimates : value <= e)

=============================================================================
