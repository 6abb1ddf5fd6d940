------------------------------ MODULE CpuDispatch ------------------------------
(***************************************************************************)
(* The CPU context on top of its pool: run_channel_from_prepared_estimate  *)
(* of src/mmse_equalizer_cpu.cpp cuts the n_re resource elements of a      *)
(* channel into chunks and equalises them with one parallel_for.  The      *)
(* chunking is Chunking's, the pool is ThreadPool's.                       *)
(***************************************************************************)
EXTENDS ThreadPool

CONSTANT MaxRe     \* bound: the largest channel, in resource elements

ASSUME MaxReAssumption == MaxRe \in Nat

VARIABLE n_re      \* elements of the channel being, or last, equalised

dispatchVars == <<vars, n_re>>

DispatchInit == Init /\ n_re = 0

Dispatch(n) ==
  LET spans == ChunkRanges(worker_count, n)
  IN  /\ CallSingle(spans) \/ Publish(spans)
      /\ n_re' = n

\* Everything the pool does on its own, and its creation and destruction.
PoolStep ==
  /\ \/ \E n \in 0 .. MaxWorkers : CallInit(n)
     \/ Destroy
     \/ OwnerStep
     \/ SpawnFails
     \/ SpuriousOwnerWakeup
     \/ \E w \in Ids : WorkerStep(w) \/ SpuriousWorkerWakeup(w)
     \/ Ended
  /\ UNCHANGED n_re

DispatchNext == (\E n \in 0 .. MaxRe : Dispatch(n)) \/ PoolStep

DispatchSpec == DispatchInit /\ [][DispatchNext]_dispatchVars

DispatchFairSpec ==
  /\ DispatchSpec
  /\ WF_dispatchVars(OwnerStep /\ UNCHANGED n_re)
  /\ \A w \in Ids : WF_dispatchVars(WorkerStep(w) /\ UNCHANGED n_re)

-----------------------------------------------------------------------------
\* How often element e has been equalised in the current call.
TimesEqualised(e) ==
  LET visitors == {w \in Ids : hits[w] > 0 /\ e \in Elements(RangeOf(arg, w))}
  IN  Cardinality(visitors)

CoveredOnce ==
  /\ \A e \in 0 .. (n_re - 1) : TimesEqualised(e) = 1
  /\ \A w \in Ids : hits[w] > 0 => Elements(RangeOf(arg, w)) \subseteq 0 .. (n_re - 1)

\* When the call for a channel returns, each of its elements has been
\* equalised by exactly one worker and nothing beyond them has been touched,
\* for every worker count, more workers than elements included.
EveryReEqualisedOnce ==
  [][(owner \in InCall /\ owner' = "idle") => CoveredOnce']_dispatchVars

\* While workers run, no two of them write the same output element: a data
\* race on x_hat and sinr otherwise (each worker stores its own elements).
WorkersWriteDisjointElements ==
  LET writing == {w \in Busy : pc[w] = "run"} \cup (IF owner = "inline" THEN {0} ELSE {})
  IN  \A v, w \in writing :
        v # w => Elements(RangeOf(arg, v)) \cap Elements(RangeOf(arg, w)) = {}

\* During a call the pool is working on the chunks of the current channel.
DispatchInv ==
  /\ IInv
  /\ n_re \in Nat
  /\ owner \in InCall => arg = ChunkRanges(worker_count, n_re)

=============================================================================
