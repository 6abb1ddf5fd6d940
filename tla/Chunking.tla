------------------------------- MODULE Chunking -------------------------------
(***************************************************************************)
(* How the CPU context cuts n_re resource elements into one range per      *)
(* worker before it calls the pool (src/mmse_equalizer_cpu.cpp,            *)
(* chunk_count and run_channel_from_prepared_estimate).  A range is the    *)
(* pair <<begin, end>> of the half-open interval begin .. end-1; a list of *)
(* ranges is a sequence whose element w+1 belongs to worker w.             *)
(***************************************************************************)
EXTENDS Integers, Sequences

Interval == Nat \X Nat

\* The elements the callback visits for a range; none when begin >= end.
Elements(r) == r[1] .. (r[2] - 1)

NonEmpty(r) == r[1] < r[2]

AtMost(a, b) == IF a < b THEN a ELSE b
AtLeast(a, b) == IF a < b THEN b ELSE a

\* chunk_count(workers, total): never more workers than elements, never zero.
chunk_count(workers, total) ==
    IF workers = 0 THEN 1 ELSE AtMost(workers, AtLeast(1, total))

\* Mutant: the division rounds down.
ChunkLengthRoundedDown(workers, n_re) == n_re \div workers

\* ceil(n_re / workers), the length of every chunk but the last ones.
ChunkLength(workers, n_re) == (n_re + workers - 1) \div workers

\* Mutant: the end of a range is taken as inclusive.
ChunkRangeInclusive(workers, n_re, w) ==
    LET begin == w * ChunkLength(workers, n_re)
    IN  <<begin, AtMost(begin + ChunkLength(workers, n_re) + 1, n_re)>>

\* The range of worker w.  Past the end of the data begin exceeds end.
ChunkRange(workers, n_re, w) ==
    LET chunk == ChunkLength(workers, n_re)
        begin == w * chunk
    IN  <<begin, AtMost(begin + chunk, n_re)>>

\* The span handed to parallel_for by a context whose pool has pool_workers.
ChunkRanges(pool_workers, n_re) ==
    LET workers == chunk_count(pool_workers, IF n_re = 0 THEN 1 ELSE n_re)
    IN  [i \in 1 .. workers |-> ChunkRange(workers, n_re, i - 1)]

=============================================================================
