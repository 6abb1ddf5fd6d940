---------------------------- MODULE MCThreadPool ----------------------------
(* Small instances of ThreadPool for TLC. *)
EXTENDS ThreadPool

\* Spans with work for every worker, with a worker left out, with only the
\* owner's range filled, with one range, with none, and longer than the pool.
MCRangeLists ==
  { <<>>,
    << <<0, 2>> >>,
    << <<0, 1>>, <<1, 2>>, <<2, 3>> >>,
    << <<0, 2>>, <<2, 3>> >>,
    << <<0, 0>>, <<0, 0>>, <<0, 2>> >> }

=============================================================================
