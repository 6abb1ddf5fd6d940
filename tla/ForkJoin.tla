------------------------------- MODULE ForkJoin -------------------------------
(***************************************************************************)
(* What StaticThreadPool::parallel_for promises its caller: a call runs    *)
(* each chunk that holds work exactly once, in any order, and returns      *)
(* after the last one.  How the chunks reach the threads is not visible.   *)
(***************************************************************************)
CONSTANT Chunks     \* the names of the chunks of a call

VARIABLES
  active,   \* a call is in progress
  todo,     \* its chunks that have not been run yet
  done      \* its chunks that have

vars == <<active, todo, done>>

Init ==
  /\ active = FALSE
  /\ todo = {}
  /\ done = {}

\* The caller decides which chunks hold work.
Fork(work) ==
  /\ ~active
  /\ active' = TRUE
  /\ todo' = work
  /\ done' = {}

Execute(c) ==
  /\ c \in todo
  /\ todo' = todo \ {c}
  /\ done' = done \cup {c}

\* A call returns with its last chunk or after it, and with nothing left to do.
Join ==
  /\ active
  /\ active' = FALSE
  /\ todo' = {}
  /\ \/ todo = {} /\ UNCHANGED done
     \/ \E c \in todo : todo = {c} /\ done' = done \cup {c}

Next ==
  \/ \E work \in SUBSET Chunks : Fork(work)
  \/ \E c \in Chunks : Execute(c) /\ UNCHANGED active
  \/ Join

Spec == Init /\ [][Next]_vars

Fairness == WF_vars(Join) /\ \A c \in Chunks : WF_vars(Execute(c) /\ UNCHANGED active)

=============================================================================
