------------------------------ MODULE ThreadPool ------------------------------
(***************************************************************************)
(* StaticThreadPool of src/thread_pool.cpp: one owner thread that calls    *)
(* init, parallel_for and (from the destructor) stop, and the background   *)
(* workers 1 .. worker_count-1 it creates.                                 *)
(*                                                                         *)
(* Every critical section of the one mutex is one action.  A wait on a     *)
(* condition variable is two: the predicate is evaluated under the lock    *)
(* ("wait", "await"), and when it is false the thread joins the wait set   *)
(* ("blocked") in the same step, from which only a notification or a       *)
(* spurious wakeup takes it back to evaluating the predicate.  The         *)
(* callback runs outside the lock, between two steps of its thread.        *)
(***************************************************************************)
EXTENDS Chunking, FiniteSets

CONSTANTS
  MaxWorkers,  (* kMaxThreadWorkers: the largest worker_count a caller asks for *)
  RangeLists,  (* the spans of ranges parallel_for is called with               *)
  MaxCalls,    (* bound: how many times the owner calls parallel_for            *)
  MaxInits     (* bound: how many times the owner calls init                    *)

ASSUME MaxWorkersAssumption == MaxWorkers \in Nat \ {0}
ASSUME RangeListsAssumption == RangeLists \subseteq Seq(Interval)
ASSUME BoundsAssumption == MaxCalls \in Nat /\ MaxInits \in Nat

Ids == 0 .. (MaxWorkers - 1)
NoRange == <<0, 0>>
NoTask == [fn |-> 0, range |-> NoRange]

VARIABLES
  \* StaticThreadPool::Impl.  fn stands for the pair fn and ctx of a call:
  \* it is the number of the call that published it, 0 for nullptr.
  worker_count, workers, ranges, fn, generation,
  completed_generation, completed_workers, stop,
  \* The locals of worker w: where it is, the last ticket it took, and its
  \* snapshot of the published task.
  pc, observed, task,
  \* The owner: where it is, the worker_count init was asked for, the span of
  \* its current call, and how many calls and inits it has made.
  owner, target, arg, calls, inits,
  \* History: how often the callback has run chunk w of the current call.
  hits

impl == <<worker_count, workers, ranges, fn, generation,
          completed_generation, completed_workers, stop>>
local == <<pc, observed, task>>
bounds == <<calls, inits>>
vars == <<impl, local, owner, target, arg, bounds, hits>>

-----------------------------------------------------------------------------
InCall == {"inline", "single", "await", "blocked"}
Stopping == {"stopForInit", "stopForGood"}

\* Interval w of a span; a span shorter than the pool leaves worker w nothing.
RangeOf(rs, w) == IF w < Len(rs) THEN rs[w + 1] ELSE NoRange

\* Background workers that hold a snapshot and have not reported it yet.
Busy == {w \in workers : pc[w] \in {"run", "report"}}

-----------------------------------------------------------------------------
\* The default-constructed pool: worker_count 1, no thread, no ranges.
Init ==
  /\ worker_count = 1
  /\ workers = {}
  /\ ranges = [w \in Ids |-> NoRange]
  /\ fn = 0
  /\ generation = 0
  /\ completed_generation = 0
  /\ completed_workers = 0
  /\ stop = FALSE
  /\ pc = [w \in Ids |-> "none"]
  /\ observed = [w \in Ids |-> 0]
  /\ task = [w \in Ids |-> NoTask]
  /\ owner = "idle"
  /\ target = 1
  /\ arg = <<>>
  /\ calls = 0
  /\ inits = 0
  /\ hits = [w \in Ids |-> 0]

\* Mutant: notify_one on cv_work.
NotifyOneWorker ==
  \/ \E w \in Ids : pc[w] = "blocked" /\ pc' = [pc EXCEPT ![w] = "wait"]
  \/ (\A w \in Ids : pc[w] # "blocked") /\ UNCHANGED pc

\* notify_all on cv_work: every blocked worker evaluates its predicate again.
NotifyAllWorkers ==
  pc' = [w \in Ids |-> IF pc[w] = "blocked" THEN "wait" ELSE pc[w]]

\* The locked part of stop, called by init and by the destructor.
RequestStop ==
  /\ owner \in {"idle", "failed"}
  /\ stop' = TRUE
  /\ NotifyAllWorkers
  /\ UNCHANGED <<worker_count, workers, ranges, fn, generation, completed_generation,
                 completed_workers, observed, task, arg, calls, hits>>

CallInit(n) ==
  /\ inits < MaxInits
  /\ inits' = inits + 1
  /\ RequestStop
  /\ owner' = "stopForInit"
  /\ target' = IF n = 0 THEN 1 ELSE n

Destroy ==
  /\ RequestStop
  /\ owner' = "stopForGood"
  /\ UNCHANGED <<target, inits>>

\* stop has joined the last worker.
AllJoined == \A w \in workers : pc[w] = "exit"
ForgetThreads ==
  /\ workers' = {}
  /\ pc' = [w \in Ids |-> "none"]
  /\ observed' = [w \in Ids |-> 0]
  /\ task' = [w \in Ids |-> NoTask]

\* init goes on with a fresh Impl and creates its threads one by one.
Rebuild ==
  /\ owner = "stopForInit"
  /\ AllJoined
  /\ ForgetThreads
  /\ worker_count' = target
  /\ ranges' = [w \in Ids |-> NoRange]
  /\ fn' = 0
  /\ generation' = 0
  /\ completed_generation' = 0
  /\ completed_workers' = 0
  /\ stop' = FALSE
  /\ owner' = IF target <= 1 THEN "idle" ELSE "spawn"
  /\ UNCHANGED <<target, arg, bounds, hits>>

NextId == Cardinality(workers) + 1

Spawn ==
  /\ owner = "spawn"
  /\ workers' = workers \cup {NextId}
  /\ pc' = [pc EXCEPT ![NextId] = "wait"]
  /\ observed' = [observed EXCEPT ![NextId] = 0]
  /\ owner' = IF NextId = worker_count - 1 THEN "idle" ELSE "spawn"
  /\ UNCHANGED <<worker_count, ranges, fn, generation, completed_generation,
                 completed_workers, stop, task, target, arg, bounds, hits>>

\* std::thread throws: init is left with fewer threads than worker_count.  The
\* owner of such a pool can only initialise it again or destroy it.
SpawnFails ==
  /\ owner = "spawn"
  /\ owner' = "failed"
  /\ UNCHANGED <<impl, local, target, arg, bounds, hits>>

Joined ==
  /\ owner = "stopForGood"
  /\ AllJoined
  /\ ForgetThreads
  /\ owner' = "ended"
  /\ UNCHANGED <<worker_count, ranges, fn, generation, completed_generation,
                 completed_workers, stop, target, arg, bounds, hits>>

-----------------------------------------------------------------------------
(* parallel_for.  Entry is one of two actions, then the owner's own range. *)

EnterCall(rs) ==
  /\ owner = "idle"
  /\ calls < MaxCalls
  /\ calls' = calls + 1
  /\ arg' = rs
  /\ hits' = [w \in Ids |-> 0]
  /\ UNCHANGED <<target, inits>>

\* A pool of one worker, or a span of one range: no lock, no wakeup.
CallSingle(rs) ==
  /\ worker_count <= 1 \/ Len(rs) <= 1
  /\ EnterCall(rs)
  /\ owner' = "single"
  /\ UNCHANGED <<impl, local>>

\* Mutant: a span shorter than the pool leaves the other ranges as they were.
PublishKeepingTail(rs) ==
  /\ worker_count > 1 /\ Len(rs) > 1
  /\ EnterCall(rs)
  /\ ranges' = [w \in Ids |-> IF w < Len(rs) THEN RangeOf(rs, w) ELSE ranges[w]]
  /\ fn' = calls + 1
  /\ completed_workers' = 0
  /\ generation' = generation + 1
  /\ NotifyAllWorkers
  /\ owner' = "inline"
  /\ UNCHANGED <<worker_count, workers, completed_generation, stop, observed, task>>

\* Mutant: the reports of the call before are not forgotten.
PublishKeepingCount(rs) ==
  /\ worker_count > 1 /\ Len(rs) > 1
  /\ EnterCall(rs)
  /\ ranges' = [w \in Ids |-> IF w < worker_count THEN RangeOf(rs, w) ELSE ranges[w]]
  /\ fn' = calls + 1
  /\ generation' = generation + 1
  /\ NotifyAllWorkers
  /\ owner' = "inline"
  /\ UNCHANGED <<worker_count, workers, completed_generation, completed_workers, stop,
                 observed, task>>

\* Publish every range and the callback under one lock, then the ticket.
Publish(rs) ==
  /\ worker_count > 1 /\ Len(rs) > 1
  /\ EnterCall(rs)
  /\ ranges' = [w \in Ids |-> IF w < worker_count THEN RangeOf(rs, w) ELSE ranges[w]]
  /\ fn' = calls + 1
  /\ completed_workers' = 0
  /\ generation' = generation + 1
  /\ NotifyAllWorkers
  /\ owner' = "inline"
  /\ UNCHANGED <<worker_count, workers, completed_generation, stop, observed, task>>

\* fn(ctx, range.first, range.second) when the range has an element.
Run(w, r) == hits' = [hits EXCEPT ![w] = @ + (IF NonEmpty(r) THEN 1 ELSE 0)]

RunSingle ==
  /\ owner = "single"
  /\ Run(0, RangeOf(arg, 0))
  /\ owner' = "idle"
  /\ UNCHANGED <<impl, local, target, arg, bounds>>

RunInline ==
  /\ owner = "inline"
  /\ Run(0, RangeOf(arg, 0))
  /\ owner' = "await"
  /\ UNCHANGED <<impl, local, target, arg, bounds>>

\* cv_done.wait: return when this generation is complete, else block.
AwaitDone ==
  /\ owner = "await"
  /\ owner' = IF completed_generation = generation THEN "idle" ELSE "blocked"
  /\ UNCHANGED <<impl, local, target, arg, bounds, hits>>

SpuriousOwnerWakeup ==
  /\ owner = "blocked"
  /\ owner' = "await"
  /\ UNCHANGED <<impl, local, target, arg, bounds, hits>>

-----------------------------------------------------------------------------
(* The loop of worker w.                                                   *)

WorkerExit(w) ==
  /\ pc[w] = "wait" /\ stop
  /\ pc' = [pc EXCEPT ![w] = "exit"]
  /\ UNCHANGED <<impl, observed, task, owner, target, arg, bounds, hits>>

WorkerTake(w) ==
  /\ pc[w] = "wait" /\ ~stop
  /\ generation # observed[w]
  /\ pc' = [pc EXCEPT ![w] = "run"]
  /\ observed' = [observed EXCEPT ![w] = generation]
  /\ task' = [task EXCEPT ![w] = [fn |-> fn, range |-> ranges[w]]]
  /\ UNCHANGED <<impl, owner, target, arg, bounds, hits>>

WorkerBlock(w) ==
  /\ pc[w] = "wait" /\ ~stop
  /\ generation = observed[w]
  /\ pc' = [pc EXCEPT ![w] = "blocked"]
  /\ UNCHANGED <<impl, observed, task, owner, target, arg, bounds, hits>>

SpuriousWorkerWakeup(w) ==
  /\ pc[w] = "blocked"
  /\ pc' = [pc EXCEPT ![w] = "wait"]
  /\ UNCHANGED <<impl, observed, task, owner, target, arg, bounds, hits>>

WorkerRun(w) ==
  /\ pc[w] = "run"
  /\ Run(w, task[w].range)
  /\ pc' = [pc EXCEPT ![w] = "report"]
  /\ UNCHANGED <<impl, observed, task, owner, target, arg, bounds>>

\* Mutant: the first worker to report completes the generation.
WorkerReportEarly(w) ==
  /\ pc[w] = "report"
  /\ completed_workers' = completed_workers + 1
  /\ completed_generation' = observed[w]
  /\ owner' = IF owner = "blocked" THEN "await" ELSE owner
  /\ pc' = [pc EXCEPT ![w] = "wait"]
  /\ UNCHANGED <<worker_count, workers, ranges, fn, generation, stop, observed, task,
                 target, arg, bounds, hits>>

\* The last worker to report completes the generation and wakes the owner.
WorkerReport(w) ==
  /\ pc[w] = "report"
  /\ completed_workers' = completed_workers + 1
  /\ IF completed_workers' = worker_count - 1
     THEN /\ completed_generation' = observed[w]
          /\ owner' = IF owner = "blocked" THEN "await" ELSE owner
     ELSE UNCHANGED <<completed_generation, owner>>
  /\ pc' = [pc EXCEPT ![w] = "wait"]
  /\ UNCHANGED <<worker_count, workers, ranges, fn, generation, stop, observed, task,
                 target, arg, bounds, hits>>

-----------------------------------------------------------------------------
WorkerStep(w) == WorkerExit(w) \/ WorkerTake(w) \/ WorkerBlock(w) \/ WorkerRun(w) \/ WorkerReport(w)

\* What the owner does inside a call; starting a call is its own choice.
OwnerStep == Rebuild \/ Spawn \/ Joined \/ RunSingle \/ RunInline \/ AwaitDone

Ended == owner = "ended" /\ UNCHANGED vars

Next ==
  \/ \E n \in 0 .. MaxWorkers : CallInit(n)
  \/ Destroy
  \/ \E rs \in RangeLists : CallSingle(rs) \/ Publish(rs)
  \/ OwnerStep
  \/ SpawnFails
  \/ SpuriousOwnerWakeup
  \/ \E w \in Ids : WorkerStep(w) \/ SpuriousWorkerWakeup(w)
  \/ Ended

Spec == Init /\ [][Next]_vars

\* The operating system runs every runnable thread; it owes nobody a
\* spurious wakeup, and the owner need not make another call.
Fairness ==
  /\ WF_vars(OwnerStep)
  /\ \A w \in Ids : WF_vars(WorkerStep(w))

FairSpec == Spec /\ Fairness

-----------------------------------------------------------------------------
TypeOK ==
  /\ worker_count \in 1 .. MaxWorkers
  /\ workers \subseteq Ids \ {0}
  /\ ranges \in [Ids -> Interval]
  /\ fn \in Nat
  /\ generation \in Nat
  /\ completed_generation \in Nat
  /\ completed_workers \in Nat
  /\ stop \in BOOLEAN
  /\ pc \in [Ids -> {"none", "wait", "blocked", "run", "report", "exit"}]
  /\ observed \in [Ids -> Nat]
  /\ task \in [Ids -> [fn : Nat, range : Interval]]
  /\ owner \in InCall \cup Stopping \cup {"idle", "spawn", "failed", "ended"}
  /\ target \in 1 .. MaxWorkers
  /\ arg \in Seq(Interval)
  /\ calls \in Nat
  /\ inits \in Nat
  /\ hits \in [Ids -> Nat]

\* When parallel_for has returned, no worker is still inside the callback or
\* about to report it: the context the callback points to is a local of the
\* caller and is gone (thread_pool.cpp:138-142).
NoWorkerOutlivesTheCall ==
  owner \notin InCall => Busy = {}

\* Whatever a worker executes is the callback and range of the call the owner
\* is in, never a mixture with an earlier one (thread_pool.cpp:117-118).
SnapshotIsTheCurrentCall ==
  \A w \in Busy : task[w] = [fn |-> calls, range |-> RangeOf(arg, w)]

\* Nobody sleeps on a condition that already holds: the generation ticket and
\* the notifications leave no lost wakeup (thread_pool.cpp:52-53).
NoLostWakeup ==
  /\ \A w \in workers : pc[w] = "blocked" => ~stop /\ observed[w] = generation
  /\ owner = "blocked" => completed_generation # generation

\* The chunks of a call: one per worker, chunk 0 the owner's.
Expected(w) == IF w < worker_count /\ NonEmpty(RangeOf(arg, w)) THEN 1 ELSE 0

\* parallel_for returns only when every chunk has been run, each exactly once,
\* and none left over from an earlier, longer span (thread_pool.cpp:123-125).
EveryChunkRanOnce ==
  [][(owner \in InCall /\ owner' = "idle") => (\A w \in Ids : hits'[w] = Expected(w))]_vars

-----------------------------------------------------------------------------
(* The inductive invariant behind the safety properties above.             *)

\* The owner has published a call and waits for its generation.
Published == owner \in {"inline", "await", "blocked"}

\* Workers that still owe the current generation a report.
Pending == {w \in workers : observed[w] # generation \/ pc[w] \in {"run", "report"}}

\* init has created threads 1 .. k, all of them before anyone uses the pool.
ThreadsInv ==
  /\ \E k \in 0 .. (worker_count - 1) :
       /\ workers = 1 .. k
       /\ owner = "spawn" => k < worker_count - 1
       /\ owner \in InCall \cup {"idle"} => k = worker_count - 1
  /\ \A w \in Ids : w \in workers <=> pc[w] # "none"

StopInv ==
  /\ stop <=> owner \in Stopping \cup {"ended"}
  /\ \A w \in workers : pc[w] = "exit" => stop

\* completed_workers counts the reports, and the generation is complete
\* exactly when none is owed; a pool under construction has published nothing.
TicketInv ==
  /\ completed_generation = generation <=> Pending = {}
  /\ ~Published => Pending = {}
  /\ Published => completed_workers + Cardinality(Pending) = worker_count - 1
  /\ owner = "spawn" => generation = 0
  /\ \A w \in Busy : observed[w] = generation

\* What is published is the owner's call, and what was taken was published.
PublishedInv ==
  Published =>
    /\ worker_count > 1
    /\ fn = calls
    /\ \A w \in Ids : w < worker_count => ranges[w] = RangeOf(arg, w)

PoolInv ==
  /\ TypeOK /\ ThreadsInv /\ StopInv /\ TicketInv /\ PublishedInv
  /\ NoLostWakeup /\ SnapshotIsTheCurrentCall

\* Chunk w of the current call has still to be run: the owner's by the owner,
\* another by a worker that has not taken the ticket or not run its snapshot.
Unrun(w) ==
  IF w = 0 THEN owner \in {"inline", "single"}
  ELSE w \in workers /\ (observed[w] # generation \/ pc[w] = "run")

\* During a call a chunk has been run as often as it should once its thread is
\* past it, and never before; a call without tickets leaves only chunk 0.
HitsInv ==
  /\ owner \in InCall => \A w \in Ids : hits[w] = IF Unrun(w) THEN 0 ELSE Expected(w)
  /\ owner = "single" => \A w \in Ids \ {0} : Expected(w) = 0

IInv == PoolInv /\ HitsInv

-----------------------------------------------------------------------------
\* The pool implements the fork-join contract of ForkJoin.tla: what a caller
\* of parallel_for can rely on without knowing about tickets and threads.
ToDo == IF owner \in InCall THEN {w \in Ids : hits[w] < Expected(w)} ELSE {}
Done == {w \in Ids : hits[w] > 0}

Contract == INSTANCE ForkJoin WITH
  Chunks <- Ids,
  active <- owner \in InCall,
  todo <- ToDo,
  done <- Done

ImplementsForkJoin == Contract!Spec

\* Every call returns, whatever the order the threads run in.
EveryCallReturns == (owner \in InCall) ~> (owner = "idle")

\* init and the destructor get past stop: every worker sees the stop flag,
\* also after a thread could not be created (thread_pool.cpp:83-101).
StopJoinsEveryWorker == (owner \in Stopping) ~> (owner \notin Stopping)

=============================================================================
