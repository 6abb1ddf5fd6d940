--------------------------- MODULE ThreadPoolProofs ---------------------------
(***************************************************************************)
(* Proofs about StaticThreadPool (ThreadPool.tla) and the chunked dispatch *)
(* on top of it (CpuDispatch.tla), for every number of workers, every      *)
(* span, every channel size and any number of calls and inits.             *)
(*                                                                         *)
(* PoolInv says which tickets are owed, HitsInv which chunks have run;     *)
(* IInv, their conjunction, is inductive.  Each action has a lemma that    *)
(* preserves PoolInv, a lemma that preserves HitsInv, and a lemma that     *)
(* maps it to a step of the fork-join contract.                            *)
(***************************************************************************)
EXTENDS CpuDispatch, FiniteSetTheorems, TLAPS

-----------------------------------------------------------------------------
(* Facts about the helpers.                                                *)

\* Every range handed out of a span is a range, also past its end.
LEMMA RangeOfType ==
  ASSUME NEW rs \in Seq(Interval), NEW w \in Ids
  PROVE  RangeOf(rs, w) \in Interval
<1>1. CASE w < Len(rs)
  <2>1. w + 1 \in 1 .. Len(rs)
    BY <1>1, MaxWorkersAssumption DEF Ids
  <2>2. rs[w + 1] \in Interval
    BY <2>1
  <2> QED  BY <1>1, <2>2 DEF RangeOf
<1>2. CASE ~(w < Len(rs))
  BY <1>2 DEF RangeOf, NoRange, Interval
<1> QED  BY <1>1, <1>2

LEMMA NoTaskType == NoRange \in Interval /\ NoTask \in [fn : Nat, range : Interval]
<1>1. NoRange \in Interval
  BY DEF NoRange, Interval
<1> QED  BY <1>1 DEF NoTask

\* The threads of a pool are finitely many, and so are those owing a report.
LEMMA PendingFinite ==
  ASSUME PoolInv
  PROVE  IsFiniteSet(workers) /\ IsFiniteSet(Pending) /\ Cardinality(Pending) \in Nat
<1>1. PICK k \in 0 .. (worker_count - 1) : workers = 1 .. k
  BY DEF PoolInv, ThreadsInv
<1>2. IsFiniteSet(workers)
  BY <1>1, FS_Interval DEF PoolInv, TypeOK
<1>3. IsFiniteSet(Pending)
  BY <1>2, FS_Subset DEF Pending
<1> QED  BY <1>2, <1>3, FS_CardinalityType

-----------------------------------------------------------------------------
(* The initial state and the lifecycle actions.                            *)

LEMMA InitInv == Init => IInv
<1> SUFFICES ASSUME Init PROVE IInv
  OBVIOUS
<1> USE DEF Init
<1>1. workers = 1 .. 0
  OBVIOUS
<1>2. TypeOK
  <2>1. arg \in Seq(Interval)
    OBVIOUS
  <2>2. task \in [Ids -> [fn : Nat, range : Interval]] /\ ranges \in [Ids -> Interval]
    BY NoTaskType
  <2>3. worker_count \in 1 .. MaxWorkers /\ target \in 1 .. MaxWorkers
    BY MaxWorkersAssumption
  <2>4. workers \subseteq Ids \ {0} /\ stop \in BOOLEAN
    OBVIOUS
  <2>5. /\ fn \in Nat /\ generation \in Nat /\ completed_generation \in Nat
        /\ completed_workers \in Nat /\ calls \in Nat /\ inits \in Nat
    OBVIOUS
  <2>6. /\ pc \in [Ids -> {"none", "wait", "blocked", "run", "report", "exit"}]
        /\ observed \in [Ids -> Nat] /\ hits \in [Ids -> Nat]
    OBVIOUS
  <2> QED  BY <2>1, <2>2, <2>3, <2>4, <2>5, <2>6 DEF TypeOK
<1>3. ThreadsInv
  BY <1>1 DEF ThreadsInv, InCall
<1>4. Pending = {} /\ Busy = {}
  BY DEF Pending, Busy
<1>5. StopInv /\ TicketInv /\ PublishedInv /\ NoLostWakeup /\ SnapshotIsTheCurrentCall
  BY <1>4 DEF StopInv, TicketInv, PublishedInv, Published, NoLostWakeup,
              SnapshotIsTheCurrentCall, Stopping
<1>6. HitsInv
  BY DEF HitsInv, InCall
<1> QED  BY <1>2, <1>3, <1>5, <1>6 DEF IInv, PoolInv

\* Raising the stop flag wakes every worker and changes no ticket.
LEMMA RequestStopInv ==
  ASSUME PoolInv, RequestStop, owner' \in Stopping, target' \in 1 .. MaxWorkers, inits' \in Nat
  PROVE  PoolInv'
<1> USE DEF RequestStop, NotifyAllWorkers
<1>1. TypeOK'
  BY DEF PoolInv, TypeOK, Stopping, InCall
<1>2. ThreadsInv'
  BY DEF PoolInv, ThreadsInv, TypeOK, InCall, Stopping
<1>3. StopInv'
  BY DEF PoolInv, StopInv
<1>4. Pending' = Pending /\ Busy' = Busy
  BY DEF PoolInv, TypeOK, Pending, Busy
<1>5. Pending = {} /\ Busy = {}
  BY DEF PoolInv, TicketInv, Published, Pending, Busy
<1>6. TicketInv' /\ PublishedInv' /\ SnapshotIsTheCurrentCall'
  BY <1>4, <1>5 DEF PoolInv, TicketInv, PublishedInv, Published, Stopping,
                    SnapshotIsTheCurrentCall
<1>7. NoLostWakeup'
  BY DEF PoolInv, TypeOK, NoLostWakeup, Stopping
<1> QED  BY <1>1, <1>2, <1>3, <1>6, <1>7 DEF PoolInv

LEMMA CallInitInv ==
  ASSUME PoolInv, NEW n \in 0 .. MaxWorkers, CallInit(n)
  PROVE  PoolInv'
<1>1. RequestStop /\ owner' \in Stopping
  BY DEF CallInit, Stopping
<1>2. target' \in 1 .. MaxWorkers
  BY MaxWorkersAssumption DEF CallInit
<1>3. inits' \in Nat
  BY DEF CallInit, PoolInv, TypeOK
<1> QED  BY <1>1, <1>2, <1>3, RequestStopInv

LEMMA DestroyInv ==
  ASSUME PoolInv, Destroy
  PROVE  PoolInv'
<1>1. RequestStop /\ owner' \in Stopping
  BY DEF Destroy, Stopping
<1>2. target' \in 1 .. MaxWorkers /\ inits' \in Nat
  BY DEF Destroy, PoolInv, TypeOK
<1> QED  BY <1>1, <1>2, RequestStopInv

\* A fresh Impl: no thread, no ticket, nothing owed.
LEMMA RebuildInv ==
  ASSUME PoolInv, Rebuild
  PROVE  PoolInv'
<1> USE DEF Rebuild, ForgetThreads
<1>1. TypeOK'
  BY NoTaskType DEF PoolInv, TypeOK, InCall, Stopping, bounds
<1>2. workers' = 1 .. 0 /\ 0 \in 0 .. (worker_count' - 1)
  BY DEF PoolInv, TypeOK
<1>3. ThreadsInv'
  <2>1. \A w \in Ids : (w \in workers <=> pc[w] # "none")'
    OBVIOUS
  <2>2. owner' = "spawn" => 0 < worker_count' - 1
    BY DEF PoolInv, TypeOK
  <2>3. owner' \in InCall \cup {"idle"} => 0 = worker_count' - 1
    BY DEF PoolInv, TypeOK, InCall
  <2> QED  BY <1>2, <2>1, <2>2, <2>3 DEF ThreadsInv
<1>4. Pending' = {} /\ Busy' = {}
  BY DEF Pending, Busy
<1>5. StopInv' /\ TicketInv' /\ PublishedInv' /\ NoLostWakeup' /\ SnapshotIsTheCurrentCall'
  BY <1>4 DEF StopInv, TicketInv, PublishedInv, Published, NoLostWakeup,
              SnapshotIsTheCurrentCall, Stopping
<1> QED  BY <1>1, <1>3, <1>5 DEF PoolInv

LEMMA JoinedInv ==
  ASSUME PoolInv, Joined
  PROVE  PoolInv'
<1> USE DEF Joined, ForgetThreads
<1>1. TypeOK'
  BY NoTaskType DEF PoolInv, TypeOK, InCall, Stopping, bounds
<1>2. workers' = 1 .. 0 /\ 0 \in 0 .. (worker_count' - 1)
  BY DEF PoolInv, TypeOK
<1>3. ThreadsInv'
  <2>1. \A w \in Ids : (w \in workers <=> pc[w] # "none")'
    OBVIOUS
  <2>2. owner' = "spawn" => 0 < worker_count' - 1
    BY DEF PoolInv, TypeOK
  <2>3. owner' \in InCall \cup {"idle"} => 0 = worker_count' - 1
    BY DEF PoolInv, TypeOK, InCall
  <2> QED  BY <1>2, <2>1, <2>2, <2>3 DEF ThreadsInv
<1>4. Pending' = {} /\ Busy' = {} /\ Pending = {}
  BY DEF Pending, Busy, PoolInv, TicketInv, Published
<1>5. StopInv' /\ TicketInv' /\ PublishedInv' /\ NoLostWakeup' /\ SnapshotIsTheCurrentCall'
  BY <1>4 DEF PoolInv, StopInv, TicketInv, PublishedInv, Published, NoLostWakeup,
              SnapshotIsTheCurrentCall, Stopping
<1> QED  BY <1>1, <1>3, <1>5 DEF PoolInv

\* A new thread has observed generation 0, which is still the current one.
LEMMA SpawnInv ==
  ASSUME PoolInv, Spawn
  PROVE  PoolInv'
<1>1. PICK k \in 0 .. (worker_count - 1) : workers = 1 .. k /\ k < worker_count - 1
  BY DEF PoolInv, ThreadsInv, Spawn
<1>2. Cardinality(workers) = k
  BY <1>1, FS_Interval DEF PoolInv, TypeOK
<1>3. NextId = k + 1 /\ k + 1 \in Ids \ {0} /\ k + 1 \in 0 .. (worker_count - 1)
  BY <1>1, <1>2, MaxWorkersAssumption DEF NextId, Ids, PoolInv, TypeOK
<1>4. workers' = 1 .. (k + 1)
  BY <1>1, <1>3 DEF Spawn
<1>5. TypeOK'
  BY <1>3 DEF PoolInv, TypeOK, Spawn, InCall, Stopping, bounds
<1>6. ThreadsInv'
  <2>1. \A w \in Ids : (w \in workers <=> pc[w] # "none")'
    BY <1>3 DEF PoolInv, TypeOK, ThreadsInv, Spawn
  <2>2. worker_count' = worker_count /\ owner' \in {"idle", "spawn"}
        /\ (owner' = "idle" <=> k + 1 = worker_count - 1)
    BY <1>3 DEF Spawn
  <2> QED  BY <1>1, <1>3, <1>4, <2>1, <2>2 DEF ThreadsInv, InCall, PoolInv, TypeOK
<1>7. StopInv'
  BY <1>3 DEF PoolInv, TypeOK, StopInv, Spawn, Stopping
<1>8. Pending = {} /\ Busy = {} /\ generation = 0
  BY DEF PoolInv, TicketInv, Published, Spawn, Pending, Busy
<1>9. Pending' = {} /\ Busy' = {}
  BY <1>3, <1>8 DEF Pending, Busy, Spawn, PoolInv, TypeOK
<1>10. TicketInv' /\ PublishedInv' /\ SnapshotIsTheCurrentCall'
  BY <1>8, <1>9 DEF PoolInv, TicketInv, PublishedInv, Published, SnapshotIsTheCurrentCall, Spawn
<1>11. NoLostWakeup'
  BY <1>3 DEF PoolInv, TypeOK, NoLostWakeup, Spawn
<1> QED  BY <1>5, <1>6, <1>7, <1>10, <1>11 DEF PoolInv

LEMMA SpawnFailsInv ==
  ASSUME PoolInv, SpawnFails
  PROVE  PoolInv'
<1> USE DEF SpawnFails, impl, local, bounds
<1>1. Pending' = Pending /\ Busy' = Busy
  BY DEF Pending, Busy
<1> QED
  BY <1>1 DEF PoolInv, TypeOK, ThreadsInv, StopInv, TicketInv, PublishedInv, Published,
              NoLostWakeup, SnapshotIsTheCurrentCall, InCall, Stopping

-----------------------------------------------------------------------------
(* The calls.                                                              *)

\* Steps of the owner that leave the pool and the threads alone: it may go on
\* waiting for the call it published, or return when nothing is owed.
LEMMA OwnerMoveInv ==
  ASSUME PoolInv, UNCHANGED <<impl, local>>, TypeOK',
         owner \in InCall \cup {"idle"}, owner' \in InCall \cup {"idle"},
         Published' => Published /\ UNCHANGED <<arg, calls>>,
         ~Published' => Pending = {},
         owner' = "blocked" => completed_generation # generation
  PROVE  PoolInv'
<1> USE DEF impl, local
<1>1. Pending' = Pending /\ Busy' = Busy /\ Busy \subseteq Pending
  BY DEF Pending, Busy
<1>2. ThreadsInv' /\ StopInv' /\ NoLostWakeup'
  BY DEF PoolInv, ThreadsInv, StopInv, NoLostWakeup, InCall, Stopping
<1>3. completed_generation = generation <=> Pending = {}
  BY DEF PoolInv, TicketInv
<1>4. owner' # "spawn"
  BY DEF InCall
<1>5. CASE Published'
  <2>1. TicketInv'
    BY <1>1, <1>3, <1>4, <1>5 DEF PoolInv, TicketInv
  <2>2. PublishedInv' /\ SnapshotIsTheCurrentCall'
    BY <1>1, <1>5 DEF PoolInv, PublishedInv, SnapshotIsTheCurrentCall
  <2> QED  BY <1>2, <2>1, <2>2 DEF PoolInv
<1>6. CASE ~Published'
  <2>1. TicketInv' /\ PublishedInv' /\ SnapshotIsTheCurrentCall'
    BY <1>1, <1>3, <1>4, <1>6 DEF TicketInv, PublishedInv, SnapshotIsTheCurrentCall
  <2> QED  BY <1>2, <2>1 DEF PoolInv
<1> QED  BY <1>5, <1>6

LEMMA CallSingleInv ==
  ASSUME PoolInv, NEW rs \in Seq(Interval), CallSingle(rs)
  PROVE  PoolInv'
<1> USE DEF CallSingle, EnterCall
<1>1. TypeOK'
  BY DEF PoolInv, TypeOK, impl, local, InCall
<1>2. Pending = {} /\ ~Published'
  BY DEF PoolInv, TicketInv, Published
<1> QED  BY <1>1, <1>2, OwnerMoveInv DEF InCall

\* Publishing makes every worker owe a report for the new generation.
LEMMA PublishInv ==
  ASSUME PoolInv, NEW rs \in Seq(Interval), Publish(rs)
  PROVE  PoolInv'
<1> USE DEF Publish, EnterCall, NotifyAllWorkers
<1>1. rs \in Seq(Interval)
  OBVIOUS
<1>2. TypeOK'
  <2>1. ranges' \in [Ids -> Interval]
    BY <1>1, RangeOfType DEF PoolInv, TypeOK
  <2>2. pc' \in [Ids -> {"none", "wait", "blocked", "run", "report", "exit"}]
    BY DEF PoolInv, TypeOK
  <2> QED  BY <1>1, <2>1, <2>2 DEF PoolInv, TypeOK, InCall
<1>3. PICK k \in 0 .. (worker_count - 1) : workers = 1 .. k /\ k = worker_count - 1
  BY DEF PoolInv, ThreadsInv
<1>4. ThreadsInv'
  <2>1. \A w \in Ids : (w \in workers <=> pc[w] # "none")'
    BY DEF PoolInv, TypeOK, ThreadsInv
  <2> QED  BY <1>3, <2>1 DEF ThreadsInv
<1>5. StopInv' /\ ~stop
  BY DEF PoolInv, TypeOK, StopInv, Stopping
<1>6. Pending = {} /\ Busy = {} /\ completed_generation = generation
  BY DEF PoolInv, TicketInv, Published, Pending, Busy
<1>7. \A w \in workers : observed[w] = generation
  BY <1>6 DEF Pending
<1>8. Pending' = workers /\ Busy' = {}
  BY <1>6, <1>7 DEF Pending, Busy, PoolInv, TypeOK
<1>9. Cardinality(workers) = worker_count - 1 /\ workers # {}
  <2>1. worker_count \in Nat /\ worker_count > 1
    BY DEF PoolInv, TypeOK
  <2>2. Cardinality(1 .. k) = k
    BY <1>3, <2>1, FS_Interval
  <2>3. 1 \in 1 .. k
    BY <1>3, <2>1
  <2> QED  BY <1>3, <2>2, <2>3
<1>10. TicketInv'
  <2>1. completed_generation' # generation' /\ Pending' # {}
    BY <1>6, <1>8, <1>9 DEF PoolInv, TypeOK
  <2>2. Published' /\ owner' # "spawn"
    BY DEF Published
  <2>3. completed_workers' + Cardinality(Pending') = worker_count' - 1
    BY <1>8, <1>9 DEF PoolInv, TypeOK
  <2> QED  BY <1>8, <2>1, <2>2, <2>3 DEF TicketInv
<1>11. PublishedInv'
  BY DEF PublishedInv, PoolInv, TypeOK
<1>12. NoLostWakeup' /\ SnapshotIsTheCurrentCall'
  BY <1>8 DEF NoLostWakeup, SnapshotIsTheCurrentCall, PoolInv, TypeOK
<1> QED  BY <1>2, <1>4, <1>5, <1>10, <1>11, <1>12 DEF PoolInv

\* Running a chunk changes the history and nothing of the pool.
LEMMA RunType ==
  ASSUME TypeOK, NEW w \in Ids, NEW r, Run(w, r)
  PROVE  hits' \in [Ids -> Nat]
BY DEF Run, TypeOK

LEMMA RunSingleInv ==
  ASSUME PoolInv, RunSingle
  PROVE  PoolInv'
<1> USE DEF RunSingle
<1>1. 0 \in Ids
  BY MaxWorkersAssumption DEF Ids
<1>2. TypeOK'
  BY <1>1, RunType DEF PoolInv, TypeOK, impl, local, bounds
<1>3. Pending = {} /\ ~Published'
  BY DEF PoolInv, TicketInv, Published
<1> QED  BY <1>2, <1>3, OwnerMoveInv DEF InCall

LEMMA RunInlineInv ==
  ASSUME PoolInv, RunInline
  PROVE  PoolInv'
<1> USE DEF RunInline
<1>1. 0 \in Ids
  BY MaxWorkersAssumption DEF Ids
<1>2. TypeOK'
  BY <1>1, RunType DEF PoolInv, TypeOK, impl, local, bounds, InCall
<1>3. Published /\ Published' /\ UNCHANGED <<arg, calls>>
  BY DEF Published, bounds
<1> QED  BY <1>2, <1>3, OwnerMoveInv DEF InCall

LEMMA AwaitDoneInv ==
  ASSUME PoolInv, AwaitDone
  PROVE  PoolInv'
<1> USE DEF AwaitDone
<1>1. TypeOK'
  BY DEF PoolInv, TypeOK, impl, local, bounds, InCall
<1>2. Published /\ UNCHANGED <<arg, calls>>
  BY DEF Published, bounds
<1>3. ~Published' => Pending = {}
  BY DEF PoolInv, TicketInv, Published
<1> QED  BY <1>1, <1>2, <1>3, OwnerMoveInv DEF InCall

LEMMA SpuriousOwnerWakeupInv ==
  ASSUME PoolInv, SpuriousOwnerWakeup
  PROVE  PoolInv'
<1> USE DEF SpuriousOwnerWakeup
<1>1. TypeOK'
  BY DEF PoolInv, TypeOK, impl, local, bounds, InCall
<1>2. Published /\ Published' /\ UNCHANGED <<arg, calls>>
  BY DEF Published, bounds
<1> QED  BY <1>1, <1>2, OwnerMoveInv DEF InCall

-----------------------------------------------------------------------------
(* The workers.                                                            *)

\* A worker that only moves between "wait", "blocked" and "exit".
LEMMA WorkerMoveInv ==
  ASSUME PoolInv, NEW w \in Ids, NEW to \in {"wait", "blocked", "exit"},
         pc[w] \in {"wait", "blocked"}, pc' = [pc EXCEPT ![w] = to],
         to = "exit" => stop,
         to = "blocked" => ~stop /\ observed[w] = generation,
         UNCHANGED <<impl, observed, task, owner, target, arg, bounds, hits>>
  PROVE  PoolInv'
<1> USE DEF impl, bounds
<1>1. TypeOK'
  BY DEF PoolInv, TypeOK
<1>2. ThreadsInv' /\ StopInv' /\ NoLostWakeup'
  <2>1. \A v \in Ids : (v \in workers <=> pc[v] # "none")'
    BY DEF PoolInv, ThreadsInv, TypeOK
  <2>2. ThreadsInv'
    BY <2>1 DEF PoolInv, ThreadsInv
  <2>3. StopInv' /\ NoLostWakeup'
    BY DEF PoolInv, StopInv, NoLostWakeup, TypeOK
  <2> QED  BY <2>2, <2>3
<1>3. Pending' = Pending /\ Busy' = Busy
  BY DEF Pending, Busy, PoolInv, TypeOK
<1>4. TicketInv' /\ PublishedInv' /\ SnapshotIsTheCurrentCall'
  BY <1>3 DEF PoolInv, TicketInv, PublishedInv, Published, SnapshotIsTheCurrentCall
<1> QED  BY <1>1, <1>2, <1>4 DEF PoolInv

LEMMA WorkerExitInv ==
  ASSUME PoolInv, NEW w \in Ids, WorkerExit(w)
  PROVE  PoolInv'
BY WorkerMoveInv DEF WorkerExit

LEMMA WorkerBlockInv ==
  ASSUME PoolInv, NEW w \in Ids, WorkerBlock(w)
  PROVE  PoolInv'
BY WorkerMoveInv DEF WorkerBlock

LEMMA SpuriousWorkerWakeupInv ==
  ASSUME PoolInv, NEW w \in Ids, SpuriousWorkerWakeup(w)
  PROVE  PoolInv'
BY WorkerMoveInv DEF SpuriousWorkerWakeup

\* Taking a ticket leaves the worker owing the same report.
LEMMA WorkerTakeInv ==
  ASSUME PoolInv, NEW w \in Ids, WorkerTake(w)
  PROVE  PoolInv'
<1> USE DEF WorkerTake, impl, bounds
<1>1. TypeOK'
  BY DEF PoolInv, TypeOK
<1>2. w \in workers /\ w \in Pending
  BY DEF PoolInv, ThreadsInv, Pending
<1>3. Published /\ Published'
  BY <1>2 DEF PoolInv, TicketInv, Published
<1>4. ThreadsInv' /\ StopInv' /\ NoLostWakeup'
  <2>1. \A v \in Ids : (v \in workers <=> pc[v] # "none")'
    BY DEF PoolInv, ThreadsInv, TypeOK
  <2>2. ThreadsInv'
    BY <2>1 DEF PoolInv, ThreadsInv
  <2>3. StopInv' /\ NoLostWakeup'
    BY DEF PoolInv, StopInv, NoLostWakeup, TypeOK
  <2> QED  BY <2>2, <2>3
<1>5. Pending' = Pending /\ Busy' = Busy \cup {w}
  BY <1>2 DEF Pending, Busy, PoolInv, TypeOK
<1>6. TicketInv'
  BY <1>3, <1>5 DEF PoolInv, TypeOK, TicketInv, Published
<1>7. PublishedInv'
  BY <1>3 DEF PoolInv, PublishedInv, Published
<1>8. w < worker_count
  BY <1>2 DEF PoolInv, ThreadsInv, TypeOK
<1>9. task'[w] = [fn |-> calls, range |-> RangeOf(arg, w)]
  BY <1>3, <1>8 DEF PoolInv, PublishedInv, TypeOK
<1>10. SnapshotIsTheCurrentCall'
  <2>1. UNCHANGED <<arg, calls>>
    OBVIOUS
  <2>2. ASSUME NEW v \in Busy, v # w
        PROVE  task'[v] = [fn |-> calls, range |-> RangeOf(arg, v)]
    BY <2>2 DEF PoolInv, SnapshotIsTheCurrentCall, TypeOK, Busy
  <2> QED  BY <1>5, <1>9, <2>1, <2>2 DEF SnapshotIsTheCurrentCall, RangeOf
<1> QED  BY <1>1, <1>4, <1>6, <1>7, <1>10 DEF PoolInv

LEMMA WorkerRunInv ==
  ASSUME PoolInv, NEW w \in Ids, WorkerRun(w)
  PROVE  PoolInv'
<1> USE DEF WorkerRun, impl, bounds
<1>1. TypeOK'
  BY RunType DEF PoolInv, TypeOK
<1>2. ThreadsInv' /\ StopInv' /\ NoLostWakeup'
  <2>1. \A v \in Ids : (v \in workers <=> pc[v] # "none")'
    BY DEF PoolInv, ThreadsInv, TypeOK
  <2>2. ThreadsInv'
    BY <2>1 DEF PoolInv, ThreadsInv
  <2>3. StopInv' /\ NoLostWakeup'
    BY DEF PoolInv, StopInv, NoLostWakeup, TypeOK
  <2> QED  BY <2>2, <2>3
<1>3. Pending' = Pending /\ Busy' = Busy
  BY DEF Pending, Busy, PoolInv, TypeOK
<1>4. TicketInv' /\ PublishedInv' /\ SnapshotIsTheCurrentCall'
  BY <1>3 DEF PoolInv, TicketInv, PublishedInv, Published, SnapshotIsTheCurrentCall
<1> QED  BY <1>1, <1>2, <1>4 DEF PoolInv

\* A report takes its worker off the list; the last one completes the generation.
LEMMA WorkerReportInv ==
  ASSUME PoolInv, NEW w \in Ids, WorkerReport(w)
  PROVE  PoolInv'
<1> USE DEF WorkerReport, bounds
<1>1. w \in workers /\ w \in Busy /\ w \in Pending /\ observed[w] = generation
  BY DEF PoolInv, ThreadsInv, Pending, Busy, TicketInv
<1>2. Published
  BY <1>1 DEF PoolInv, TicketInv
<1>3. Published' /\ owner' # "spawn"
  BY <1>2 DEF Published
<1>4. Pending' = Pending \ {w} /\ Busy' = Busy \ {w}
  BY <1>1 DEF Pending, Busy, PoolInv, TypeOK
<1>5. /\ IsFiniteSet(Pending) /\ Cardinality(Pending) \in Nat
      /\ IsFiniteSet(Pending') /\ Cardinality(Pending') = Cardinality(Pending) - 1
      /\ Cardinality(Pending') \in Nat
  BY <1>1, <1>4, PendingFinite, FS_RemoveElement, FS_CardinalityType
<1>6. completed_workers' + Cardinality(Pending') = worker_count' - 1
  BY <1>2, <1>5 DEF PoolInv, TicketInv, TypeOK
<1>7. completed_workers' = worker_count - 1 <=> Pending' = {}
  BY <1>5, <1>6, FS_EmptySet DEF PoolInv, TypeOK
<1>8. TypeOK'
  BY DEF PoolInv, TypeOK, InCall
<1>9. completed_generation' = generation' <=> Pending' = {}
  <2>1. completed_generation # generation
    BY <1>1 DEF PoolInv, TicketInv
  <2> QED  BY <1>1, <1>7, <2>1
<1>10. ThreadsInv' /\ StopInv'
  <2>1. \A v \in Ids : (v \in workers <=> pc[v] # "none")'
    BY <1>1 DEF PoolInv, ThreadsInv, TypeOK
  <2>2. owner' \in InCall /\ owner \in InCall
    BY <1>2, <1>3 DEF Published, InCall
  <2>3. ThreadsInv'
    BY <1>3, <2>1, <2>2 DEF PoolInv, ThreadsInv
  <2>4. StopInv'
    BY <2>2 DEF PoolInv, StopInv, TypeOK, InCall, Stopping
  <2> QED  BY <2>3, <2>4
<1>11. TicketInv'
  BY <1>3, <1>4, <1>6, <1>9 DEF PoolInv, TicketInv
<1>12. PublishedInv' /\ SnapshotIsTheCurrentCall'
  BY <1>2, <1>4 DEF PoolInv, PublishedInv, SnapshotIsTheCurrentCall
<1>13. NoLostWakeup'
  BY <1>1, <1>7, <1>9 DEF PoolInv, NoLostWakeup, TypeOK
<1> QED  BY <1>8, <1>10, <1>11, <1>12, <1>13 DEF PoolInv

-----------------------------------------------------------------------------
(* Which chunks have run.                                                  *)

\* The range a busy worker holds is its own of the current call.
LEMMA SnapshotRange ==
  ASSUME PoolInv, NEW w \in Busy
  PROVE  task[w].range = RangeOf(arg, w)
<1>1. task[w] = [fn |-> calls, range |-> RangeOf(arg, w)]
  BY DEF PoolInv, SnapshotIsTheCurrentCall
<1> QED  BY <1>1

\* Outside a call nothing is said of the chunks.
LEMMA NoCallHits ==
  ASSUME owner' \notin InCall
  PROVE  HitsInv'
BY DEF HitsInv, InCall

\* Every chunk of a call that publishes no ticket is chunk 0.
LEMMA CallSingleHits ==
  ASSUME PoolInv, NEW rs \in Seq(Interval), CallSingle(rs)
  PROVE  HitsInv'
<1> USE DEF CallSingle, EnterCall, impl, local
<1>1. Pending = {}
  BY DEF PoolInv, TicketInv, Published
<1>2. \A w \in Ids \ {0} : Expected(w)' = 0
  <2> SUFFICES ASSUME NEW w \in Ids \ {0} PROVE Expected(w)' = 0
    OBVIOUS
  <2>1. w >= 1
    BY MaxWorkersAssumption DEF Ids
  <2>2. CASE worker_count <= 1
    BY <2>1, <2>2 DEF Expected, PoolInv, TypeOK, Ids
  <2>3. CASE Len(rs) <= 1
    <3>1. RangeOf(rs, w) = NoRange
      BY <2>1, <2>3 DEF RangeOf, Ids
    <3> QED  BY <3>1 DEF Expected, NoRange, NonEmpty
  <2> QED  BY <2>2, <2>3
<1>3. \A w \in Ids \ {0} : ~Unrun(w)'
  BY <1>1 DEF Unrun, Pending
<1>4. Unrun(0)'
  BY DEF Unrun
<1> QED  BY <1>2, <1>3, <1>4 DEF HitsInv

\* Publishing leaves every chunk to be run: no worker has seen the new ticket.
LEMMA PublishHits ==
  ASSUME PoolInv, NEW rs \in Seq(Interval), Publish(rs)
  PROVE  HitsInv'
<1> USE DEF Publish, EnterCall
<1>1. Pending = {}
  BY DEF PoolInv, TicketInv, Published
<1>2. \A w \in workers : observed[w] # generation + 1
  BY <1>1 DEF Pending, PoolInv, TypeOK
<1>3. PICK k \in 0 .. (worker_count - 1) : workers = 1 .. k /\ k = worker_count - 1
  BY DEF PoolInv, ThreadsInv
<1>4. ASSUME NEW w \in Ids, ~Unrun(w)'
      PROVE  Expected(w)' = 0
  <2>1. w # 0 /\ w \notin workers
    BY <1>2, <1>4 DEF Unrun
  <2>2. ~(w < worker_count)
    BY <1>3, <2>1, MaxWorkersAssumption DEF Ids, PoolInv, TypeOK
  <2> QED  BY <2>2 DEF Expected
<1> QED  BY <1>4 DEF HitsInv

\* What chunk w should be run is fixed by the call and the pool.
LEMMA ExpectedFrame ==
  ASSUME UNCHANGED <<worker_count, arg>>, NEW w
  PROVE  Expected(w)' = Expected(w)
BY DEF Expected, RangeOf

LEMMA ExpectedType ==
  ASSUME NEW w
  PROVE  Expected(w) \in {0, 1}
BY DEF Expected

\* A step inside a call that runs nothing.
LEMMA IdleHits ==
  ASSUME HitsInv, owner \in InCall, owner' # "single",
         UNCHANGED <<worker_count, arg, hits>>,
         \A w \in Ids : Unrun(w)' = Unrun(w)
  PROVE  HitsInv'
<1>1. \A w \in Ids : Expected(w)' = Expected(w)
  BY ExpectedFrame
<1> QED  BY <1>1 DEF HitsInv

\* A step that runs chunk v of a call, for the first and only time.
LEMMA RunHits ==
  ASSUME PoolInv, HitsInv, owner \in InCall, owner' \in InCall \ {"single"},
         UNCHANGED <<worker_count, arg>>,
         NEW v \in Ids, v < worker_count, Run(v, RangeOf(arg, v)),
         Unrun(v), ~Unrun(v)', \A w \in Ids \ {v} : Unrun(w)' = Unrun(w)
  PROVE  HitsInv'
<1>1. \A w \in Ids : Expected(w)' = Expected(w)
  BY ExpectedFrame
<1>2. hits[v] = 0 /\ hits'[v] = Expected(v)
  BY DEF HitsInv, Run, Expected, PoolInv, TypeOK
<1>3. \A w \in Ids \ {v} : hits'[w] = hits[w]
  BY DEF Run, PoolInv, TypeOK
<1> QED  BY <1>1, <1>2, <1>3 DEF HitsInv

LEMMA RunInlineHits ==
  ASSUME PoolInv, HitsInv, RunInline
  PROVE  HitsInv'
<1> USE DEF RunInline, impl, local
<1>1. 0 \in Ids /\ 0 < worker_count
  BY MaxWorkersAssumption DEF Ids, PoolInv, TypeOK
<1>2. Unrun(0) /\ ~Unrun(0)' /\ \A w \in Ids \ {0} : Unrun(w)' = Unrun(w)
  BY DEF Unrun
<1> QED  BY <1>1, <1>2, RunHits DEF InCall

LEMMA WorkerRunHits ==
  ASSUME PoolInv, HitsInv, NEW w \in Ids, WorkerRun(w)
  PROVE  HitsInv'
<1> USE DEF WorkerRun, impl
<1>1. w \in workers /\ w \in Busy /\ w # 0 /\ w < worker_count
  BY DEF PoolInv, TypeOK, ThreadsInv, Busy
<1>2. owner \in InCall \ {"single"}
  BY <1>1 DEF PoolInv, TicketInv, Published, Pending, Busy, InCall
<1>3. Run(w, RangeOf(arg, w))
  <2>1. task[w].range = RangeOf(arg, w)
    BY <1>1, SnapshotRange
  <2> QED  BY <2>1 DEF Run
<1>4. Unrun(w) /\ ~Unrun(w)' /\ \A v \in Ids \ {w} : Unrun(v)' = Unrun(v)
  BY <1>1 DEF Unrun, PoolInv, TypeOK, TicketInv
<1> QED  BY <1>1, <1>2, <1>3, <1>4, RunHits

\* A worker that runs nothing leaves the same chunks to be run: one that takes
\* a ticket has yet to run it, one that reports has done so.
LEMMA WorkerIdleHits ==
  ASSUME PoolInv, HitsInv, NEW w \in Ids,
         \/ WorkerExit(w) \/ WorkerTake(w) \/ WorkerBlock(w) \/ WorkerReport(w)
         \/ SpuriousWorkerWakeup(w)
  PROVE  HitsInv'
<1>1. UNCHANGED <<worker_count, workers, arg, hits, generation>>
  BY DEF WorkerExit, WorkerTake, WorkerBlock, WorkerReport, SpuriousWorkerWakeup, impl
<1>2. CASE owner \notin InCall
  <2>1. owner' = owner \/ (owner = "blocked" /\ owner' = "await")
    BY DEF WorkerExit, WorkerTake, WorkerBlock, WorkerReport, SpuriousWorkerWakeup
  <2> QED  BY <1>2, <2>1, NoCallHits DEF InCall
<1>3. CASE owner \in InCall
  <2>1. \A v \in Ids : Unrun(v)' = Unrun(v)
    <3> SUFFICES ASSUME NEW v \in Ids PROVE Unrun(v)' = Unrun(v)
      OBVIOUS
    <3>1. CASE WorkerExit(w) \/ WorkerBlock(w) \/ SpuriousWorkerWakeup(w)
      BY <3>1 DEF WorkerExit, WorkerBlock, SpuriousWorkerWakeup, impl, Unrun, PoolInv, TypeOK
    <3>2. CASE WorkerTake(w)
      BY <3>2 DEF WorkerTake, impl, Unrun, PoolInv, TypeOK
    <3>3. CASE WorkerReport(w)
      <4>1. owner = "single" <=> owner' = "single"
        BY <3>3 DEF WorkerReport
      <4>2. owner = "inline" <=> owner' = "inline"
        BY <3>3 DEF WorkerReport
      <4> QED  BY <3>3, <4>1, <4>2 DEF WorkerReport, Unrun, PoolInv, TypeOK
    <3> QED  BY <3>1, <3>2, <3>3
  <2>2. CASE owner' = "single"
    <3>1. owner = "single"
      BY <2>2 DEF WorkerExit, WorkerTake, WorkerBlock, WorkerReport, SpuriousWorkerWakeup
    <3>2. \A v \in Ids : Expected(v)' = Expected(v)
      BY <1>1, ExpectedFrame
    <3> QED  BY <1>1, <1>3, <2>1, <3>1, <3>2 DEF HitsInv
  <2>3. CASE owner' # "single"
    BY <1>1, <1>3, <2>1, <2>3, IdleHits
  <2> QED  BY <2>2, <2>3
<1> QED  BY <1>2, <1>3

\* The owner going to sleep or waking up.
LEMMA OwnerWaitHits ==
  ASSUME PoolInv, HitsInv, AwaitDone \/ SpuriousOwnerWakeup
  PROVE  HitsInv'
<1> USE DEF AwaitDone, SpuriousOwnerWakeup, impl, local
<1>1. \A w \in Ids : Unrun(w)' = Unrun(w)
  BY DEF Unrun
<1> QED  BY <1>1, IdleHits DEF InCall

-----------------------------------------------------------------------------
(* Each step of the pool is a step of the fork-join contract or changes    *)
(* nothing the contract speaks of.                                         *)

\* A step that enters or leaves no call and runs no chunk.
LEMMA ContractStutter ==
  ASSUME UNCHANGED <<worker_count, arg, hits>>, owner \in InCall <=> owner' \in InCall
  PROVE  UNCHANGED Contract!vars
<1>1. \A w \in Ids : Expected(w)' = Expected(w)
  BY ExpectedFrame
<1> QED  BY <1>1 DEF Contract!vars, ToDo, Done

\* Between calls the pool may be rebuilt: what has been done stays done.
LEMMA ContractOutside ==
  ASSUME UNCHANGED hits, owner \notin InCall, owner' \notin InCall
  PROVE  UNCHANGED Contract!vars
BY DEF Contract!vars, ToDo, Done

LEMMA ContractFork ==
  ASSUME owner = "idle", owner' \in InCall, hits' = [w \in Ids |-> 0]
  PROVE  Contract!Next
<1>1. ToDo' \in SUBSET Ids /\ Done' = {}
  BY DEF ToDo, Done
<1>2. Contract!Fork(ToDo')
  BY <1>1 DEF Contract!Fork, InCall
<1> QED  BY <1>1, <1>2 DEF Contract!Next

\* Running chunk v inside a call executes it, or is invisible when it is empty.
LEMMA ContractExecute ==
  ASSUME PoolInv, HitsInv, owner \in InCall, owner' \in InCall,
         UNCHANGED <<worker_count, arg>>,
         NEW v \in Ids, v < worker_count, Unrun(v), Run(v, RangeOf(arg, v))
  PROVE  [Contract!Next]_(Contract!vars)
<1>1. \A w \in Ids : Expected(w)' = Expected(w)
  BY ExpectedFrame
<1>2. hits[v] = 0 /\ hits'[v] = Expected(v)
  BY DEF HitsInv, Run, Expected, PoolInv, TypeOK
<1>3. \A w \in Ids \ {v} : hits'[w] = hits[w]
  BY DEF Run, PoolInv, TypeOK
<1>4. CASE Expected(v) = 1
  <2>1. v \in ToDo /\ ToDo' = ToDo \ {v}
    BY <1>1, <1>2, <1>3, <1>4 DEF ToDo
  <2>2. Done' = Done \cup {v}
    BY <1>2, <1>3, <1>4 DEF Done
  <2>3. Contract!Execute(v) /\ UNCHANGED (owner \in InCall)
    BY <2>1, <2>2 DEF Contract!Execute
  <2> QED  BY <2>3 DEF Contract!Next
<1>5. CASE Expected(v) = 0
  <2>1. ToDo' = ToDo /\ Done' = Done
    BY <1>1, <1>2, <1>3, <1>5 DEF ToDo, Done
  <2> QED  BY <2>1 DEF Contract!vars
<1> QED  BY <1>4, <1>5, ExpectedType

\* A call without tickets ends with its only chunk.
LEMMA ContractRunSingle ==
  ASSUME PoolInv, HitsInv, RunSingle
  PROVE  Contract!Next
<1> USE DEF RunSingle, impl
<1>1. 0 \in Ids /\ 0 < worker_count /\ owner \in InCall /\ owner' \notin InCall
  BY MaxWorkersAssumption DEF Ids, PoolInv, TypeOK, InCall
<1>2. \A w \in Ids \ {0} : hits[w] = 0 /\ Expected(w) = 0 /\ hits'[w] = 0
  <2>1. \A w \in Ids \ {0} : Expected(w) = 0 /\ hits[w] = 0
    BY <1>1 DEF HitsInv
  <2> QED  BY <2>1 DEF Run, PoolInv, TypeOK
<1>3. hits[0] = 0 /\ hits'[0] = Expected(0)
  BY <1>1 DEF HitsInv, Unrun, Run, Expected, PoolInv, TypeOK
<1>4. CASE Expected(0) = 1
  <2>1. ToDo = {0} /\ ToDo' = {} /\ Done' = Done \cup {0}
    BY <1>1, <1>2, <1>3, <1>4 DEF ToDo, Done
  <2> QED  BY <1>1, <2>1 DEF Contract!Next, Contract!Join
<1>5. CASE Expected(0) = 0
  <2>1. ToDo = {} /\ ToDo' = {} /\ Done' = Done
    BY <1>1, <1>2, <1>3, <1>5 DEF ToDo, Done
  <2> QED  BY <1>1, <2>1 DEF Contract!Next, Contract!Join
<1> QED  BY <1>4, <1>5, ExpectedType

\* When the owner finds its generation complete every chunk has run.
LEMMA AllRun ==
  ASSUME PoolInv, HitsInv, owner = "await", completed_generation = generation
  PROVE  \A w \in Ids : hits[w] = Expected(w)
<1>1. Pending = {}
  BY DEF PoolInv, TicketInv
<1>2. \A w \in Ids : ~Unrun(w)
  BY <1>1 DEF Unrun, Pending
<1> QED  BY <1>2 DEF HitsInv, InCall

LEMMA ContractAwaitDone ==
  ASSUME PoolInv, HitsInv, AwaitDone
  PROVE  [Contract!Next]_(Contract!vars)
<1> USE DEF AwaitDone, impl
<1>1. CASE completed_generation = generation
  <2>1. \A w \in Ids : hits[w] = Expected(w)
    BY <1>1, AllRun
  <2>2. ToDo = {} /\ ToDo' = {} /\ Done' = Done
    BY <1>1, <2>1, ExpectedType DEF ToDo, Done, InCall
  <2> QED  BY <1>1, <2>2 DEF Contract!Next, Contract!Join, InCall
<1>2. CASE completed_generation # generation
  BY <1>2, ContractStutter DEF InCall
<1> QED  BY <1>1, <1>2

-----------------------------------------------------------------------------
(* One step of the pool.                                                   *)

\* Everything but the start of a call.
OwnStep ==
  \/ \E n \in 0 .. MaxWorkers : CallInit(n)
  \/ Destroy
  \/ OwnerStep
  \/ SpawnFails
  \/ SpuriousOwnerWakeup
  \/ \E w \in Ids : WorkerStep(w) \/ SpuriousWorkerWakeup(w)
  \/ Ended

\* The start of a call with span rs.
CallStep(rs) == CallSingle(rs) \/ Publish(rs)

LEMMA StutterInv == IInv /\ UNCHANGED vars => IInv'
<1> SUFFICES ASSUME IInv, UNCHANGED vars PROVE IInv'
  OBVIOUS
<1>1. PoolInv'
  BY DEF vars, impl, local, bounds, IInv, PoolInv, TypeOK, ThreadsInv, StopInv, TicketInv,
         PublishedInv, Published, NoLostWakeup, SnapshotIsTheCurrentCall, Pending, Busy
<1>2. HitsInv'
  BY DEF vars, impl, local, IInv, HitsInv, Unrun, Expected
<1> QED  BY <1>1, <1>2 DEF IInv

LEMMA CallStepInv ==
  ASSUME IInv, NEW rs \in Seq(Interval), CallStep(rs)
  PROVE  IInv'
BY CallSingleInv, PublishInv, CallSingleHits, PublishHits DEF CallStep, IInv

LEMMA OwnStepInv ==
  ASSUME IInv, OwnStep
  PROVE  IInv'
<1> USE DEF IInv
<1>1. ASSUME NEW n \in 0 .. MaxWorkers, CallInit(n) PROVE IInv'
  <2>1. owner' \notin InCall
    BY <1>1 DEF CallInit, InCall
  <2> QED  BY <1>1, <2>1, CallInitInv, NoCallHits
<1>2. CASE Destroy
  <2>1. owner' \notin InCall
    BY <1>2 DEF Destroy, InCall
  <2> QED  BY <1>2, <2>1, DestroyInv, NoCallHits
<1>3. CASE Rebuild \/ Spawn \/ Joined \/ RunSingle
  <2>1. owner' \notin InCall
    BY <1>3 DEF Rebuild, Spawn, Joined, RunSingle, InCall
  <2> QED  BY <1>3, <2>1, RebuildInv, SpawnInv, JoinedInv, RunSingleInv, NoCallHits
<1>4. CASE RunInline
  BY <1>4, RunInlineInv, RunInlineHits
<1>5. CASE SpawnFails
  <2>1. owner' \notin InCall
    BY <1>5 DEF SpawnFails, InCall
  <2> QED  BY <1>5, <2>1, SpawnFailsInv, NoCallHits
<1>6. CASE AwaitDone \/ SpuriousOwnerWakeup
  BY <1>6, AwaitDoneInv, SpuriousOwnerWakeupInv, OwnerWaitHits
<1>7. ASSUME NEW w \in Ids, WorkerStep(w) \/ SpuriousWorkerWakeup(w) PROVE IInv'
  BY <1>7, WorkerExitInv, WorkerTakeInv, WorkerBlockInv, WorkerRunInv, WorkerReportInv,
     SpuriousWorkerWakeupInv, WorkerRunHits, WorkerIdleHits DEF WorkerStep
<1>8. CASE Ended
  BY <1>8, StutterInv DEF Ended
<1> QED  BY <1>1, <1>2, <1>3, <1>4, <1>5, <1>6, <1>7, <1>8 DEF OwnStep, OwnerStep

LEMMA NextSplit == Next <=> (\E rs \in RangeLists : CallStep(rs)) \/ OwnStep
BY DEF Next, OwnStep, CallStep

LEMMA NextInv == IInv /\ [Next]_vars => IInv'
BY NextSplit, RangeListsAssumption, CallStepInv, OwnStepInv, StutterInv

\* A call that returns has run every chunk as often as it should.
LEMMA ReturnHits ==
  ASSUME IInv, OwnStep, owner \in InCall, owner' = "idle"
  PROVE  /\ \A w \in Ids : hits'[w] = Expected(w)
         /\ UNCHANGED <<worker_count, arg>>
<1> USE DEF IInv
<1>1. RunSingle \/ AwaitDone
  <2>1. ~Destroy /\ ~SpawnFails /\ ~SpuriousOwnerWakeup /\ ~Ended
    BY DEF Destroy, SpawnFails, SpuriousOwnerWakeup, Ended, vars
  <2>2. ~\E n \in 0 .. MaxWorkers : CallInit(n)
    BY DEF CallInit
  <2>3. ~Rebuild /\ ~Spawn /\ ~Joined /\ ~RunInline
    BY DEF Rebuild, Spawn, Joined, RunInline, InCall
  <2>4. ASSUME NEW w \in Ids, WorkerStep(w) \/ SpuriousWorkerWakeup(w) PROVE FALSE
    <3>1. owner' = owner \/ owner' = "await"
      BY <2>4 DEF WorkerStep, WorkerExit, WorkerTake, WorkerBlock, WorkerRun, WorkerReport,
                  SpuriousWorkerWakeup
    <3> QED  BY <3>1 DEF InCall
  <2> QED  BY <2>1, <2>2, <2>3, <2>4 DEF OwnStep, OwnerStep
<1>2. CASE RunSingle
  <2>1. 0 \in Ids /\ 0 < worker_count
    BY MaxWorkersAssumption DEF Ids, PoolInv, TypeOK
  <2>2. owner \in InCall /\ Unrun(0) /\ Run(0, RangeOf(arg, 0))
    BY <1>2 DEF RunSingle, InCall, Unrun
  <2>3. hits[0] = 0 /\ hits'[0] = Expected(0)
    BY <2>1, <2>2 DEF HitsInv, Run, Expected, PoolInv, TypeOK
  <2>4. \A w \in Ids \ {0} : Expected(w) = 0 /\ hits[w] = 0
    BY <1>2, <2>2 DEF RunSingle, HitsInv
  <2>5. \A w \in Ids \ {0} : hits'[w] = hits[w]
    BY <2>2 DEF Run, PoolInv, TypeOK
  <2> QED  BY <1>2, <2>3, <2>4, <2>5 DEF RunSingle, impl
<1>3. CASE AwaitDone
  <2>1. completed_generation = generation /\ owner = "await"
    BY <1>3 DEF AwaitDone
  <2>2. UNCHANGED <<worker_count, arg, hits>>
    BY <1>3 DEF AwaitDone, impl
  <2> QED  BY <2>1, <2>2, AllRun
<1> QED  BY <1>1, <1>2, <1>3

\* The step of the contract each step of the pool stands for.
LEMMA CallStepContract ==
  ASSUME IInv, NEW rs \in Seq(Interval), CallStep(rs)
  PROVE  Contract!Next
BY ContractFork DEF CallStep, CallSingle, Publish, EnterCall, InCall

LEMMA OwnStepContract ==
  ASSUME IInv, OwnStep
  PROVE  [Contract!Next]_(Contract!vars)
<1> USE DEF IInv
<1>1. ASSUME NEW n \in 0 .. MaxWorkers, CallInit(n) PROVE UNCHANGED Contract!vars
  BY <1>1, ContractOutside DEF CallInit, RequestStop, InCall
<1>2. CASE Destroy
  BY <1>2, ContractOutside DEF Destroy, RequestStop, InCall
<1>3. CASE Rebuild \/ Spawn \/ Joined \/ SpawnFails
  BY <1>3, ContractOutside DEF Rebuild, Spawn, Joined, SpawnFails, InCall
<1>4. CASE RunSingle
  BY <1>4, ContractRunSingle
<1>5. CASE RunInline
  <2>1. 0 \in Ids /\ 0 < worker_count
    BY MaxWorkersAssumption DEF Ids, PoolInv, TypeOK
  <2> QED  BY <1>5, <2>1, ContractExecute DEF RunInline, impl, InCall, Unrun
<1>6. CASE AwaitDone
  BY <1>6, ContractAwaitDone
<1>7. CASE SpuriousOwnerWakeup
  BY <1>7, ContractStutter DEF SpuriousOwnerWakeup, impl, InCall
<1>8. ASSUME NEW w \in Ids, WorkerRun(w) PROVE [Contract!Next]_(Contract!vars)
  <2>1. w \in workers /\ w \in Busy /\ w # 0 /\ w < worker_count
    BY <1>8 DEF WorkerRun, PoolInv, TypeOK, ThreadsInv, Busy
  <2>2. owner \in InCall /\ owner' \in InCall
    BY <1>8, <2>1 DEF WorkerRun, PoolInv, TicketInv, Published, Pending, Busy, InCall
  <2>3. Unrun(w) /\ UNCHANGED <<worker_count, arg>>
    BY <1>8, <2>1 DEF WorkerRun, impl, Unrun
  <2>4. task[w].range = RangeOf(arg, w)
    BY <2>1, SnapshotRange
  <2>5. Run(w, RangeOf(arg, w))
    BY <1>8, <2>4 DEF WorkerRun, Run
  <2> QED  BY <2>1, <2>2, <2>3, <2>5, ContractExecute
<1>9. ASSUME NEW w \in Ids,
             \/ WorkerExit(w) \/ WorkerTake(w) \/ WorkerBlock(w) \/ WorkerReport(w)
             \/ SpuriousWorkerWakeup(w)
      PROVE  UNCHANGED Contract!vars
  <2>1. UNCHANGED <<worker_count, arg, hits>>
    BY <1>9 DEF WorkerExit, WorkerTake, WorkerBlock, WorkerReport, SpuriousWorkerWakeup, impl
  <2>2. owner' = owner \/ (owner = "blocked" /\ owner' = "await")
    BY <1>9 DEF WorkerExit, WorkerTake, WorkerBlock, WorkerReport, SpuriousWorkerWakeup
  <2> QED  BY <2>1, <2>2, ContractStutter DEF InCall
<1>10. CASE Ended
  BY <1>10, ContractStutter DEF Ended, vars, impl
<1> QED  BY <1>1, <1>2, <1>3, <1>4, <1>5, <1>6, <1>7, <1>8, <1>9, <1>10
         DEF OwnStep, OwnerStep, WorkerStep

-----------------------------------------------------------------------------
(* The theorems.                                                           *)

\* Every reachable state of the pool satisfies the inductive invariant.
THEOREM Invariance == Spec => []IInv
<1> QED  BY InitInv, NextInv, PTL DEF Spec

\* Type correctness of the pool (thread_pool.cpp:9-22).
THEOREM TypeCorrectness == Spec => []TypeOK
<1>1. IInv => TypeOK
  BY DEF IInv, PoolInv
<1> QED  BY <1>1, Invariance, PTL

\* parallel_for never returns while a worker is inside the callback or has its
\* report still to make, whatever the schedule (thread_pool.cpp:138-142).
THEOREM CallsAreBarriers == Spec => []NoWorkerOutlivesTheCall
<1>1. IInv => NoWorkerOutlivesTheCall
  BY DEF IInv, PoolInv, TicketInv, Published, InCall, NoWorkerOutlivesTheCall, Pending, Busy
<1> QED  BY <1>1, Invariance, PTL

\* Workers execute the published callback with their own range of the current
\* call and nothing else (thread_pool.cpp:117-131).
THEOREM SnapshotsAreConsistent == Spec => []SnapshotIsTheCurrentCall
<1>1. IInv => SnapshotIsTheCurrentCall
  BY DEF IInv, PoolInv
<1> QED  BY <1>1, Invariance, PTL

\* No thread sleeps on a condition that already holds (thread_pool.cpp:52-56).
THEOREM WakeupsAreNotLost == Spec => []NoLostWakeup
<1>1. IInv => NoLostWakeup
  BY DEF IInv, PoolInv
<1> QED  BY <1>1, Invariance, PTL

\* Whatever the schedule, parallel_for returns only after every chunk of its
\* span that a worker exists for has been run exactly once
\* (thread_pool.cpp:106-143).
THEOREM ChunksRunExactlyOnce == Spec => EveryChunkRanOnce
<1>1. IInv /\ [Next]_vars
        => [(owner \in InCall /\ owner' = "idle") => (\A w \in Ids : hits'[w] = Expected(w))]_vars
  <2> SUFFICES ASSUME IInv, Next, owner \in InCall, owner' = "idle"
               PROVE  \A w \in Ids : hits'[w] = Expected(w)
    OBVIOUS
  <2>1. \A rs : ~CallStep(rs)
    BY DEF CallStep, CallSingle, Publish, EnterCall, InCall
  <2> QED  BY <2>1, NextSplit, ReturnHits
<1> QED  BY <1>1, Invariance, PTL DEF Spec, EveryChunkRanOnce

\* The pool, with its tickets, two condition variables, rebuilds and failed
\* inits, implements the fork-join contract a caller of parallel_for relies on
\* (thread_pool.cpp:106-143).
THEOREM PoolImplementsForkJoin == Spec => ImplementsForkJoin
<1>1. Init => Contract!Init
  <2> SUFFICES ASSUME Init PROVE Contract!Init
    OBVIOUS
  <2>1. ToDo = {} /\ Done = {} /\ owner \notin InCall
    BY DEF Init, ToDo, Done, InCall
  <2> QED  BY <2>1 DEF Contract!Init
<1>2. IInv /\ [Next]_vars => [Contract!Next]_(Contract!vars)
  <2> SUFFICES ASSUME IInv, [Next]_vars PROVE [Contract!Next]_(Contract!vars)
    OBVIOUS
  <2>1. CASE UNCHANGED vars
    BY <2>1, ContractStutter DEF vars, impl
  <2> QED  BY <2>1, NextSplit, RangeListsAssumption, CallStepContract, OwnStepContract
<1> QED  BY <1>1, <1>2, Invariance, PTL DEF Spec, ImplementsForkJoin, Contract!Spec

-----------------------------------------------------------------------------
(* The chunks of a channel.                                                *)

LEMMA DivBounds ==
  ASSUME NEW a \in Nat, NEW d \in Nat \ {0}
  PROVE  a \div d \in Nat /\ (a \div d) * d <= a /\ a < (a \div d) * d + d
BY SMT

LEMMA MultMono ==
  ASSUME NEW u \in Nat, NEW v \in Nat, NEW c \in Nat, u < v
  PROVE  u * c + c <= v * c
<1>1. PICK k \in Nat : v = u + 1 + k
  <2>1. v - u - 1 \in Nat /\ v = u + 1 + (v - u - 1)
    OBVIOUS
  <2> QED  BY <2>1
<1>2. v * c = u * c + c + k * c
  BY <1>1
<1>3. k * c \in Nat /\ u * c \in Nat
  OBVIOUS
<1> QED  BY <1>2, <1>3

\* Chunks of this length, one per worker, reach the end of the data.
LEMMA ChunkLengthBounds ==
  ASSUME NEW W \in Nat \ {0}, NEW n \in Nat
  PROVE  ChunkLength(W, n) \in Nat /\ n <= W * ChunkLength(W, n)
<1>1. n + W - 1 \in Nat
  OBVIOUS
<1>2. /\ ChunkLength(W, n) \in Nat
      /\ n + W - 1 < ChunkLength(W, n) * W + W
  BY <1>1, DivBounds DEF ChunkLength
<1>3. ChunkLength(W, n) * W = W * ChunkLength(W, n) /\ ChunkLength(W, n) * W \in Nat
  BY <1>2
<1> QED  BY <1>2, <1>3

LEMMA ChunkCountBounds ==
  ASSUME NEW p \in Nat \ {0}, NEW n \in Nat
  PROVE  chunk_count(p, n) \in 1 .. p
BY DEF chunk_count, AtMost, AtLeast

\* The span of a channel is a span of as many ranges as chunk_count says.
LEMMA ChunkRangesShape ==
  ASSUME NEW p \in Nat \ {0}, NEW n \in Nat
  PROVE  /\ ChunkRanges(p, n) \in Seq(Interval)
         /\ Len(ChunkRanges(p, n)) \in 1 .. p
         /\ \A w \in Nat : RangeOf(ChunkRanges(p, n), w) =
              IF w < Len(ChunkRanges(p, n))
              THEN ChunkRange(Len(ChunkRanges(p, n)), n, w) ELSE NoRange
<1> DEFINE W == chunk_count(p, IF n = 0 THEN 1 ELSE n)
           s == [i \in 1 .. W |-> ChunkRange(W, n, i - 1)]
<1>1. W \in 1 .. p
  BY ChunkCountBounds
<1>2. ChunkRanges(p, n) = s
  BY DEF ChunkRanges
<1> HIDE DEF W
<1>3. \A w \in Nat : ChunkRange(W, n, w) \in Interval
  <2> SUFFICES ASSUME NEW w \in Nat PROVE ChunkRange(W, n, w) \in Interval
    OBVIOUS
  <2>1. ChunkLength(W, n) \in Nat
    BY <1>1, ChunkLengthBounds
  <2>2. w * ChunkLength(W, n) \in Nat /\ w * ChunkLength(W, n) + ChunkLength(W, n) \in Nat
    BY <2>1
  <2> QED  BY <2>2 DEF ChunkRange, AtMost, Interval
<1>4. s \in Seq(Interval) /\ Len(s) = W
  BY <1>1, <1>3
<1>5. \A w \in Nat : RangeOf(s, w) = IF w < W THEN ChunkRange(W, n, w) ELSE NoRange
  BY <1>1, <1>4 DEF RangeOf
<1> QED  BY <1>1, <1>2, <1>4, <1>5

\* Chunks of different workers have no element in common.
LEMMA ChunksAreDisjoint ==
  ASSUME NEW p \in Nat \ {0}, NEW n \in Nat, NEW u \in Nat, NEW v \in Nat, u < v
  PROVE  Elements(RangeOf(ChunkRanges(p, n), u)) \cap Elements(RangeOf(ChunkRanges(p, n), v)) = {}
<1> DEFINE W == Len(ChunkRanges(p, n))
           c == ChunkLength(W, n)
<1>1. W \in 1 .. p /\ c \in Nat
  <2>1. W \in 1 .. p
    BY ChunkRangesShape
  <2> HIDE DEF W
  <2>2. W \in Nat \ {0}
    BY <2>1
  <2> QED  BY <2>1, <2>2, ChunkLengthBounds
<1>2. CASE v < W
  <2>1. /\ RangeOf(ChunkRanges(p, n), u) = <<u * c, AtMost(u * c + c, n)>>
        /\ RangeOf(ChunkRanges(p, n), v) = <<v * c, AtMost(v * c + c, n)>>
    BY <1>1, <1>2, ChunkRangesShape DEF ChunkRange
  <2> HIDE DEF W, c
  <2>2. u * c + c <= v * c /\ u * c \in Nat /\ v * c \in Nat
    BY <1>1, MultMono
  <2> QED  BY <1>1, <2>1, <2>2 DEF Elements, AtMost
<1>3. CASE ~(v < W)
  <2>1. RangeOf(ChunkRanges(p, n), v) = NoRange
    BY <1>3, ChunkRangesShape
  <2> QED  BY <2>1 DEF Elements, NoRange
<1> QED  BY <1>2, <1>3

\* No chunk reaches past the data.
LEMMA ChunksAreInside ==
  ASSUME NEW p \in Nat \ {0}, NEW n \in Nat, NEW w \in Nat
  PROVE  Elements(RangeOf(ChunkRanges(p, n), w)) \subseteq 0 .. (n - 1)
<1> DEFINE W == Len(ChunkRanges(p, n))
           c == ChunkLength(W, n)
<1>1. W \in 1 .. p /\ c \in Nat
  <2>1. W \in 1 .. p
    BY ChunkRangesShape
  <2> HIDE DEF W
  <2>2. W \in Nat \ {0}
    BY <2>1
  <2> QED  BY <2>1, <2>2, ChunkLengthBounds
<1>2. CASE w < W
  <2>1. RangeOf(ChunkRanges(p, n), w) = <<w * c, AtMost(w * c + c, n)>>
    BY <1>1, <1>2, ChunkRangesShape DEF ChunkRange
  <2> HIDE DEF W, c
  <2>2. w * c \in Nat
    BY <1>1
  <2> QED  BY <1>1, <2>1, <2>2 DEF Elements, AtMost
<1>3. CASE ~(w < W)
  <2>1. RangeOf(ChunkRanges(p, n), w) = NoRange
    BY <1>3, ChunkRangesShape
  <2> QED  BY <2>1 DEF Elements, NoRange
<1> QED  BY <1>2, <1>3

\* Every element is in the chunk of some worker of the pool.
LEMMA ChunksCover ==
  ASSUME NEW p \in Nat \ {0}, NEW n \in Nat, NEW e \in 0 .. (n - 1)
  PROVE  \E w \in 0 .. (p - 1) : e \in Elements(RangeOf(ChunkRanges(p, n), w))
<1> DEFINE W == Len(ChunkRanges(p, n))
           c == ChunkLength(W, n)
           w == e \div c
<1>1. W \in 1 .. p /\ c \in Nat /\ n <= W * c
  <2>1. W \in 1 .. p
    BY ChunkRangesShape
  <2> HIDE DEF W
  <2>2. W \in Nat \ {0}
    BY <2>1
  <2> QED  BY <2>1, <2>2, ChunkLengthBounds
<1> HIDE DEF W, c
<1>2. c # 0
  BY <1>1
<1>3. w \in Nat /\ w * c <= e /\ e < w * c + c
  BY <1>1, <1>2, DivBounds
<1> HIDE DEF w
<1>4. w < W
  <2> SUFFICES ASSUME W <= w PROVE FALSE
    BY <1>1, <1>3
  <2>1. CASE W = w
    BY <1>1, <1>3, <2>1
  <2>2. CASE W < w
    <3>1. W * c + c <= w * c
      BY <1>1, <1>3, <2>2, MultMono
    <3> QED  BY <1>1, <1>3, <3>1
  <2> QED  BY <1>1, <1>3, <2>1, <2>2
<1>5. RangeOf(ChunkRanges(p, n), w) = <<w * c, AtMost(w * c + c, n)>>
  BY <1>3, <1>4, ChunkRangesShape DEF ChunkRange, W, c
<1>6. w * c \in Nat
  BY <1>1, <1>3
<1>7. e \in Elements(RangeOf(ChunkRanges(p, n), w))
  BY <1>1, <1>3, <1>5, <1>6 DEF Elements, AtMost
<1>8. w \in 0 .. (p - 1)
  BY <1>1, <1>3, <1>4
<1> QED  BY <1>7, <1>8

-----------------------------------------------------------------------------
(* The dispatch of a channel on the pool.                                  *)

LEMMA DispatchStepInv ==
  ASSUME DispatchInv, NEW n \in 0 .. MaxRe, Dispatch(n)
  PROVE  DispatchInv'
<1>1. n \in Nat /\ worker_count \in Nat \ {0}
  BY MaxReAssumption DEF DispatchInv, IInv, PoolInv, TypeOK
<1> DEFINE spans == ChunkRanges(worker_count, n)
<1>2. spans \in Seq(Interval) /\ CallStep(spans) /\ n_re' = n
  BY <1>1, ChunkRangesShape DEF Dispatch, CallStep
<1>3. IInv'
  BY <1>2, CallStepInv DEF DispatchInv
<1>4. arg' = spans /\ worker_count' = worker_count
  BY <1>2 DEF CallStep, CallSingle, Publish, EnterCall, impl
<1> QED  BY <1>1, <1>2, <1>3, <1>4 DEF DispatchInv

\* No step of the pool changes the span or the size of the pool inside a call.
LEMMA OwnStepFrame ==
  ASSUME OwnStep, owner' \in InCall
  PROVE  owner \in InCall /\ UNCHANGED <<worker_count, arg>>
<1>1. ~\E n \in 0 .. MaxWorkers : CallInit(n)
  BY DEF CallInit, InCall
<1>2. ~Destroy /\ ~Rebuild /\ ~Spawn /\ ~Joined /\ ~RunSingle /\ ~SpawnFails
  BY DEF Destroy, Rebuild, Spawn, Joined, RunSingle, SpawnFails, InCall
<1>3. CASE RunInline \/ AwaitDone \/ SpuriousOwnerWakeup \/ Ended
  BY <1>3 DEF RunInline, AwaitDone, SpuriousOwnerWakeup, Ended, vars, impl, InCall
<1>4. ASSUME NEW w \in Ids, WorkerStep(w) \/ SpuriousWorkerWakeup(w)
      PROVE  owner \in InCall /\ UNCHANGED <<worker_count, arg>>
  <2>1. UNCHANGED <<worker_count, arg>>
    BY <1>4 DEF WorkerStep, WorkerExit, WorkerTake, WorkerBlock, WorkerRun, WorkerReport,
                SpuriousWorkerWakeup, impl
  <2>2. owner' = owner \/ owner = "blocked"
    BY <1>4 DEF WorkerStep, WorkerExit, WorkerTake, WorkerBlock, WorkerRun, WorkerReport,
                SpuriousWorkerWakeup
  <2> QED  BY <2>1, <2>2 DEF InCall
<1> QED  BY <1>1, <1>2, <1>3, <1>4 DEF OwnStep, OwnerStep

LEMMA PoolStepIsOwnStep == PoolStep <=> OwnStep /\ UNCHANGED n_re
BY DEF PoolStep, OwnStep

LEMMA DispatchNextInv == DispatchInv /\ [DispatchNext]_dispatchVars => DispatchInv'
<1> SUFFICES ASSUME DispatchInv, [DispatchNext]_dispatchVars PROVE DispatchInv'
  OBVIOUS
<1>1. ASSUME NEW n \in 0 .. MaxRe, Dispatch(n) PROVE DispatchInv'
  BY <1>1, DispatchStepInv
<1>2. CASE PoolStep
  <2>1. OwnStep /\ n_re' = n_re
    BY <1>2, PoolStepIsOwnStep
  <2>2. IInv'
    BY <2>1, OwnStepInv DEF DispatchInv
  <2> QED  BY <2>1, <2>2, OwnStepFrame DEF DispatchInv
<1>3. CASE UNCHANGED dispatchVars
  <2>1. UNCHANGED vars /\ n_re' = n_re
    BY <1>3 DEF dispatchVars
  <2>2. UNCHANGED <<worker_count, arg, owner>>
    BY <2>1 DEF vars, impl
  <2>3. IInv'
    BY <2>1, StutterInv DEF DispatchInv
  <2> QED  BY <2>1, <2>2, <2>3 DEF DispatchInv
<1> QED  BY <1>1, <1>2, <1>3 DEF DispatchNext

\* During a call the pool works on the chunks of the current channel.
THEOREM DispatchInvariance == DispatchSpec => []DispatchInv
<1>1. DispatchInit => DispatchInv
  BY InitInv DEF DispatchInit, DispatchInv, Init, InCall
<1> QED  BY <1>1, DispatchNextInv, PTL DEF DispatchSpec

\* At no time do two threads of the context write the same element of x_hat or
\* sinr (mmse_equalizer_cpu.cpp, run_channel_from_prepared_estimate).
THEOREM NoDataRaceOnTheOutput == DispatchSpec => []WorkersWriteDisjointElements
<1>1. DispatchInv => WorkersWriteDisjointElements
  <2> SUFFICES ASSUME DispatchInv,
                      NEW v \in {w \in Busy : pc[w] = "run"}
                                  \cup (IF owner = "inline" THEN {0} ELSE {}),
                      NEW w \in {u \in Busy : pc[u] = "run"}
                                  \cup (IF owner = "inline" THEN {0} ELSE {}),
                      v # w
               PROVE  Elements(RangeOf(arg, v)) \cap Elements(RangeOf(arg, w)) = {}
    BY DEF WorkersWriteDisjointElements
  <2>1. v \in Nat /\ w \in Nat
    BY DEF Busy, DispatchInv, IInv, PoolInv, TypeOK, Ids
  <2>2. Busy # {} \/ owner = "inline"
    OBVIOUS
  <2>3. owner \in InCall
    BY <2>2 DEF DispatchInv, IInv, PoolInv, TicketInv, Published, Pending, Busy, InCall
  <2>4. arg = ChunkRanges(worker_count, n_re) /\ n_re \in Nat /\ worker_count \in Nat \ {0}
    BY <2>3 DEF DispatchInv, IInv, PoolInv, TypeOK
  <2>5. v < w \/ w < v
    BY <2>1
  <2> QED  BY <2>1, <2>4, <2>5, ChunksAreDisjoint
<1> QED  BY <1>1, DispatchInvariance, PTL

\* When a call has run its chunks, every element was equalised exactly once.
LEMMA ChunksRunCoverOnce ==
  ASSUME PoolInv, n_re \in Nat, arg = ChunkRanges(worker_count, n_re),
         \A w \in Ids : hits[w] = Expected(w)
  PROVE  CoveredOnce
<1>1. worker_count \in 1 .. MaxWorkers /\ worker_count \in Nat \ {0} /\ MaxWorkers \in Nat
  BY MaxWorkersAssumption DEF PoolInv, TypeOK
<1>2. \A w \in Ids : w \in Nat /\ w + 1 \in Nat
  BY DEF Ids
<1>3. ASSUME NEW w \in Ids, hits[w] > 0
      PROVE  Elements(RangeOf(arg, w)) \subseteq 0 .. (n_re - 1)
  BY <1>1, <1>2, ChunksAreInside
<1>4. ASSUME NEW e \in 0 .. (n_re - 1)
      PROVE  TimesEqualised(e) = 1
  <2>1. PICK v \in 0 .. (worker_count - 1) : e \in Elements(RangeOf(arg, v))
    BY <1>1, ChunksCover
  <2>2. v \in Ids /\ v < worker_count
    BY <1>1, <2>1 DEF Ids
  <2>3. RangeOf(arg, v) \in Interval
    BY <2>2, RangeOfType DEF PoolInv, TypeOK
  <2>4. NonEmpty(RangeOf(arg, v))
    BY <2>1, <2>3 DEF Elements, NonEmpty, Interval
  <2>5. hits[v] > 0
    BY <2>2, <2>4 DEF Expected
  <2>6. \A w \in Ids : e \in Elements(RangeOf(arg, w)) => w = v
    <3> SUFFICES ASSUME NEW w \in Ids, e \in Elements(RangeOf(arg, w)), w # v PROVE FALSE
      OBVIOUS
    <3>1. w < v \/ v < w
      BY <1>2, <2>2
    <3> QED  BY <1>1, <1>2, <2>1, <2>2, <3>1, ChunksAreDisjoint
  <2>7. {w \in Ids : hits[w] > 0 /\ e \in Elements(RangeOf(arg, w))} = {v}
    BY <2>1, <2>2, <2>5, <2>6
  <2> QED  BY <2>7, FS_Singleton DEF TimesEqualised
<1> QED  BY <1>3, <1>4 DEF CoveredOnce

\* When the call for a channel returns, each of its elements was equalised by
\* exactly one worker and none beyond them, for every pool and every channel
\* size, fewer elements than workers included.
THEOREM ElementsAreEqualisedOnce == DispatchSpec => EveryReEqualisedOnce
<1>1. DispatchInv /\ [DispatchNext]_dispatchVars => DispatchInv'
  BY DispatchNextInv
<1>2. DispatchInv /\ [DispatchNext]_dispatchVars
        => [(owner \in InCall /\ owner' = "idle") => CoveredOnce']_dispatchVars
  <2> SUFFICES ASSUME DispatchInv, DispatchNext, owner \in InCall, owner' = "idle"
               PROVE  CoveredOnce'
    OBVIOUS
  <2>1. ~\E n \in 0 .. MaxRe : Dispatch(n)
    BY DEF Dispatch, CallSingle, Publish, EnterCall, InCall
  <2>2. OwnStep /\ n_re' = n_re
    BY <2>1, PoolStepIsOwnStep DEF DispatchNext
  <2>3. (\A w \in Ids : hits'[w] = Expected(w)) /\ UNCHANGED <<worker_count, arg>>
    BY <2>2, ReturnHits DEF DispatchInv
  <2>4. \A w \in Ids : hits'[w] = Expected(w)'
    BY <2>3, ExpectedFrame
  <2>5. PoolInv' /\ (n_re \in Nat)'
    BY <1>1 DEF DispatchInv, IInv
  <2>6. (arg = ChunkRanges(worker_count, n_re))'
    BY <2>2, <2>3 DEF DispatchInv
  <2>7. PoolInv' /\ (n_re \in Nat)' /\ (arg = ChunkRanges(worker_count, n_re))'
          /\ (\A w \in Ids : hits[w] = Expected(w))' => CoveredOnce'
    BY ChunksRunCoverOnce, PTL
  <2> QED  BY <2>4, <2>5, <2>6, <2>7
<1> QED  BY <1>2, DispatchInvariance, PTL DEF DispatchSpec, EveryReEqualisedOnce

=============================================================================
