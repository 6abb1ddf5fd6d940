------------------------- MODULE GeometrySearchProofs -------------------------
(***************************************************************************)
(* Proofs about GeometrySearch, for any set of cells and of signals: what  *)
(* the searches keep, whatever the layouts are, and then what the layouts  *)
(* are, for every cell id, LTE bandwidth and geometry.                     *)
(***************************************************************************)
EXTENDS GeometrySearch, Induction, FiniteSetTheorems, TLAPS

CacheRecords ==
  [locked : BOOLEAN, cell : Cells \cup {NoCell},
   geometry : AnyGeometry \cup {NoGeometry}, consecutive_miss_count : 0 .. MissLimit]

\* A lock is the one the last full search made: everything else either keeps
\* cell and geometry or clears the cache.
LockInv == cache.locked => acquired = [cell |-> cache.cell, geometry |-> cache.geometry]

IInv == cache \in CacheRecords /\ LockInv /\ LockedWhereAcquired

-----------------------------------------------------------------------------
LEMMA InitEstablishes == Init => IInv
BY DEF Init, IInv, CacheRecords, NoCache, NoResult, LockInv, LockedWhereAcquired, MissLimit

\* A try of the cached geometry counts the miss, below the limit, and reports
\* the geometry for the cell it was found for.
LEMMA TryLockedPreserves ==
  ASSUME IInv, NEW c \in Cells, NEW rx, TryLocked(c, rx)
  PROVE  IInv'
<1> DEFINE hit == cache.geometry \in Hits(c, rx)
<1>1. /\ cache.locked /\ cache.cell = c /\ cache.consecutive_miss_count < MissLimit
      /\ cache' = [cache EXCEPT !.consecutive_miss_count = MissesAfter(hit)]
      /\ result'.geometry = cache.geometry
      /\ stable'.cell = c
      /\ acquired' = acquired
  BY DEF TryLocked, TriesLocked, cache_matches, Heard
<1>2. cache \in CacheRecords
  BY DEF IInv
<1>3. MissesAfter(hit) \in 0 .. MissLimit
  BY <1>1, <1>2 DEF MissesAfter, CacheRecords, MissLimit
<1>4. cache' \in CacheRecords /\ cache'.cell = c /\ cache'.geometry = cache.geometry
  BY <1>1, <1>2, <1>3 DEF CacheRecords
<1>5. acquired = [cell |-> c, geometry |-> cache.geometry]
  BY <1>1 DEF IInv, LockInv
<1>6. LockInv'
  BY <1>1, <1>4, <1>5 DEF LockInv
<1>7. LockedWhereAcquired'
  BY <1>1, <1>5 DEF LockedWhereAcquired
<1> QED
  BY <1>4, <1>6, <1>7 DEF IInv

\* A full search that locks records what it locked.
LEMMA AcquirePreserves ==
  ASSUME NEW c \in Cells, NEW rx, Acquire(c, rx)
  PROVE  IInv'
<1>1. PICK g \in Hits(c, rx) :
        /\ update_cache(c, g)
        /\ result'.status = "kAcquired"
        /\ acquired' = [cell |-> c, geometry |-> g]
  BY DEF Acquire
<1>2. g \in AnyGeometry
  BY DEF AnyGeometry, Hits
<1>3. cache' \in CacheRecords
  BY <1>1, <1>2 DEF update_cache, CacheRecords, MissLimit
<1> QED
  BY <1>1, <1>3 DEF IInv, LockInv, LockedWhereAcquired, update_cache

\* A call that reports nothing keeps the lock or clears it.
LEMMA OthersPreserve ==
  ASSUME IInv, acquired' = acquired, cache' \in {cache, NoCache}, result'.status # "kLocked"
  PROVE  IInv'
<1>1. cache \in CacheRecords /\ NoCache \in CacheRecords
  BY DEF IInv, CacheRecords, NoCache, MissLimit
<1>2. cache' \in CacheRecords
  BY <1>1
<1>3. ~NoCache.locked
  BY DEF NoCache
<1>4. LockInv'
  BY <1>3 DEF IInv, LockInv
<1>5. LockedWhereAcquired'
  BY DEF LockedWhereAcquired
<1> QED
  BY <1>2, <1>4, <1>5 DEF IInv

\* No way a call ends breaks the lock.
LEMMA StepPreserves == IInv /\ [Next]_vars => IInv'
<1> SUFFICES ASSUME IInv, [Next]_vars PROVE IInv'
  OBVIOUS
<1>1. CASE UNCHANGED vars
  BY <1>1 DEF vars, IInv, LockInv, LockedWhereAcquired
<1>2. CASE Reject
  BY <1>2, OthersPreserve DEF Reject, NoResult
<1>3. ASSUME NEW c \in Cells, NEW rx \in Receptions(c), SearchFails(c, rx)
      PROVE  IInv'
  BY <1>3, OthersPreserve DEF SearchFails, NoResult
<1>4. ASSUME NEW c \in Cells, NEW rx \in Receptions(c), NotFound(c, rx)
      PROVE  IInv'
  BY <1>4, OthersPreserve DEF NotFound
<1> QED
  BY <1>1, <1>2, <1>3, <1>4, TryLockedPreserves, AcquirePreserves DEF Next

\* The cache stays well-formed, its miss counter at most four, and a lock is
\* always the one the last full search made (pdcch_chain_sdk.h:287-300).
THEOREM LockInvariance == Spec => []IInv
<1> QED
  BY InitEstablishes, StepPreserves, PTL DEF Spec

\* A geometry is reported as locked only for the cell, ports, mode, bandwidth
\* and subframe kind for which a full search found it to be the only one,
\* whatever was searched in between (pdcch_chain_sdk.h:206-212, 313-315).
THEOREM LocksAreAcquired == Spec => []LockedWhereAcquired
<1>1. IInv => LockedWhereAcquired
  BY DEF IInv
<1> QED
  BY <1>1, LockInvariance, PTL

-----------------------------------------------------------------------------
\* The range of what the calls report.

AnswerRecords ==
  [status : {"kAcquired", "kLocked", "kMiss", "kAmbiguous"}, geometry_attempt_count : 0 .. 24,
   geometry : AnyGeometry \cup {NoGeometry}, decoded : AnyGeometry \cup {NoGeometry}]

AcquiredRecords == [cell : Cells \cup {NoCell}, geometry : AnyGeometry \cup {NoGeometry}]

StableRecords == [cell : Cells \cup {NoCell}, signal : Signals \cup {Silence}, calls : 0 .. Settled]

\* At most 24 geometries are tried: sixteen with normal PHICH duration, eight
\* with extended.
LEMMA AtMost24 ==
  ASSUME NEW n_prb
  PROVE  Cardinality(geometries(n_prb)) \in 0 .. 24
<1> DEFINE G == geometries(n_prb)
           place(r) == IF r = 48 THEN 1 ELSE IF r = 16 THEN 2 ELSE IF r = 8 THEN 3 ELSE 4
           first(g) == IF g.phich_duration = "normal" THEN 4 * (g.control_symbol_count - 1)
                                                      ELSE 4 * (g.control_symbol_count + 1)
           f == [g \in G |-> first(g) + place(g.phich_resource)]
<1>1. \A g \in G : /\ g.control_symbol_count \in 1 .. 4
                   /\ g.phich_resource \in {48, 16, 8, 4}
                   /\ \/ g.phich_duration = "normal"
                      \/ g.phich_duration = "extended" /\ g.control_symbol_count \in 3 .. 4
  BY DEF geometries, max_control_symbols, kOneSixth, kHalf, kOne, kTwo
<1>2. \A g \in G : f[g] \in 1 .. 24
  BY <1>1
<1>3. \A g, h \in G :
        /\ g.control_symbol_count = h.control_symbol_count
        /\ g.phich_resource = h.phich_resource
        /\ g.phich_duration = h.phich_duration
        => g = h
  BY DEF geometries
<1>4. ASSUME NEW g \in G, NEW h \in G, f[g] = f[h]
      PROVE  g = h
  <2>1. first(g) + place(g.phich_resource) = first(h) + place(h.phich_resource)
    BY <1>4
  <2>2. place(g.phich_resource) \in 1 .. 4 /\ place(h.phich_resource) \in 1 .. 4
    OBVIOUS
  <2>3. \E a, b \in 0 .. 5 : first(g) = 4 * a /\ first(h) = 4 * b
    BY <1>1
  <2>4. first(g) = first(h) /\ place(g.phich_resource) = place(h.phich_resource)
    <3> HIDE DEF first, place
    <3> QED
      BY <2>1, <2>2, <2>3
  <2>5. g.phich_resource = h.phich_resource
    BY <1>1, <2>4
  <2>6. g.control_symbol_count = h.control_symbol_count /\ g.phich_duration = h.phich_duration
    BY <1>1, <2>4
  <2> QED
    BY <1>3, <2>5, <2>6
<1>5. f \in Injection(G, 1 .. 24)
  <2> HIDE DEF first, place
  <2>1. f \in [G -> 1 .. 24]
    BY <1>2
  <2> HIDE DEF f
  <2> QED
    BY <1>4, <2>1 DEF Injection, IsInjective
<1>6. IsFiniteSet(1 .. 24) /\ Cardinality(1 .. 24) = 24
  <2>1. \A n \in Nat : IsFiniteSet(1 .. n) /\ Cardinality(1 .. n) = n
    BY FS_Interval
  <2> HIDE DEF f, G
  <2> QED
    BY <2>1
<1>7. IsFiniteSet(G) /\ Cardinality(G) <= 24
  <2> HIDE DEF f, G
  <2> QED
    BY <1>5, <1>6, FS_Injection
<1> QED
  BY <1>7, FS_CardinalityType

\* A DCI is read only under a geometry of the cell, and is one of the signals.
LEMMA ReadersInRange ==
  ASSUME NEW t \in Readers
  PROVE  /\ t = <<t[1], t[2], t[3]>>
         /\ t[2] \in Signals
         /\ t[3] \in geometries(t[1].n_prb)
<1>1. PICK sent \in {r \in Reads : r.signal \in Signals}, r \in Reads :
        ReadAt(sent, r) /\ t = <<sent.cell, sent.signal, r.signal.geometry>>
  BY DEF Readers
<1>2. PICK l \in Layouts : \E cand \in common_search_candidates(l.layout) :
        r = [cell |-> l.cell,
             signal |-> [geometry |-> l.geometry, first_cce |-> cand.first_cce,
                         level |-> cand.level],
             regs |-> candidate_regs(l.layout, cand)]
  BY DEF Reads
<1>3. r.cell = l.cell /\ r.signal.geometry = l.geometry
  BY <1>2
<1>4. l.geometry \in geometries(l.cell.n_prb)
  BY DEF Layouts
<1> QED
  BY <1>1, <1>3, <1>4 DEF ReadAt

TypeInv ==
  /\ IInv
  /\ result \in AnswerRecords
  /\ returned \in {"kOk", "kUnsupportedConfig", "kError"}
  /\ acquired \in AcquiredRecords
  /\ stable \in StableRecords

\* The types hold at first.
LEMMA InitTyped == Init => TypeInv
<1> SUFFICES ASSUME Init PROVE TypeInv
  OBVIOUS
<1>1. result \in AnswerRecords
  BY DEF Init, NoResult, AnswerRecords
<1>2. acquired \in AcquiredRecords /\ stable \in StableRecords
  BY DEF Init, AcquiredRecords, StableRecords, Settled, MissLimit
<1> QED
  BY <1>1, <1>2, InitEstablishes DEF TypeInv, Init

\* What is heard is a signal or silence, and the calls are counted to five.
LEMMA HeardTyped ==
  ASSUME stable \in StableRecords, NEW c \in Cells, NEW rx \in Receptions(c), Heard(c, rx)
  PROVE  stable' \in StableRecords
<1>1. rx.signal \in Signals \cup {Silence}
  <2>1. rx.signal \in {t[2] : t \in {t \in Readers : t[1] = c}} \cup {Silence}
    BY DEF Receptions
  <2> QED
    BY <2>1, ReadersInRange
<1>2. PICK before \in 0 .. Settled :
        stable'.calls = IF rx.signal # Silence /\ rx.false_hits = {}
                          THEN Lesser(before + 1, Settled) ELSE 0
  BY DEF Heard, StableRecords, Settled, MissLimit
<1>3. stable'.calls \in 0 .. Settled
  BY <1>2 DEF Lesser, Settled, MissLimit
<1>4. stable' = [cell |-> c, signal |-> rx.signal, calls |-> stable'.calls]
  BY DEF Heard
<1> QED
  BY <1>1, <1>3, <1>4 DEF StableRecords

\* The answers of the calls, one for each.
LEMMA AnswersTyped ==
  ASSUME TypeInv, NEW c \in Cells, NEW rx \in Receptions(c),
         TryLocked(c, rx) \/ NotFound(c, rx) \/ Acquire(c, rx)
  PROVE  result' \in AnswerRecords /\ returned' = "kOk" /\ Heard(c, rx)
         /\ acquired' \in AcquiredRecords
<1>1. Attempts(c) \in 0 .. 24
  BY AtMost24 DEF Attempts
<1>2. cache.geometry \in AnyGeometry \cup {NoGeometry}
  BY DEF TypeInv, IInv, CacheRecords
<1>3. Hits(c, rx) \subseteq AnyGeometry
  BY DEF Hits, AnyGeometry
<1>4. CASE TryLocked(c, rx)
  BY <1>2, <1>4 DEF TryLocked, AnswerRecords, TypeInv
<1>5. CASE NotFound(c, rx)
  BY <1>1, <1>5 DEF NotFound, SearchAll, AnswerRecords, TypeInv
<1>6. CASE Acquire(c, rx)
  <2>1. PICK g \in Hits(c, rx) :
          /\ result' = [status |-> "kAcquired", geometry_attempt_count |-> Attempts(c),
                        geometry |-> g, decoded |-> g]
          /\ acquired' = [cell |-> c, geometry |-> g]
    BY <1>6 DEF Acquire
  <2>2. g \in AnyGeometry
    BY <1>3
  <2> QED
    BY <1>1, <1>6, <2>1, <2>2 DEF Acquire, SearchAll, AnswerRecords, AcquiredRecords
<1> QED
  BY <1>4, <1>5, <1>6

\* Every call keeps the types.
LEMMA StepTyped == TypeInv /\ [Next]_vars => TypeInv'
<1> SUFFICES ASSUME TypeInv, [Next]_vars PROVE TypeInv'
  OBVIOUS
<1>1. IInv'
  BY StepPreserves DEF TypeInv
<1>2. NoResult \in AnswerRecords
  BY DEF NoResult, AnswerRecords
<1>3. CASE UNCHANGED vars
  BY <1>1, <1>3 DEF vars, TypeInv
<1>4. CASE Reject
  BY <1>1, <1>2, <1>4 DEF Reject, TypeInv
<1>5. ASSUME NEW c \in Cells, NEW rx \in Receptions(c), SearchFails(c, rx)
      PROVE  TypeInv'
  BY <1>1, <1>2, <1>5 DEF SearchFails, TypeInv
<1>6. ASSUME NEW c \in Cells, NEW rx \in Receptions(c),
             TryLocked(c, rx) \/ NotFound(c, rx) \/ Acquire(c, rx)
      PROVE  TypeInv'
  BY <1>1, <1>6, AnswersTyped, HeardTyped DEF TypeInv
<1> QED
  BY <1>3, <1>4, <1>5, <1>6 DEF Next

\* The cache, the answer and the histories keep to their ranges: no search
\* counts more than 24 attempts or more than four misses, and what is reported
\* is a geometry of some cell (pdcch_chain_sdk.h:287-342).
THEOREM TypeInvariance == Spec => []TypeOK
<1>1. TypeInv => TypeOK
  BY DEF TypeInv, IInv, TypeOK, CacheRecords, AnswerRecords, AcquiredRecords, StableRecords
<1> QED
  BY <1>1, InitTyped, StepTyped, PTL DEF Spec

-----------------------------------------------------------------------------
\* While a DCI that one geometry alone reads keeps being heard, a lock either
\* holds that geometry and no miss, or is a stale one that has missed at every
\* one of these calls.

Settling == stable.calls > 0 /\ HeardAlone(stable.cell, stable.signal)

Found ==
  /\ result.status \in {"kAcquired", "kLocked"}
  /\ result.decoded = stable.signal.geometry

Stale ==
  cache.locked /\ cache.cell = stable.cell /\ cache.consecutive_miss_count >= stable.calls

RightLock ==
  /\ cache.locked /\ cache.cell = stable.cell
  /\ cache.geometry = stable.signal.geometry /\ cache.consecutive_miss_count = 0

StableInv ==
  /\ stable.calls > 0 => \E t \in Readers : t[1] = stable.cell /\ t[2] = stable.signal
  /\ Settling => ~cache.locked \/ RightLock \/ Stale
  /\ Settling /\ returned = "kOk" => Found \/ Stale

ReacquireInv == TypeInv /\ StableInv

\* A clean DCI that one geometry alone reads has one hit.
LEMMA OneHit ==
  ASSUME NEW c \in Cells, NEW rx \in Receptions(c), rx.false_hits = {}, HeardAlone(c, rx.signal)
  PROVE  Hits(c, rx) = {rx.signal.geometry}
<1> DEFINE reading == {t[3] : t \in {t \in Readers : t[1] = c /\ t[2] = rx.signal}}
<1>1. reading = {rx.signal.geometry}
  BY DEF HeardAlone
<1>2. ASSUME NEW g, <<c, rx.signal, g>> \in Readers
      PROVE  g \in reading
  BY <1>2
<1>3. ASSUME NEW g \in reading
      PROVE  <<c, rx.signal, g>> \in Readers /\ g \in geometries(c.n_prb)
  BY ReadersInRange
<1> HIDE DEF reading
<1>4. rx.signal.geometry \in reading
  BY <1>1
<1> QED
  BY <1>1, <1>2, <1>3, <1>4 DEF Hits

\* A call that heard something other than one clean DCI starts the count anew.
LEMMA HeardCounts ==
  ASSUME stable \in StableRecords, NEW c \in Cells, NEW rx \in Receptions(c), Heard(c, rx),
         stable'.calls > 0
  PROVE  /\ stable'.cell = c /\ stable'.signal = rx.signal
         /\ rx.false_hits = {}
         /\ \E t \in Readers : t[1] = c /\ t[2] = rx.signal
         /\ \/ stable'.calls = 1
            \/ /\ stable.cell = c /\ stable.signal = rx.signal
               /\ stable.calls > 0 /\ stable'.calls <= stable.calls + 1
<1>1. rx.signal # Silence /\ rx.false_hits = {}
  BY DEF Heard
<1>2. \E t \in Readers : t[1] = c /\ t[2] = rx.signal
  BY <1>1 DEF Receptions
<1>3. stable.calls \in 0 .. Settled
  BY DEF StableRecords
<1> QED
  BY <1>1, <1>2, <1>3 DEF Heard, Lesser, Settled, MissLimit

\* What a try of the cached geometry does to a stable cell.
LEMMA StableAfterTry ==
  ASSUME ReacquireInv, NEW c \in Cells, NEW rx \in Receptions(c), TryLocked(c, rx)
  PROVE  StableInv'
<1>1. Heard(c, rx) /\ stable \in StableRecords /\ cache \in CacheRecords
  BY DEF TryLocked, ReacquireInv, TypeInv, IInv
<1>2. CASE ~(stable'.calls > 0)
  BY <1>2 DEF StableInv, Settling
<1>3. CASE stable'.calls > 0
  <2>1. /\ stable'.cell = c /\ stable'.signal = rx.signal
        /\ rx.false_hits = {}
        /\ \E t \in Readers : t[1] = c /\ t[2] = rx.signal
        /\ \/ stable'.calls = 1
           \/ /\ stable.cell = c /\ stable.signal = rx.signal
              /\ stable.calls > 0 /\ stable'.calls <= stable.calls + 1
    BY <1>1, <1>3, HeardCounts
  <2>2. CASE ~HeardAlone(c, rx.signal)
    BY <2>1, <2>2 DEF StableInv, Settling
  <2>3. CASE HeardAlone(c, rx.signal)
    <3> DEFINE hit == cache.geometry \in Hits(c, rx)
    <3>1. hit <=> cache.geometry = rx.signal.geometry
      BY <2>1, <2>3, OneHit
    <3>2. /\ cache.locked /\ cache.cell = c
          /\ cache' = [cache EXCEPT !.consecutive_miss_count = MissesAfter(hit)]
          /\ result'.status = IF hit THEN "kLocked" ELSE "kMiss"
          /\ result'.decoded = IF hit THEN cache.geometry ELSE NoGeometry
      BY DEF TryLocked, TriesLocked, cache_matches
    <3> HIDE DEF hit
    <3>3. /\ cache'.locked /\ cache'.cell = c /\ cache'.geometry = cache.geometry
          /\ cache'.consecutive_miss_count = MissesAfter(hit)
      BY <1>1, <3>2 DEF CacheRecords
    <3>4. CASE hit
      <4>1. RightLock' /\ Found'
        BY <2>1, <3>1, <3>2, <3>3, <3>4 DEF RightLock, Found, MissesAfter
      <4> QED
        BY <2>1, <4>1 DEF StableInv
    <3>5. CASE ~hit
      <4>1. cache.consecutive_miss_count \in Nat /\ stable.calls \in Nat /\ stable'.calls \in Nat
        BY <1>1, HeardTyped DEF CacheRecords, StableRecords, MissLimit, Settled
      <4>2. cache'.consecutive_miss_count = cache.consecutive_miss_count + 1
        BY <3>3, <3>5 DEF MissesAfter
      <4>3. CASE stable'.calls = 1
        BY <2>1, <3>3, <4>1, <4>2, <4>3 DEF StableInv, Stale
      <4>4. CASE /\ stable.cell = c /\ stable.signal = rx.signal
                 /\ stable.calls > 0 /\ stable'.calls <= stable.calls + 1
        <5>1. Settling
          BY <2>3, <4>4 DEF Settling
        <5>2. cache.geometry # stable.signal.geometry
          BY <3>1, <3>5, <4>4
        <5>3. Stale
          BY <3>2, <5>1, <5>2 DEF ReacquireInv, StableInv, RightLock
        <5>4. cache'.consecutive_miss_count >= stable'.calls
          BY <4>1, <4>2, <4>4, <5>3 DEF Stale
        <5> QED
          BY <2>1, <3>3, <5>4 DEF StableInv, Stale
      <4> QED
        BY <2>1, <4>3, <4>4
    <3> QED
      BY <3>4, <3>5
  <2> QED
    BY <2>2, <2>3
<1> QED
  BY <1>2, <1>3

\* What a full search does to a stable cell.
LEMMA StableAfterSearch ==
  ASSUME ReacquireInv, NEW c \in Cells, NEW rx \in Receptions(c),
         NotFound(c, rx) \/ Acquire(c, rx)
  PROVE  StableInv'
<1>1. Heard(c, rx) /\ stable \in StableRecords
  BY DEF NotFound, Acquire, SearchAll, ReacquireInv, TypeInv
<1>2. CASE ~(stable'.calls > 0)
  BY <1>2 DEF StableInv, Settling
<1>3. CASE stable'.calls > 0
  <2>1. /\ stable'.cell = c /\ stable'.signal = rx.signal
        /\ rx.false_hits = {}
        /\ \E t \in Readers : t[1] = c /\ t[2] = rx.signal
    BY <1>1, <1>3, HeardCounts
  <2>2. CASE ~HeardAlone(c, rx.signal)
    BY <2>1, <2>2 DEF StableInv, Settling
  <2>3. CASE HeardAlone(c, rx.signal)
    <3>1. Hits(c, rx) = {rx.signal.geometry}
      BY <2>1, <2>3, OneHit
    <3>2. Cardinality(Hits(c, rx)) = 1
      BY <3>1, FS_Singleton
    <3>3. Acquire(c, rx)
      BY <3>2 DEF NotFound
    <3>4. RightLock' /\ Found'
      BY <2>1, <3>1, <3>3 DEF Acquire, update_cache, RightLock, Found
    <3> QED
      BY <2>1, <3>4 DEF StableInv
  <2> QED
    BY <2>2, <2>3
<1> QED
  BY <1>2, <1>3

\* A call that is rejected or fails says nothing, and at most drops the lock.
LEMMA StableAfterFailure ==
  ASSUME ReacquireInv, stable' = stable, cache' \in {cache, NoCache}, returned' # "kOk"
  PROVE  StableInv'
<1>1. CASE cache' = cache
  BY <1>1 DEF ReacquireInv, StableInv, Settling, RightLock, Stale
<1>2. CASE cache' = NoCache
  <2>1. ~cache'.locked
    BY <1>2 DEF NoCache
  <2> QED
    BY <2>1 DEF ReacquireInv, StableInv, Settling
<1> QED
  BY <1>1, <1>2

\* The cell that stays on the air keeps its progress.
LEMMA ReacquireInvariance == Spec => []ReacquireInv
<1>1. Init => ReacquireInv
  <2>1. Init => StableInv
    BY DEF Init, StableInv, Settling
  <2> QED
    BY <2>1, InitTyped DEF ReacquireInv
<1>2. ReacquireInv /\ [Next]_vars => ReacquireInv'
  <2> SUFFICES ASSUME ReacquireInv, [Next]_vars PROVE ReacquireInv'
    OBVIOUS
  <2>1. TypeInv'
    BY StepTyped DEF ReacquireInv
  <2>2. CASE UNCHANGED vars
    BY <2>2 DEF vars, ReacquireInv, TypeInv, IInv, LockInv, LockedWhereAcquired, StableInv,
                Settling, RightLock, Stale, Found
  <2>3. CASE Reject
    BY <2>1, <2>3, StableAfterFailure DEF Reject, ReacquireInv
  <2>4. ASSUME NEW c \in Cells, NEW rx \in Receptions(c), SearchFails(c, rx)
        PROVE  StableInv'
    BY <2>4, StableAfterFailure DEF SearchFails
  <2> QED
    BY <2>1, <2>2, <2>3, <2>4, StableAfterTry, StableAfterSearch DEF Next, ReacquireInv
<1> QED
  BY <1>1, <1>2, PTL DEF Spec

\* A lock that has missed five times would be past the limit, so the fifth call
\* in a row finds the cell.
LEMMA FifthCallFinds ==
  ReacquireInv /\ Settling /\ stable.calls = Settled /\ returned = "kOk" => Found
<1> SUFFICES ASSUME ReacquireInv, Settling, stable.calls = Settled, returned = "kOk" PROVE Found
  OBVIOUS
<1>1. cache.consecutive_miss_count \in 0 .. MissLimit
  BY DEF ReacquireInv, TypeInv, IInv, CacheRecords
<1>2. ~Stale
  BY <1>1 DEF Stale, Settled, MissLimit
<1> QED
  BY <1>2 DEF ReacquireInv, StableInv

\* Whatever the cells, the signals and the layouts, a cell whose DCI only its
\* own geometry reads is found once it has been heard five times in a row,
\* whatever the cache held before: a lock for it that another geometry left is
\* given up at the fourth miss (pdcch_chain_sdk.h:338).
THEOREM CellsHeardAloneAreReacquired ==
  Spec => [](returned = "kOk" /\ stable.calls = Settled
               /\ HeardAlone(stable.cell, stable.signal) => Found)
<1>1. ReacquireInv => (returned = "kOk" /\ stable.calls = Settled
                         /\ HeardAlone(stable.cell, stable.signal) => Found)
  BY FifthCallFinds DEF Settling, Settled, MissLimit
<1> QED
  BY <1>1, ReacquireInvariance, PTL

\* Where no other geometry reads the DCI of a geometry that is set apart, every
\* cell whose geometry is set apart is found under it after at most four misses
\* (pdcch_chain_sdk.h:338, pdcch_chain_dto.h:429).
THEOREM StableCellsAreReacquired ==
  ASSUME \A t \in Readers : SetApart(t[1], t[2].geometry) => HeardAlone(t[1], t[2])
  PROVE  Spec => []ReacquiresAStableCell
<1>1. ReacquireInv => ReacquiresAStableCell
  <2> SUFFICES ASSUME ReacquireInv, returned = "kOk", stable.calls = Settled,
                      SetApart(stable.cell, stable.signal.geometry)
               PROVE  Found
    BY DEF ReacquiresAStableCell, Found
  <2>1. stable.calls > 0
    BY DEF Settled, MissLimit
  <2>2. PICK t \in Readers : t[1] = stable.cell /\ t[2] = stable.signal
    BY <2>1 DEF ReacquireInv, StableInv
  <2>3. HeardAlone(stable.cell, stable.signal)
    BY <2>2
  <2> QED
    BY <2>1, <2>3, FifthCallFinds DEF Settling
<1> QED
  BY <1>1, ReacquireInvariance, PTL

-----------------------------------------------------------------------------
(* What the layouts are. *)

\* A selection has the members that are kept.
LEMMA AmongLists ==
  ASSUME NEW S, NEW s, NEW M, NEW A, Lists(s, S, M)
  PROVE  Lists(Among(s, A), S, M \cap A)
<1> DEFINE parts == [i \in DOMAIN s |-> IF s[i] \in A THEN <<s[i]>> ELSE <<>>]
           N == [i \in 1 .. Len(s) |-> {s[i]} \cap A]
<1>1. s \in Seq(S) /\ Len(s) \in Nat /\ DOMAIN s = 1 .. Len(s) /\ \A i \in 1 .. Len(s) : s[i] \in S
  BY DEF Lists
<1>2. \A i, j \in 1 .. Len(s) : s[i] = s[j] => i = j
  BY DEF Lists
<1>3. \A x : x \in M <=> \E i \in 1 .. Len(s) : s[i] = x
  BY DEF Lists
<1>4. ASSUME NEW i \in 1 .. Len(s)
      PROVE  parts[i] \in Seq(S) /\ Lists(parts[i], S, N[i])
  <2>1. parts[i] = (IF s[i] \in A THEN <<s[i]>> ELSE <<>>) /\ N[i] = {s[i]} \cap A
    BY <1>1
  <2>2. PICK x \in S : x = s[i]
    BY <1>1
  <2> HIDE DEF parts, N
  <2>3. CASE x \in A
    <3>1. parts[i] = <<x>> /\ N[i] = {x}
      BY <2>1, <2>2, <2>3
    <3>2. <<x>> \in Seq(S) /\ Lists(<<x>>, S, {x})
      BY DEF Lists
    <3> QED
      BY <3>1, <3>2
  <2>4. CASE x \notin A
    <3>1. parts[i] = <<>> /\ N[i] = {}
      BY <2>1, <2>2, <2>4
    <3>2. <<>> \in Seq(S) /\ Lists(<<>>, S, {})
      BY DEF Lists
    <3> QED
      BY <3>1, <3>2
  <2> QED
    BY <2>3, <2>4
<1>5. parts \in Seq(Seq(S)) /\ Len(parts) = Len(s)
  <2>1. parts \in [1 .. Len(s) -> Seq(S)]
    <3>1. parts = [i \in 1 .. Len(s) |-> parts[i]]
      BY <1>1
    <3> HIDE DEF parts
    <3> QED
      BY <1>4, <3>1
  <2> HIDE DEF parts
  <2> QED
    BY <1>1, <2>1, SequenceOfNumbered
<1>6. \A i, j \in 1 .. Len(s) : i # j => N[i] \cap N[j] = {}
  BY <1>2
<1>7. AllOf(N, Len(s)) = M \cap A
  <2>1. \A x : x \in AllOf(N, Len(s)) <=> \E i \in 1 .. Len(s) : x = s[i] /\ x \in A
    BY DEF AllOf
  <2> QED
    BY <1>3, <2>1
<1>8. Among(s, A) = FlattenSeq(parts)
  BY DEF Among
<1> HIDE DEF parts, N
<1>9. Lists(FlattenSeq(parts), S, AllOf(N, Len(parts)))
  <2>1. \A i \in 1 .. Len(parts) : Lists(parts[i], S, N[i])
    BY <1>4, <1>5
  <2>2. \A i, j \in 1 .. Len(parts) : i # j => N[i] \cap N[j] = {}
    BY <1>5, <1>6
  <2> QED
    BY <1>5, <2>1, <2>2, JoinedLists
<1> QED
  BY <1>5, <1>7, <1>8, <1>9

\* Where each number is in the permutation.
PlaceOf ==
  << 17, 1, 25, 9, 21, 5, 29, 13, 19, 3, 27, 11, 23, 7, 31, 15,
     18, 2, 26, 10, 22, 6, 30, 14, 20, 4, 28, 12, 24, 8, 32, 16 >>

\* The permutation has every number below 32, once.
LEMMA PermutationInverted ==
  /\ \A k \in 1 .. 32 : kPermutation[k] \in 0 .. 31 /\ PlaceOf[kPermutation[k] + 1] = k
  /\ \A v \in 0 .. 31 : PlaceOf[v + 1] \in 1 .. 32 /\ kPermutation[PlaceOf[v + 1]] = v
<1>1. \A k \in 1 .. 32 : kPermutation[k] \in 0 .. 31 /\ PlaceOf[kPermutation[k] + 1] = k
  BY DEF kPermutation, PlaceOf
<1>2. \A v \in 0 .. 31 : PlaceOf[v + 1] \in 1 .. 32 /\ kPermutation[PlaceOf[v + 1]] = v
  BY DEF kPermutation, PlaceOf
<1> QED
  BY <1>1, <1>2

\* How the matrix of n REGs is filled.
LEMMA RowsOfMatrix ==
  ASSUME NEW n \in Nat
  PROVE  /\ CeilDiv(n, Columns) \in Nat
         /\ Columns * CeilDiv(n, Columns) - n \in 0 .. 31
BY DEF CeilDiv, Columns

\* A column has the numbers of its rows, once.
LEMMA ColumnLists ==
  ASSUME NEW rows \in Nat, NEW k \in 1 .. 32, NEW dummies \in 0 .. 31
  PROVE  LET column == [row \in 1 .. rows |-> (row - 1) * Columns + kPermutation[k] - dummies]
         IN  Lists(column, Int, {(row - 1) * Columns + kPermutation[k] - dummies : row \in 1 .. rows})
<1> DEFINE column == [row \in 1 .. rows |-> (row - 1) * Columns + kPermutation[k] - dummies]
<1>1. PICK p \in 0 .. 31 : p = kPermutation[k]
  BY PermutationInverted
<1>2. \A row \in 1 .. rows : column[row] = (row - 1) * 32 + p - dummies
  BY <1>1 DEF Columns
<1>3. column \in [1 .. rows -> Int]
  BY <1>1 DEF Columns
<1>4. \A row \in 1 .. rows : column[row] = (row - 1) * Columns + kPermutation[k] - dummies
  OBVIOUS
<1> HIDE DEF column
<1>5. column \in Seq(Int) /\ Len(column) = rows
  BY <1>3, SequenceOfNumbered
<1>6. \A i, j \in 1 .. rows : column[i] = column[j] => i = j
  BY <1>1, <1>2
<1>7. {(row - 1) * Columns + kPermutation[k] - dummies : row \in 1 .. rows} = {column[row] : row \in 1 .. rows}
  BY <1>4
<1> HIDE DEF column
<1>8. Lists(column, Int, {column[row] : row \in 1 .. rows})
  BY <1>5, <1>6 DEF Lists
<1> QED
  BY <1>7, <1>8 DEF column

\* The read order is a permutation of the REGs.
LEMMA ReadOrderLists ==
  ASSUME NEW n \in Nat
  PROVE  Lists(ReadOrder(n), Int, 0 .. n - 1)
<1> DEFINE rows == CeilDiv(n, Columns)
           dummies == Columns * rows - n
           column(k) == [row \in 1 .. rows |-> (row - 1) * Columns + kPermutation[k] - dummies]
           seqs == [k \in 1 .. Columns |-> Among(column(k), Nat)]
           members(k) == {(row - 1) * Columns + kPermutation[k] - dummies : row \in 1 .. rows}
           M == [k \in 1 .. 32 |-> members(k) \cap Nat]
<1>1. rows \in Nat /\ dummies \in 0 .. 31
  BY RowsOfMatrix
<1>2. dummies = 32 * rows - n
  BY DEF Columns
<1>3. ReadOrder(n) = FlattenSeq(seqs)
  BY DEF ReadOrder
<1> HIDE DEF rows, dummies
<1>4. ASSUME NEW k \in 1 .. 32
      PROVE  Lists(column(k), Int, members(k))
  BY <1>1, ColumnLists
<1>5. ASSUME NEW k \in 1 .. 32
      PROVE  /\ seqs[k] = Among(column(k), Nat) /\ M[k] = members(k) \cap Nat
             /\ Lists(seqs[k], Int, M[k])
  <2>1. seqs[k] = Among(column(k), Nat) /\ M[k] = members(k) \cap Nat
    BY DEF Columns
  <2>2. Lists(column(k), Int, members(k))
    BY <1>4
  <2> HIDE DEF column, members, M, seqs
  <2>3. Lists(Among(column(k), Nat), Int, members(k) \cap Nat)
    BY <2>2, AmongLists
  <2> QED
    BY <2>1, <2>3
<1>6. \A k \in 1 .. 32 : \A x \in M[k] :
        \E row \in 1 .. rows : x = (row - 1) * 32 + kPermutation[k] - dummies
  BY <1>5 DEF Columns
<1>7. \A k \in 1 .. 32 : \A row \in 1 .. rows :
        (row - 1) * 32 + kPermutation[k] - dummies \in Nat
          => (row - 1) * 32 + kPermutation[k] - dummies \in M[k]
  BY <1>5 DEF Columns
<1>8. seqs \in Seq(Seq(Int)) /\ Len(seqs) = 32
  <2>1. seqs \in [1 .. 32 -> Seq(Int)]
    <3>1. seqs = [k \in 1 .. 32 |-> seqs[k]]
      BY DEF Columns
    <3>2. \A k \in 1 .. 32 : seqs[k] \in Seq(Int)
      BY <1>5 DEF Lists
    <3> HIDE DEF seqs
    <3> QED
      BY <3>1, <3>2
  <2> HIDE DEF seqs
  <2> QED
    BY <2>1, SequenceOfNumbered
<1> HIDE DEF column, seqs, members, M
<1>9. ASSUME NEW k \in 1 .. 32, NEW l \in 1 .. 32, NEW x \in M[k], x \in M[l]
      PROVE  k = l
  <2>1. PICK r \in 1 .. rows : x = (r - 1) * 32 + kPermutation[k] - dummies
    BY <1>6
  <2>2. PICK s \in 1 .. rows : x = (s - 1) * 32 + kPermutation[l] - dummies
    BY <1>6, <1>9
  <2>3. PICK p \in 0 .. 31, q \in 0 .. 31 : p = kPermutation[k] /\ q = kPermutation[l]
    BY PermutationInverted
  <2>4. (r - 1) * 32 + p - dummies = (s - 1) * 32 + q - dummies
    BY <2>1, <2>2, <2>3
  <2>5. r \in Int /\ s \in Int /\ dummies \in Int
    BY <1>1
  <2>6. p - q = 32 * (s - r)
    BY <2>3, <2>4, <2>5
  <2>7. p = q
    BY <2>3, <2>5, <2>6
  <2> QED
    BY <2>3, <2>7, PermutationInverted
<1>10. ASSUME NEW x
       PROVE  x \in AllOf(M, 32) <=> x \in 0 .. n - 1
  <2>1. ASSUME x \in AllOf(M, 32) PROVE x \in 0 .. n - 1
    <3>1. PICK k \in 1 .. 32 : x \in M[k]
      BY <2>1 DEF AllOf
    <3>2. PICK r \in 1 .. rows : x = (r - 1) * 32 + kPermutation[k] - dummies
      BY <1>6, <3>1
    <3>3. PICK p \in 0 .. 31 : p = kPermutation[k]
      BY PermutationInverted
    <3>4. x \in Nat
      BY <1>5, <3>1
    <3> QED
      BY <1>1, <1>2, <3>2, <3>3, <3>4
  <2>2. ASSUME x \in 0 .. n - 1 PROVE x \in AllOf(M, 32)
    <3>1. PICK r \in 1 .. rows, v \in 0 .. 31 : x = (r - 1) * 32 + v - dummies
      <4>1. PICK y \in Nat : y = x + dummies
        BY <1>1, <2>2
      <4>2. PICK q \in Nat, v \in 0 .. 31 : y = 32 * q + v
        <5>1. y \div 32 \in Nat /\ y % 32 \in 0 .. 31 /\ y = 32 * (y \div 32) + (y % 32)
          OBVIOUS
        <5> QED
          BY <5>1
      <4>3. q + 1 \in 1 .. rows /\ (q + 1) - 1 = q
        BY <1>1, <1>2, <2>2, <4>1, <4>2
      <4>4. x = ((q + 1) - 1) * 32 + v - dummies
        BY <1>1, <2>2, <4>1, <4>2, <4>3
      <4> QED
        BY <4>3, <4>4
    <3>2. PICK k \in 1 .. 32 : kPermutation[k] = v
      BY PermutationInverted
    <3>3. x \in M[k]
      BY <1>7, <2>2, <3>1, <3>2
    <3> QED
      BY <3>3 DEF AllOf
  <2> QED
    BY <2>1, <2>2
<1>11. AllOf(M, Len(seqs)) = 0 .. n - 1
  BY <1>8, <1>10
<1>12. Lists(FlattenSeq(seqs), Int, AllOf(M, Len(seqs)))
  <2>1. \A k \in 1 .. Len(seqs) : Lists(seqs[k], Int, M[k])
    BY <1>5, <1>8
  <2>2. \A k, l \in 1 .. Len(seqs) : k # l => M[k] \cap M[l] = {}
    BY <1>8, <1>9
  <2> QED
    BY <1>8, <2>1, <2>2, JoinedLists
<1> QED
  BY <1>3, <1>11, <1>12

\* The places of a PRB: <<symbol, k>>; and of the control symbols.
InPrb(c, g) ==
  {r \in Nat \X Nat :
     \/ r[1] = 0 /\ r[2] \in 0 .. 1
     \/ r[1] \in 1 .. g.control_symbol_count - 1 /\ r[2] \in 0 .. 1
     \/ r[1] \in 1 .. g.control_symbol_count - 1 /\ r[2] = 2 /\ ~crs_symbol_used(c, r[1])}

\* A REG: its symbol, its PRB and its number in the PRB.
Triples == Nat \X Nat \X Nat

InRegion(c, g) == {r \in Triples : r[2] < c.n_prb /\ <<r[1], r[3]>> \in InPrb(c, g)}

\* The REGs number k of the later symbols.
LEMMA LaterLists ==
  ASSUME NEW m \in 0 .. 3, NEW k \in 0 .. 2
  PROVE  Lists([i \in 1 .. m |-> <<i, k>>], Nat \X Nat, {r \in Nat \X Nat : r[1] \in 1 .. m /\ r[2] = k})
<1> DEFINE later == [i \in 1 .. m |-> <<i, k>>]
<1>1. later \in [1 .. m -> Nat \X Nat] /\ \A i \in 1 .. m : later[i] = <<i, k>>
  OBVIOUS
<1> HIDE DEF later
<1>2. later \in Seq(Nat \X Nat) /\ Len(later) = m
  BY <1>1, SequenceOfNumbered
<1>3. \A i, j \in 1 .. m : later[i] = later[j] => i = j
  BY <1>1
<1> DEFINE M == {r \in Nat \X Nat : r[1] \in 1 .. m /\ r[2] = k}
<1>4. ASSUME NEW r
      PROVE  r \in M <=> \E i \in 1 .. m : later[i] = r
  <2>1. ASSUME r \in Nat \X Nat, r[1] \in 1 .. m, r[2] = k
        PROVE  later[r[1]] = r
    BY <1>1, <2>1
  <2>2. ASSUME NEW i \in 1 .. m, later[i] = r
        PROVE  r \in Nat \X Nat /\ r[1] = i /\ r[2] = k
    BY <1>1, <2>2
  <2> QED
    BY <2>1, <2>2
<1>5. Lists(later, Nat \X Nat, M)
  <2> HIDE DEF M
  <2> QED
    BY <1>2, <1>3, <1>4 DEF Lists
<1> QED
  BY <1>5 DEF later

\* The REGs of a PRB.
LEMMA PrbRegsLists ==
  ASSUME NEW c, NEW g, g.control_symbol_count \in 1 .. 4
  PROVE  Lists(PrbRegs(c, g), Nat \X Nat, InPrb(c, g))
<1> DEFINE P == Nat \X Nat
           m == g.control_symbol_count - 1
           later(k) == [i \in 1 .. m |-> <<i, k>>]
           Of(k) == {r \in P : r[1] \in 1 .. m /\ r[2] = k}
           kept == {<<i, 2>> : i \in {i \in 1 .. 3 : ~crs_symbol_used(c, i)}}
           Third == Of(2) \cap kept
<1>1. m \in 0 .. 3
  OBVIOUS
<1>2. PrbRegs(c, g) = << <<0, 0>> >> \o later(0) \o later(1) \o << <<0, 1>> >> \o ThirdRegs(c, g)
  BY DEF PrbRegs
<1>3. ThirdRegs(c, g) = Among(later(2), kept)
  BY DEF ThirdRegs
<1>4. InPrb(c, g) = (((({<<0, 0>>} \cup Of(0)) \cup Of(1)) \cup {<<0, 1>>}) \cup Third)
  <2>1. \A r \in P : r \in kept <=> r[2] = 2 /\ r[1] \in 1 .. 3 /\ ~crs_symbol_used(c, r[1])
    OBVIOUS
  <2>2. \A r \in P : r = <<0, 0>> <=> r[1] = 0 /\ r[2] = 0
    OBVIOUS
  <2>3. \A r \in P : r = <<0, 1>> <=> r[1] = 0 /\ r[2] = 1
    OBVIOUS
  <2>4. <<0, 0>> \in P /\ <<0, 1>> \in P
    OBVIOUS
  <2> HIDE DEF kept
  <2>5. ASSUME NEW r \in P
        PROVE  r \in InPrb(c, g) <=>
                 r = <<0, 0>> \/ r \in Of(0) \/ r \in Of(1) \/ r = <<0, 1>> \/ r \in Third
    <3>1. r[1] \in Nat /\ r[2] \in Nat
      OBVIOUS
    <3>2. PICK a \in Nat, b \in Nat : a = r[1] /\ b = r[2]
      BY <3>1
    <3>3. r \in Third <=> a \in 1 .. m /\ b = 2 /\ ~crs_symbol_used(c, a)
      BY <1>1, <2>1, <3>2
    <3>4. r \in InPrb(c, g) <=> \/ a = 0 /\ b \in 0 .. 1
                                \/ a \in 1 .. m /\ b \in 0 .. 1
                                \/ a \in 1 .. m /\ b = 2 /\ ~crs_symbol_used(c, a)
      BY <3>2 DEF InPrb
    <3>5. \A k \in 0 .. 1 : r \in Of(k) <=> a \in 1 .. m /\ b = k
      BY <3>2
    <3>6. /\ r = <<0, 0>> <=> a = 0 /\ b = 0
          /\ r = <<0, 1>> <=> a = 0 /\ b = 1
      BY <2>2, <2>3, <3>2
    <3> HIDE DEF Third, Of, m
    <3>7. 0 \in 0 .. 1 /\ 1 \in 0 .. 1 /\ (b \in 0 .. 1 <=> b = 0 \/ b = 1)
      BY <3>2
    <3> QED
      BY <3>3, <3>4, <3>5, <3>6, <3>7
  <2>6. InPrb(c, g) \subseteq P /\ Of(0) \subseteq P /\ Of(1) \subseteq P /\ Third \subseteq P
    BY DEF InPrb
  <2> HIDE DEF Third, Of, m, P
  <2> QED
    BY <2>4, <2>5, <2>6
<1>5. \A k \in 0 .. 2 : Lists(later(k), P, Of(k))
  BY <1>1, LaterLists
<1>6. \A a \in P : Lists(<<a>>, P, {a})
  <2> SUFFICES ASSUME NEW a \in P PROVE Lists(<<a>>, P, {a})
    OBVIOUS
  <2> HIDE DEF P
  <2> QED
    BY DEF Lists
<1>7. <<0, 0>> \in P /\ <<0, 1>> \in P
  OBVIOUS
<1>8. /\ {<<0, 0>>} \cap Of(0) = {} /\ ({<<0, 0>>} \cup Of(0)) \cap Of(1) = {}
      /\ (({<<0, 0>>} \cup Of(0)) \cup Of(1)) \cap {<<0, 1>>} = {}
      /\ ((({<<0, 0>>} \cup Of(0)) \cup Of(1)) \cup {<<0, 1>>}) \cap Third = {}
  OBVIOUS
<1> HIDE DEF kept
<1>9. Lists(ThirdRegs(c, g), P, Third)
  <2> HIDE DEF later, Of, P
  <2> QED
    BY <1>3, <1>5, AmongLists DEF Third
<1> HIDE DEF later, Of, P, Third, m
<1>10. Lists(<< <<0, 0>> >> \o later(0), P, {<<0, 0>>} \cup Of(0))
  <2>1. Lists(<< <<0, 0>> >>, P, {<<0, 0>>}) /\ Lists(later(0), P, Of(0))
    BY <1>5, <1>6, <1>7
  <2> QED
    BY <1>8, <2>1, ListBehindList
<1>11. Lists(<< <<0, 0>> >> \o later(0) \o later(1), P, ({<<0, 0>>} \cup Of(0)) \cup Of(1))
  BY <1>5, <1>8, <1>10, ListBehindList
<1>12. Lists(<< <<0, 0>> >> \o later(0) \o later(1) \o << <<0, 1>> >>, P,
             (({<<0, 0>>} \cup Of(0)) \cup Of(1)) \cup {<<0, 1>>})
  BY <1>6, <1>7, <1>8, <1>11, ListBehindList
<1>13. Lists(<< <<0, 0>> >> \o later(0) \o later(1) \o << <<0, 1>> >> \o ThirdRegs(c, g), P,
             ((({<<0, 0>>} \cup Of(0)) \cup Of(1)) \cup {<<0, 1>>}) \cup Third)
  BY <1>8, <1>9, <1>12, ListBehindList
<1> QED
  BY <1>2, <1>4, <1>13 DEF P

\* What is asked of a request and of a geometry.
AnyCell(c) == c.cell_id \in Nat /\ c.n_prb \in Nat

AnyControl(g) == g.control_symbol_count \in 1 .. 4

\* The REGs of one PRB, and those of the first PRBs.
InOnePrb(c, g, prb) == {r \in Triples : r[2] = prb /\ <<r[1], r[3]>> \in InPrb(c, g)}

\* RegsOfPrb has them, once.
LEMMA RegsOfPrbLists ==
  ASSUME NEW c, NEW g, AnyControl(g), NEW prb \in Nat
  PROVE  Lists(RegsOfPrb(c, g, prb), Triples, InOnePrb(c, g, prb))
<1> DEFINE one == PrbRegs(c, g)
           regs == [k \in DOMAIN one |-> <<one[k][1], prb, one[k][2]>>]
<1>1. Lists(one, Nat \X Nat, InPrb(c, g))
  BY PrbRegsLists DEF AnyControl
<1>2. RegsOfPrb(c, g, prb) = regs
  BY DEF RegsOfPrb
<1> HIDE DEF one
<1>3. /\ one \in Seq(Nat \X Nat)
      /\ \A i, j \in 1 .. Len(one) : one[i] = one[j] => i = j
      /\ \A x : x \in InPrb(c, g) <=> \E i \in 1 .. Len(one) : one[i] = x
  BY <1>1 DEF Lists
<1>4. PICK n \in Nat : n = Len(one) /\ DOMAIN one = 1 .. n
  BY <1>3
<1>5. \A k \in 1 .. n : one[k] \in Nat \X Nat
  BY <1>3, <1>4
<1>6. regs \in [1 .. n -> Triples] /\ \A k \in 1 .. n : regs[k] = <<one[k][1], prb, one[k][2]>>
  BY <1>4, <1>5 DEF Triples
<1> HIDE DEF regs
<1>7. regs \in Seq(Triples) /\ Len(regs) = n
  BY <1>6, SequenceOfNumbered
<1>8. ASSUME NEW i \in 1 .. n, NEW j \in 1 .. n, regs[i] = regs[j]
      PROVE  i = j
  <2>1. one[i][1] = one[j][1] /\ one[i][2] = one[j][2]
    BY <1>6, <1>8
  <2>2. one[i] = one[j]
    BY <1>5, <2>1
  <2> QED
    BY <1>3, <1>4, <2>2
<1>9. ASSUME NEW x
      PROVE  x \in InOnePrb(c, g, prb) <=> \E i \in 1 .. n : regs[i] = x
  <2>1. ASSUME x \in InOnePrb(c, g, prb)
        PROVE  \E i \in 1 .. n : regs[i] = x
    <3>1. x \in Triples /\ x[2] = prb /\ <<x[1], x[3]>> \in InPrb(c, g)
      BY <2>1 DEF InOnePrb
    <3>2. PICK i \in 1 .. n : one[i] = <<x[1], x[3]>>
      BY <1>3, <1>4, <3>1
    <3>3. regs[i] = <<x[1], prb, x[3]>>
      BY <1>6, <3>2
    <3>4. x = <<x[1], x[2], x[3]>>
      BY <3>1 DEF Triples
    <3> QED
      BY <3>1, <3>3, <3>4
  <2>2. ASSUME NEW i \in 1 .. n, regs[i] = x
        PROVE  x \in InOnePrb(c, g, prb)
    <3>1. x \in Triples /\ x[1] = one[i][1] /\ x[2] = prb /\ x[3] = one[i][2]
      BY <1>5, <1>6, <2>2 DEF Triples
    <3>2. <<x[1], x[3]>> = one[i]
      BY <1>5, <3>1
    <3>3. one[i] \in InPrb(c, g)
      BY <1>3, <1>4
    <3> QED
      BY <3>1, <3>2, <3>3 DEF InOnePrb
  <2> QED
    BY <2>1, <2>2
<1>10. Lists(regs, Triples, InOnePrb(c, g, prb))
  BY <1>4, <1>7, <1>8, <1>9 DEF Lists
<1> QED
  BY <1>2, <1>10

\* Lists of REGs, one for each PRB, are a list of those of all PRBs.
LEMMA PrbByPrb ==
  ASSUME NEW n \in Nat, NEW seqs, NEW A,
         DOMAIN seqs = 1 .. n, seqs = [i \in 1 .. n |-> seqs[i]],
         \A i \in 1 .. n : Lists(seqs[i], Triples, {r \in A : r[2] = i - 1}),
         \A r \in A : r \in Triples /\ r[2] < n
  PROVE  Lists(FlattenSeq(seqs), Triples, A)
<1> DEFINE M == [i \in 1 .. n |-> {r \in A : r[2] = i - 1}]
<1>1. \A i \in 1 .. n : M[i] = {r \in A : r[2] = i - 1}
  OBVIOUS
<1> HIDE DEF M
<1>2. seqs \in Seq(Seq(Triples)) /\ Len(seqs) = n
  <2>1. \A i \in 1 .. n : seqs[i] \in Seq(Triples)
    BY DEF Lists
  <2>2. seqs \in [1 .. n -> Seq(Triples)]
    BY <2>1
  <2> QED
    BY <2>2, SequenceOfNumbered
<1>3. \A i \in 1 .. Len(seqs) : Lists(seqs[i], Triples, M[i])
  BY <1>1, <1>2
<1>4. \A i, j \in 1 .. Len(seqs) : i # j => M[i] \cap M[j] = {}
  BY <1>1, <1>2
<1>5. Lists(FlattenSeq(seqs), Triples, AllOf(M, Len(seqs)))
  BY <1>2, <1>3, <1>4, JoinedLists
<1>6. AllOf(M, n) = A
  <2>1. ASSUME NEW r \in A PROVE \E i \in 1 .. n : r \in M[i]
    <3>1. r[2] \in Nat /\ r[2] < n
      BY DEF Triples
    <3>2. r[2] + 1 \in 1 .. n /\ (r[2] + 1) - 1 = r[2]
      BY <3>1
    <3> QED
      BY <1>1, <3>2
  <2>2. \A i \in 1 .. n : M[i] \subseteq A
    BY <1>1
  <2> QED
    BY <2>1, <2>2 DEF AllOf
<1> QED
  BY <1>2, <1>5, <1>6

\* AllRegs has the REGs of the region, once.
LEMMA AllRegsLists ==
  ASSUME NEW c, NEW g, AnyCell(c), AnyControl(g)
  PROVE  Lists(AllRegs(c, g), Triples, InRegion(c, g))
<1> DEFINE seqs == [i \in 1 .. c.n_prb |-> RegsOfPrb(c, g, i - 1)]
           A == InRegion(c, g)
<1>1. c.n_prb \in Nat
  BY DEF AnyCell
<1>2. AllRegs(c, g) = FlattenSeq(seqs)
  BY DEF AllRegs
<1>3. /\ DOMAIN seqs = 1 .. c.n_prb /\ seqs = [i \in 1 .. c.n_prb |-> seqs[i]]
      /\ \A i \in 1 .. c.n_prb : seqs[i] = RegsOfPrb(c, g, i - 1)
  OBVIOUS
<1> HIDE DEF seqs
<1>4. ASSUME NEW i \in 1 .. c.n_prb
      PROVE  Lists(seqs[i], Triples, {r \in A : r[2] = i - 1})
  <2>1. i - 1 \in Nat /\ i - 1 < c.n_prb
    BY <1>1
  <2>2. {r \in A : r[2] = i - 1} = InOnePrb(c, g, i - 1)
    BY <2>1 DEF InRegion, InOnePrb
  <2>3. Lists(RegsOfPrb(c, g, i - 1), Triples, InOnePrb(c, g, i - 1))
    BY <2>1, RegsOfPrbLists
  <2> HIDE DEF A
  <2> QED
    BY <1>3, <2>2, <2>3
<1>5. \A r \in A : r \in Triples /\ r[2] < c.n_prb
  BY DEF InRegion
<1> HIDE DEF A
<1>6. Lists(FlattenSeq(seqs), Triples, A)
  BY <1>1, <1>3, <1>4, <1>5, PrbByPrb
<1> QED
  BY <1>2, <1>6 DEF A

\* The REGs no element of which is reserved.
Unreserved(c, g) == {r \in InRegion(c, g) : RegElements(c, r) \cap reserved_res(c, g) = {}}

\* physical_regs has the unreserved ones, once.
LEMMA PhysicalRegsList ==
  ASSUME NEW c, NEW g, AnyCell(c), AnyControl(g)
  PROVE  Lists(physical_regs(c, g), Triples, Unreserved(c, g))
<1> DEFINE free(regs) == Among(regs, {reg \in Range(regs) : RegElements(c, reg) \cap reserved_res(c, g) = {}})
           seqs == [i \in 1 .. c.n_prb |-> free(RegsOfPrb(c, g, i - 1))]
           A == Unreserved(c, g)
<1>1. c.n_prb \in Nat
  BY DEF AnyCell
<1>2. physical_regs(c, g) = FlattenSeq(seqs)
  BY DEF physical_regs
<1>3. /\ DOMAIN seqs = 1 .. c.n_prb /\ seqs = [i \in 1 .. c.n_prb |-> seqs[i]]
      /\ \A i \in 1 .. c.n_prb : seqs[i] = free(RegsOfPrb(c, g, i - 1))
  OBVIOUS
<1> HIDE DEF seqs
<1>4. ASSUME NEW i \in 1 .. c.n_prb
      PROVE  Lists(seqs[i], Triples, {r \in A : r[2] = i - 1})
  <2>1. i - 1 \in Nat /\ i - 1 < c.n_prb
    BY <1>1
  <2>2. PICK regs : regs = RegsOfPrb(c, g, i - 1) /\ Lists(regs, Triples, InOnePrb(c, g, i - 1))
    BY <2>1, RegsOfPrbLists
  <2>3. Range(regs) = InOnePrb(c, g, i - 1)
    BY <2>2, RangeOfList
  <2> DEFINE K == {reg \in Range(regs) : RegElements(c, reg) \cap reserved_res(c, g) = {}}
  <2>4. Lists(Among(regs, K), Triples, InOnePrb(c, g, i - 1) \cap K)
    <3> HIDE DEF K
    <3> QED
      BY <2>2, AmongLists
  <2>5. InOnePrb(c, g, i - 1) \cap K = {r \in A : r[2] = i - 1}
    BY <2>1, <2>3 DEF InOnePrb, Unreserved, InRegion
  <2>6. seqs[i] = Among(regs, K)
    BY <1>3, <2>2
  <2> QED
    BY <2>4, <2>5, <2>6
<1>5. \A r \in A : r \in Triples /\ r[2] < c.n_prb
  BY DEF Unreserved, InRegion
<1> HIDE DEF A, free
<1>6. Lists(FlattenSeq(seqs), Triples, A)
  BY <1>1, <1>3, <1>4, <1>5, PrbByPrb
<1> QED
  BY <1>2, <1>6 DEF A

\* The receiver's shift undoes the transmitter's, and the other way round.
LEMMA ShiftUndone ==
  ASSUME NEW c, c.cell_id \in Nat, NEW n \in Nat \ {0}, NEW i \in 0 .. n - 1
  PROVE  /\ UnshiftFromRead(c, n, i) \in 0 .. n - 1
         /\ UnshiftFromRead(c, n, (i + c.cell_id) % n) = i
         /\ (UnshiftFromRead(c, n, i) + c.cell_id) % n = i
<1>1. PICK d \in 0 .. n - 1 : d = c.cell_id % n
  OBVIOUS
<1>2. \A k \in 0 .. n - 1 : UnshiftFromRead(c, n, k) = (k + n - d) % n
  BY <1>1 DEF UnshiftFromRead
<1>3. \A k \in 0 .. n - 1 : (k + n - d) % n = IF k + n - d < n THEN k + n - d ELSE k - d
  <2> SUFFICES ASSUME NEW k \in 0 .. n - 1
               PROVE  (k + n - d) % n = IF k + n - d < n THEN k + n - d ELSE k - d
    OBVIOUS
  <2>1. k + n - d \in Nat /\ k + n - d < 2 * n /\ (k + n - d) - n = k - d
    OBVIOUS
  <2> QED
    BY <2>1, AroundOnce
<1>4. \A k \in 0 .. n - 1 : (k + c.cell_id) % n = IF k + d < n THEN k + d ELSE k + d - n
  <2> SUFFICES ASSUME NEW k \in 0 .. n - 1
               PROVE  (k + c.cell_id) % n = IF k + d < n THEN k + d ELSE k + d - n
    OBVIOUS
  <2>1. (k + c.cell_id) % n = (k + d) % n
    BY <1>1, ShiftedAround
  <2>2. (k + d) % n = IF k + d < n THEN k + d ELSE k + d - n
    <3>1. PICK y \in Nat : y = k + d /\ y < 2 * n
      OBVIOUS
    <3>2. y % n = IF y < n THEN y ELSE y - n
      BY <3>1, AroundOnce
    <3> QED
      BY <3>1, <3>2
  <2> QED
    BY <2>1, <2>2
<1>5. PICK u \in 0 .. n - 1 : u = UnshiftFromRead(c, n, i) /\ u = IF i + n - d < n THEN i + n - d ELSE i - d
  <2>1. UnshiftFromRead(c, n, i) = IF i + n - d < n THEN i + n - d ELSE i - d
    BY <1>2, <1>3, Zenon
  <2>2. UnshiftFromRead(c, n, i) \in 0 .. n - 1
    BY <2>1
  <2> QED
    BY <2>1, <2>2
<1>6. PICK t \in 0 .. n - 1 : t = (i + c.cell_id) % n /\ t = IF i + d < n THEN i + d ELSE i + d - n
  BY <1>4
<1>7. UnshiftFromRead(c, n, t) = IF t + n - d < n THEN t + n - d ELSE t - d
  BY <1>2, <1>3
<1>8. (u + c.cell_id) % n = IF u + d < n THEN u + d ELSE u + d - n
  BY <1>4
<1>9. UnshiftFromRead(c, n, t) = i
  BY <1>6, <1>7
<1>10. (u + c.cell_id) % n = i
  BY <1>5, <1>8
<1> QED
  BY <1>5, <1>6, <1>9, <1>10

\* What the layout is made of: as many numbers in the read order as REGs, the
\* place of each number, and the REG it stands for.
LEMMA PlacesFound ==
  ASSUME NEW n \in Nat
  PROVE  LET order == ReadOrder(n)
         IN  /\ Len(order) = n
             /\ \A i \in 1 .. n : order[i] \in 0 .. n - 1
             /\ \A m \in 0 .. n - 1 : /\ (CHOOSE j \in 1 .. n : order[j] = m) \in 1 .. n
                                      /\ order[CHOOSE j \in 1 .. n : order[j] = m] = m
             /\ \A i, j \in 1 .. n : order[i] = order[j] => i = j
<1> DEFINE order == ReadOrder(n)
<1>1. Lists(order, Int, 0 .. n - 1)
  BY ReadOrderLists
<1> HIDE DEF order
<1>2. Len(order) = n
  <2>1. Cardinality(0 .. n - 1) = n
    BY FS_Interval
  <2>2. Cardinality(0 .. n - 1) = Len(order)
    BY <1>1, LengthOfList
  <2> QED
    BY <2>1, <2>2
<1>3. /\ \A i, j \in 1 .. n : order[i] = order[j] => i = j
      /\ \A x : x \in 0 .. n - 1 <=> \E i \in 1 .. n : order[i] = x
  BY <1>1, <1>2, Zenon DEF Lists
<1>4. \A m \in 0 .. n - 1 : /\ (CHOOSE j \in 1 .. n : order[j] = m) \in 1 .. n
                            /\ order[CHOOSE j \in 1 .. n : order[j] = m] = m
  BY <1>3, Zenon
<1>5. \A i \in 1 .. n : order[i] \in 0 .. n - 1
  BY <1>3, Zenon
<1> QED
  BY <1>2, <1>3, <1>4, <1>5 DEF order

\* Where the REG that is m-th in the layout was found.
FoundAt(c, n, m) == UnshiftFromRead(c, n, (CHOOSE j \in 1 .. n : ReadOrder(n)[j] = m - 1) - 1) + 1

\* Different REGs are found at different places, each where it was sent.
LEMMA FoundOnce ==
  ASSUME NEW c, c.cell_id \in Nat, NEW n \in Nat
  PROVE  /\ \A m \in 1 .. n : FoundAt(c, n, m) \in 1 .. n
         /\ \A m, l \in 1 .. n : FoundAt(c, n, m) = FoundAt(c, n, l) => m = l
         /\ \A i \in 1 .. n : /\ Transmitted(c, n)[i] \in 0 .. n - 1
                              /\ FoundAt(c, n, Transmitted(c, n)[i] + 1) = i
<1> DEFINE order == ReadOrder(n)
           place(m) == (CHOOSE j \in 1 .. n : order[j] = m) - 1
<1>1. /\ \A i \in 1 .. n : order[i] \in 0 .. n - 1
      /\ \A m \in 0 .. n - 1 : /\ (CHOOSE j \in 1 .. n : order[j] = m) \in 1 .. n
                               /\ order[CHOOSE j \in 1 .. n : order[j] = m] = m
      /\ \A i, j \in 1 .. n : order[i] = order[j] => i = j
  BY PlacesFound
<1>2. \A m : FoundAt(c, n, m) = UnshiftFromRead(c, n, place(m - 1)) + 1
  BY DEF FoundAt
<1>3. \A i \in 1 .. n : Transmitted(c, n)[i] = order[((i - 1 + c.cell_id) % n) + 1]
  BY DEF Transmitted
<1> HIDE DEF order
<1>4. \A m \in 0 .. n - 1 : place(m) \in 0 .. n - 1 /\ order[place(m) + 1] = m
  <2> SUFFICES ASSUME NEW m \in 0 .. n - 1 PROVE place(m) \in 0 .. n - 1 /\ order[place(m) + 1] = m
    OBVIOUS
  <2>1. PICK j \in 1 .. n : j = (CHOOSE i \in 1 .. n : order[i] = m) /\ order[j] = m
    BY <1>1
  <2> QED
    BY <2>1
<1> HIDE DEF place
<1>5. ASSUME NEW m \in 1 .. n
      PROVE  FoundAt(c, n, m) \in 1 .. n
  <2>1. m - 1 \in 0 .. n - 1 /\ n \in Nat \ {0}
    OBVIOUS
  <2>2. UnshiftFromRead(c, n, place(m - 1)) \in 0 .. n - 1
    BY <1>4, <2>1, ShiftUndone
  <2> QED
    BY <1>2, <2>2
<1>6. ASSUME NEW m \in 1 .. n, NEW l \in 1 .. n, FoundAt(c, n, m) = FoundAt(c, n, l)
      PROVE  m = l
  <2>1. m - 1 \in 0 .. n - 1 /\ l - 1 \in 0 .. n - 1 /\ n \in Nat \ {0}
    OBVIOUS
  <2>2. PICK p \in 0 .. n - 1, q \in 0 .. n - 1 : p = place(m - 1) /\ q = place(l - 1)
    BY <1>4, <2>1
  <2>3. PICK u \in 0 .. n - 1, v \in 0 .. n - 1 : u = UnshiftFromRead(c, n, p) /\ v = UnshiftFromRead(c, n, q)
    BY <2>1, ShiftUndone
  <2>4. u = v
    BY <1>2, <1>6, <2>2, <2>3
  <2>5. (u + c.cell_id) % n = p /\ (v + c.cell_id) % n = q
    BY <2>1, <2>3, ShiftUndone
  <2>6. p = q
    BY <2>4, <2>5
  <2>7. m - 1 = l - 1
    BY <1>4, <2>1, <2>2, <2>6
  <2> QED
    BY <2>7
<1>7. ASSUME NEW i \in 1 .. n
      PROVE  Transmitted(c, n)[i] \in 0 .. n - 1 /\ FoundAt(c, n, Transmitted(c, n)[i] + 1) = i
  <2>1. i - 1 \in 0 .. n - 1 /\ n \in Nat \ {0} /\ (i - 1) + 1 = i
    OBVIOUS
  <2>2. PICK t \in 0 .. n - 1 : t = (i - 1 + c.cell_id) % n
    <3>1. i - 1 + c.cell_id \in Nat
      OBVIOUS
    <3> QED
      BY <2>1, <3>1
  <2>3. PICK m \in 0 .. n - 1 : m = Transmitted(c, n)[i] /\ order[t + 1] = m
    <3>1. t + 1 \in 1 .. n
      OBVIOUS
    <3> QED
      BY <1>1, <1>3, <2>2, <3>1
  <2>4. place(m) = t
    <3>1. PICK p \in 0 .. n - 1 : p = place(m) /\ order[p + 1] = m
      BY <1>4
    <3>2. p + 1 \in 1 .. n /\ t + 1 \in 1 .. n
      OBVIOUS
    <3>3. p + 1 = t + 1
      BY <1>1, <2>3, <3>1, <3>2
    <3> QED
      BY <3>1, <3>3
  <2>5. UnshiftFromRead(c, n, t) = i - 1
    BY <2>1, <2>2, ShiftUndone
  <2>6. (m + 1) - 1 = m
    OBVIOUS
  <2>7. FoundAt(c, n, m + 1) = UnshiftFromRead(c, n, place(m)) + 1
    BY <1>2, <2>6
  <2> QED
    BY <2>1, <2>3, <2>4, <2>5, <2>7
<1> QED
  BY <1>5, <1>6, <1>7

\* The layout has whole CCEs, of REGs that are found.
LEMMA LayoutRead ==
  ASSUME NEW c, NEW g, NEW S, c.cell_id \in Nat, physical_regs(c, g) \in Seq(S)
  PROVE  LET regs == physical_regs(c, g)
             n == Len(regs)
             layout == pdcch_layout(c, g)
         IN  /\ layout \in Seq(S) /\ Len(layout) = RegsPerCce * (n \div RegsPerCce) /\ Len(layout) <= n
             /\ \A m \in 1 .. Len(layout) : layout[m] = regs[FoundAt(c, n, m)]
<1> DEFINE regs == physical_regs(c, g)
           n == Len(regs)
           size == RegsPerCce * (n \div RegsPerCce)
           place == [m \in 0 .. (n - 1) |-> (CHOOSE j \in 1 .. n : ReadOrder(n)[j] = m) - 1]
           logical == [m \in 1 .. n |-> regs[UnshiftFromRead(c, n, place[m - 1]) + 1]]
<1>1. n \in Nat /\ \A i \in 1 .. n : regs[i] \in S
  OBVIOUS
<1>2. pdcch_layout(c, g) = SubSeq(logical, 1, size)
  BY DEF pdcch_layout
<1> HIDE DEF regs
<1>3. PICK k \in Nat : k = n
  BY <1>1
<1>4. size \in Nat /\ size <= n
  BY <1>1 DEF RegsPerCce
<1> HIDE DEF size
<1>5. ASSUME NEW m \in 1 .. n
      PROVE  logical[m] = regs[FoundAt(c, n, m)] /\ logical[m] \in S
  <2>1. m - 1 \in 0 .. (n - 1)
    BY <1>1
  <2>2. place[m - 1] = (CHOOSE j \in 1 .. n : ReadOrder(n)[j] = m - 1) - 1
    BY <2>1
  <2> HIDE DEF place
  <2>3. logical[m] = regs[UnshiftFromRead(c, n, place[m - 1]) + 1]
    OBVIOUS
  <2>4. logical[m] = regs[FoundAt(c, n, m)]
    BY <2>2, <2>3 DEF FoundAt
  <2>5. FoundAt(c, n, m) \in 1 .. n
    BY <1>1, FoundOnce
  <2> QED
    BY <1>1, <2>4, <2>5
<1>6. logical \in Seq(S) /\ Len(logical) = n
  <2>1. logical \in [1 .. n -> S]
    <3>1. logical = [m \in 1 .. n |-> logical[m]]
      OBVIOUS
    <3> HIDE DEF logical
    <3> QED
      BY <1>5, <3>1
  <2> HIDE DEF logical
  <2> QED
    BY <1>1, <2>1, SequenceOfNumbered
<1> HIDE DEF logical, n
<1>7. /\ SubSeq(logical, 0 + 1, 0 + size) \in Seq(S) /\ Len(SubSeq(logical, 0 + 1, 0 + size)) = size
      /\ SubSeq(logical, 0 + 1, 0 + size) = [i \in 1 .. size |-> logical[0 + i]]
  <2>1. 0 + size <= Len(logical) /\ 0 \in Nat
    BY <1>4, <1>6
  <2> QED
    BY <1>4, <1>6, <2>1, PartOfSequence
<1>8. 0 + 1 = 1 /\ 0 + size = size /\ \A i \in 1 .. size : 0 + i = i
  BY <1>4
<1>9. SubSeq(logical, 1, size) \in Seq(S) /\ Len(SubSeq(logical, 1, size)) = size
  BY <1>7, <1>8
<1>10. \A i \in 1 .. size : SubSeq(logical, 1, size)[i] = logical[i]
  BY <1>7, <1>8
<1>11. \A i \in 1 .. size : i \in 1 .. n
  BY <1>1, <1>4
<1> QED
  BY <1>2, <1>4, <1>5, <1>9, <1>10, <1>11 DEF n, size, regs

\* A transmitter's REGs are found where it put them.
LEMMA TransmitterInverted ==
  ASSUME NEW c, NEW g, AnyCell(c), AnyControl(g)
  PROVE  InvertsTheTransmitter(c, g)
<1> DEFINE regs == physical_regs(c, g)
           layout == pdcch_layout(c, g)
           sent == Transmitted(c, Len(regs))
<1>1. regs \in Seq(Triples)
  BY PhysicalRegsList DEF Lists
<1>2. c.cell_id \in Nat
  BY DEF AnyCell
<1>3. PICK n \in Nat : n = Len(regs) /\ DOMAIN regs = 1 .. n
  BY <1>1
<1>4. /\ layout \in Seq(Triples) /\ Len(layout) <= n
      /\ \A m \in 1 .. Len(layout) : layout[m] = regs[FoundAt(c, n, m)]
  BY <1>1, <1>2, <1>3, LayoutRead
<1>5. \A i \in 1 .. n : sent[i] \in 0 .. n - 1 /\ FoundAt(c, n, sent[i] + 1) = i
  BY <1>2, <1>3, FoundOnce
<1> HIDE DEF regs, layout, sent
<1>6. ASSUME NEW i \in 1 .. n, sent[i] < Len(layout)
      PROVE  layout[sent[i] + 1] = regs[i]
  <2>1. sent[i] + 1 \in 1 .. Len(layout)
    <3>1. Len(layout) \in Nat /\ sent[i] \in Nat
      BY <1>4, <1>5
    <3> QED
      BY <1>6, <3>1
  <2> QED
    BY <1>4, <1>5, <2>1
<1> QED
  BY <1>3, <1>6 DEF InvertsTheTransmitter, regs, layout, sent

\* The layout has no REG twice.
LEMMA LayoutLists ==
  ASSUME NEW c, NEW g, AnyCell(c), AnyControl(g)
  PROVE  LET layout == pdcch_layout(c, g)
         IN  /\ layout \in Seq(Triples)
             /\ Len(layout) = RegsPerCce * (Len(layout) \div RegsPerCce)
             /\ \A i, j \in 1 .. Len(layout) : layout[i] = layout[j] => i = j
<1> DEFINE regs == physical_regs(c, g)
           layout == pdcch_layout(c, g)
<1>1. Lists(regs, Triples, Unreserved(c, g))
  BY PhysicalRegsList
<1>2. c.cell_id \in Nat
  BY DEF AnyCell
<1>3. regs \in Seq(Triples) /\ \A i, j \in 1 .. Len(regs) : regs[i] = regs[j] => i = j
  BY <1>1 DEF Lists
<1>4. PICK n \in Nat : n = Len(regs)
  BY <1>3
<1>5. /\ layout \in Seq(Triples) /\ Len(layout) <= n /\ Len(layout) = RegsPerCce * (n \div RegsPerCce)
      /\ \A m \in 1 .. Len(layout) : layout[m] = regs[FoundAt(c, n, m)]
  BY <1>2, <1>3, <1>4, LayoutRead
<1>6. /\ \A m \in 1 .. n : FoundAt(c, n, m) \in 1 .. n
      /\ \A m, l \in 1 .. n : FoundAt(c, n, m) = FoundAt(c, n, l) => m = l
  BY <1>2, FoundOnce
<1> HIDE DEF regs, layout
<1>7. \A i \in 1 .. Len(layout) : i \in 1 .. n
  BY <1>5
<1>8. ASSUME NEW i \in 1 .. Len(layout), NEW j \in 1 .. Len(layout), layout[i] = layout[j]
      PROVE  i = j
  <2>1. FoundAt(c, n, i) \in 1 .. Len(regs) /\ FoundAt(c, n, j) \in 1 .. Len(regs)
    BY <1>4, <1>6, <1>7
  <2>2. regs[FoundAt(c, n, i)] = regs[FoundAt(c, n, j)]
    BY <1>5, <1>8
  <2>3. FoundAt(c, n, i) = FoundAt(c, n, j)
    BY <1>3, <2>1, <2>2
  <2> QED
    BY <1>6, <1>7, <2>3
<1>9. Len(layout) = RegsPerCce * (Len(layout) \div RegsPerCce)
  <2>1. PICK q \in Nat : q = n \div RegsPerCce
    BY DEF RegsPerCce
  <2>2. Len(layout) = 9 * q
    BY <1>5, <2>1 DEF RegsPerCce
  <2> QED
    BY <2>2 DEF RegsPerCce
<1> QED
  BY <1>5, <1>8, <1>9 DEF layout

\* Candidates stay inside the layout.
LEMMA CandidatesReadInside ==
  ASSUME NEW c, NEW g, AnyCell(c), AnyControl(g)
  PROVE  ReadsInside(c, g)
<1> DEFINE layout == pdcch_layout(c, g)
<1>1. /\ layout \in Seq(Triples)
      /\ Len(layout) = RegsPerCce * (Len(layout) \div RegsPerCce)
      /\ \A i, j \in 1 .. Len(layout) : layout[i] = layout[j] => i = j
  BY LayoutLists
<1> HIDE DEF layout
<1>2. PICK n_cce \in Nat : n_cce = Len(layout) \div RegsPerCce /\ Len(layout) = 9 * n_cce
  <2>1. Len(layout) \in Nat
    BY <1>1
  <2>2. Len(layout) \div 9 \in Nat
    BY <2>1
  <2> QED
    BY <1>1, <2>2 DEF RegsPerCce
<1>3. ASSUME NEW cand \in common_search_candidates(layout)
      PROVE  /\ RegsPerCce * (cand.first_cce + cand.level) <= Len(layout)
             /\ Cardinality({candidate_regs(layout, cand)[i] : i \in DOMAIN candidate_regs(layout, cand)})
                  = RegsPerCce * cand.level
  <2>1. PICK level \in {4, 8}, k \in Nat :
          /\ cand.level = level /\ cand.first_cce = level * k /\ k <= (n_cce \div level) - 1
    <3>1. CASE cand \in [first_cce : {4 * i : i \in 0 .. (Lesser(4, n_cce \div 4) - 1)}, level : {4}]
      <4>1. cand.level = 4 /\ \E i \in 0 .. (Lesser(4, n_cce \div 4) - 1) : cand.first_cce = 4 * i
        BY <3>1
      <4>2. Lesser(4, n_cce \div 4) <= n_cce \div 4 /\ Lesser(4, n_cce \div 4) \in Int /\ n_cce \div 4 \in Nat
        BY DEF Lesser
      <4> QED
        BY <4>1, <4>2
    <3>2. CASE cand \in [first_cce : {8 * i : i \in 0 .. (Lesser(2, n_cce \div 8) - 1)}, level : {8}]
      <4>1. cand.level = 8 /\ \E i \in 0 .. (Lesser(2, n_cce \div 8) - 1) : cand.first_cce = 8 * i
        BY <3>2
      <4>2. Lesser(2, n_cce \div 8) <= n_cce \div 8 /\ Lesser(2, n_cce \div 8) \in Int /\ n_cce \div 8 \in Nat
        BY DEF Lesser
      <4> QED
        BY <4>1, <4>2
    <3> QED
      BY <1>2, <1>3, <3>1, <3>2 DEF common_search_candidates
  <2>2. PICK first \in Nat : first = cand.first_cce /\ first + level <= n_cce
    <3>1. CASE level = 4
      BY <2>1, <3>1
    <3>2. CASE level = 8
      BY <2>1, <3>2
    <3> QED
      BY <3>1, <3>2
  <2>3. RegsPerCce * (cand.first_cce + cand.level) <= Len(layout)
    BY <1>2, <2>1, <2>2 DEF RegsPerCce
  <2>4. PICK a \in Nat, m \in Nat : a = 9 * first /\ m = 9 * level /\ a + m <= Len(layout)
    BY <1>2, <2>2
  <2>5. candidate_regs(layout, cand) = SubSeq(layout, a + 1, a + m)
    <3>1. RegsPerCce * cand.first_cce + 1 = a + 1 /\ RegsPerCce * (cand.first_cce + cand.level) = a + m
      BY <2>1, <2>2, <2>4 DEF RegsPerCce
    <3> QED
      BY <3>1 DEF candidate_regs
  <2> DEFINE part == SubSeq(layout, a + 1, a + m)
  <2>6. Cardinality({part[i] : i \in DOMAIN part}) = m
    BY <1>1, <2>4, CountOfPart
  <2>7. RegsPerCce * cand.level = m
    BY <2>1, <2>4 DEF RegsPerCce
  <2> QED
    BY <2>3, <2>5, <2>6, <2>7
<1> QED
  BY <1>3 DEF ReadsInside, layout

\* A layout is a permutation of the unreserved REGs, cut to whole CCEs: every
\* logical REG is found where a transmitter puts it, and every candidate of the
\* common search space reads whole CCEs of the region, no REG twice, in every
\* cell and under every geometry (mmse_equalizer_cpu.cpp:587,
\* pdcch_module_api.h:782).
THEOREM LayoutsAreRead == Spec => []CandidatesReadWhatWasSent
<1>1. ASSUME NEW c \in Cells, NEW g \in geometries(c.n_prb)
      PROVE  InvertsTheTransmitter(c, g) /\ ReadsInside(c, g)
  <2>1. AnyCell(c)
    BY CellsAssumption DEF AnyCell
  <2>2. AnyControl(g)
    BY DEF AnyControl, geometries, max_control_symbols
  <2> QED
    BY <2>1, <2>2, TransmitterInverted, CandidatesReadInside
<1>2. SoundReading = Cells
  BY <1>1 DEF SoundReading
<1>3. TypeOK => CandidatesReadWhatWasSent
  BY <1>2 DEF TypeOK, CandidatesReadWhatWasSent
<1> QED
  BY <1>3, TypeInvariance, PTL

-----------------------------------------------------------------------------
(* The order of the REGs, and what the reservations cost. *)

\* A selection that keeps every member is the whole.
LEMMA AmongAll ==
  ASSUME NEW S, NEW s \in Seq(S), NEW A, \A i \in 1 .. Len(s) : s[i] \in A
  PROVE  Among(s, A) = s
<1> DEFINE parts == [i \in DOMAIN s |-> IF s[i] \in A THEN <<s[i]>> ELSE <<>>]
<1>1. PICK n \in Nat : n = Len(s) /\ DOMAIN s = 1 .. n /\ s \in [1 .. n -> S]
  <2>1. Len(s) \in Nat /\ DOMAIN s = 1 .. Len(s) /\ s \in [1 .. Len(s) -> S]
    OBVIOUS
  <2> QED
    BY <2>1
<1>2. \A i \in 1 .. n : parts[i] = <<s[i]>>
  BY <1>1
<1>3. Among(s, A) = FlattenSeq(parts)
  BY DEF Among
<1>4. parts = [i \in 1 .. n |-> parts[i]]
  BY <1>1
<1> HIDE DEF parts
<1>5. \A i \in 1 .. n : parts[i] \in Seq(S) /\ Len(parts[i]) = 1 /\ parts[i][1] = s[i]
  <2> SUFFICES ASSUME NEW i \in 1 .. n
               PROVE  parts[i] \in Seq(S) /\ Len(parts[i]) = 1 /\ parts[i][1] = s[i]
    OBVIOUS
  <2>1. PICK x \in S : x = s[i]
    BY <1>1
  <2>2. <<x>> \in Seq(S) /\ Len(<<x>>) = 1 /\ <<x>>[1] = x
    OBVIOUS
  <2>3. parts[i] = <<x>>
    BY <1>2, <2>1
  <2> QED
    BY <2>1, <2>2, <2>3
<1>6. parts \in Seq(Seq(S)) /\ Len(parts) = n
  <2>1. parts \in [1 .. n -> Seq(S)]
    BY <1>4, <1>5
  <2> QED
    BY <2>1, SequenceOfNumbered
<1>7. /\ FlattenSeq(parts) \in Seq(S) /\ Len(FlattenSeq(parts)) = n * 1
      /\ \A i \in 1 .. n : \A j \in 1 .. 1 : FlattenSeq(parts)[(i - 1) * 1 + j] = parts[i][j]
  <2>1. 1 \in Nat /\ \A i \in 1 .. Len(parts) : Len(parts[i]) = 1
    BY <1>5, <1>6
  <2>2. /\ FlattenSeq(parts) \in Seq(S) /\ Len(FlattenSeq(parts)) = Len(parts) * 1
        /\ \A i \in 1 .. Len(parts) : \A j \in 1 .. 1 :
             FlattenSeq(parts)[(i - 1) * 1 + j] = parts[i][j]
    BY <1>6, <2>1, FlattenedParts
  <2> QED
    BY <1>6, <2>2, Zenon
<1>8. \A i \in 1 .. n : FlattenSeq(parts)[i] = s[i]
  <2> SUFFICES ASSUME NEW i \in 1 .. n PROVE FlattenSeq(parts)[i] = s[i]
    OBVIOUS
  <2>1. (i - 1) * 1 + 1 = i /\ 1 \in 1 .. 1
    OBVIOUS
  <2> QED
    BY <1>5, <1>7, <2>1
<1> DEFINE all == FlattenSeq(parts)
<1>9. all \in [1 .. n -> S]
  <2>1. Len(all) = n
    BY <1>7
  <2> HIDE DEF all
  <2> QED
    BY <1>7, <2>1, LenProperties DEF all
<1> HIDE DEF all
<1>10. all = s
  BY <1>1, <1>8, <1>9 DEF all
<1> QED
  BY <1>3, <1>10 DEF all

\* One entry, twice m, one and again m, one behind the other.
ByPlaces(v, P, m, x, a, b, y, d) ==
  /\ v \in Seq(P) /\ Len(v) = 3 * m + 2 /\ v[1] = x /\ v[2 * m + 2] = y
  /\ \A i \in 1 .. m : v[1 + i] = a[i] /\ v[m + 1 + i] = b[i] /\ v[2 * m + 2 + i] = d[i]

\* Five parts in that order are such a sequence.
LEMMA FiveParts ==
  ASSUME NEW P, NEW m \in Nat, NEW x \in P, NEW y \in P,
         NEW a \in [1 .. m -> P], NEW b \in [1 .. m -> P], NEW d \in [1 .. m -> P]
  PROVE  ByPlaces(<<x>> \o a \o b \o <<y>> \o d, P, m, x, a, b, y, d)
<1>1. PICK k \in Nat, l \in Nat, n \in Nat : k = 1 + m /\ l = k + m /\ n = l + 1
  OBVIOUS
<1>2. PICK s : s = <<x>> \o a
  OBVIOUS
<1>3. <<x>> \in [1 .. 1 -> P] /\ <<x>>[1] = x /\ <<y>> \in [1 .. 1 -> P] /\ <<y>>[1] = y /\ 1 \in Nat /\ 1 \in 1 .. 1
  OBVIOUS
<1>4. s \in [1 .. k -> P] /\ s[1] = x /\ \A i \in 1 .. m : s[1 + i] = a[i]
  <2>1. OneWord(s, P, 1, <<x>>, m, a)
    BY <1>2, <1>3, OneBehindTheOther DEF TwoWords
  <2> QED
    BY <1>1, <1>3, <2>1, Zenon DEF OneWord
<1>5. PICK t : t = s \o b
  OBVIOUS
<1>6. /\ t \in [1 .. l -> P]
      /\ \A i \in 1 .. k : t[i] = s[i]
      /\ \A i \in 1 .. m : t[k + i] = b[i]
  <2>1. OneWord(t, P, k, s, m, b)
    BY <1>4, <1>5, OneBehindTheOther DEF TwoWords
  <2> QED
    BY <1>1, <2>1, Zenon DEF OneWord
<1>7. PICK u : u = t \o <<y>>
  OBVIOUS
<1>8. u \in [1 .. n -> P] /\ (\A i \in 1 .. l : u[i] = t[i]) /\ u[n] = y
  <2>1. OneWord(u, P, l, t, 1, <<y>>)
    BY <1>3, <1>6, <1>7, OneBehindTheOther DEF TwoWords
  <2>2. u[l + 1] = y
    BY <1>3, <2>1, Zenon DEF OneWord
  <2> QED
    BY <1>1, <2>1, <2>2, Zenon DEF OneWord
<1>9. PICK v : v = u \o d
  OBVIOUS
<1>10. /\ v \in Seq(P) /\ Len(v) = n + m
       /\ \A i \in 1 .. n : v[i] = u[i]
       /\ \A i \in 1 .. m : v[n + i] = d[i]
  <2>1. OneWord(v, P, n, u, m, d)
    BY <1>8, <1>9, OneBehindTheOther DEF TwoWords
  <2> QED
    BY <2>1, Zenon DEF OneWord
<1>11. /\ 1 \in 1 .. k /\ 1 \in 1 .. l /\ 1 \in 1 .. n /\ n \in 1 .. n
       /\ \A i \in 1 .. m : /\ 1 + i \in 1 .. k /\ 1 + i \in 1 .. l /\ 1 + i \in 1 .. n
                            /\ k + i \in 1 .. l /\ k + i \in 1 .. n
  BY <1>1
<1>12. v[1] = x /\ v[n] = y
  BY <1>4, <1>6, <1>8, <1>10, <1>11
<1>13. ASSUME NEW i \in 1 .. m
       PROVE  v[1 + i] = a[i] /\ v[k + i] = b[i] /\ v[n + i] = d[i]
  <2>1. v[1 + i] = a[i]
    BY <1>4, <1>6, <1>8, <1>10, <1>11
  <2>2. v[k + i] = b[i]
    BY <1>6, <1>8, <1>10, <1>11
  <2> QED
    BY <1>10, <2>1, <2>2
<1>14. n = 2 * m + 2 /\ n + m = 3 * m + 2 /\ \A i \in 1 .. m : m + 1 + i = k + i
  BY <1>1
<1>15. v = <<x>> \o a \o b \o <<y>> \o d
  BY <1>2, <1>5, <1>7, <1>9
<1>16. ByPlaces(v, P, m, x, a, b, y, d)
  <2>1. \A i \in 1 .. m : v[m + 1 + i] = b[i] /\ v[2 * m + 2 + i] = d[i]
    BY <1>13, <1>14
  <2>2. v[2 * m + 2] = y /\ Len(v) = 3 * m + 2
    BY <1>10, <1>12, <1>14
  <2> QED
    BY <1>10, <1>12, <1>13, <2>1, <2>2 DEF ByPlaces
<1> QED
  BY <1>15, <1>16

\* The REGs of a PRB by their places, with up to two ports: m later symbols.
LEMMA PrbRegsByPlace ==
  ASSUME NEW c, NEW g, c.n_tx_ports \in Nat, c.n_tx_ports <= 2,
         NEW m \in 0 .. 3, g.control_symbol_count - 1 = m
  PROVE  LET one == PrbRegs(c, g)
             later(k) == [i \in 1 .. m |-> <<i, k>>]
         IN  ByPlaces(one, Nat \X Nat, m, <<0, 0>>, later(0), later(1), <<0, 1>>, later(2))
<1> DEFINE P == Nat \X Nat
           later(k) == [i \in 1 .. m |-> <<i, k>>]
           kept == {<<i, 2>> : i \in {i \in 1 .. 3 : ~crs_symbol_used(c, i)}}
           one == PrbRegs(c, g)
<1>1. \A k \in 0 .. 2 : later(k) \in [1 .. m -> P] /\ \A i \in 1 .. m : later(k)[i] = <<i, k>>
  OBVIOUS
<1>2. ThirdRegs(c, g) = later(2)
  <2>1. ThirdRegs(c, g) = Among(later(2), kept)
    BY DEF ThirdRegs
  <2>2. \A i \in 1 .. m : later(2)[i] \in kept
    BY DEF crs_symbol_used
  <2> HIDE DEF kept, later, P
  <2>3. later(2) \in Seq(P) /\ Len(later(2)) = m
    BY <1>1, SequenceOfNumbered
  <2> QED
    BY <2>1, <2>2, <2>3, AmongAll
<1>3. one = << <<0, 0>> >> \o later(0) \o later(1) \o << <<0, 1>> >> \o later(2)
  BY <1>2 DEF PrbRegs
<1>4. <<0, 0>> \in P /\ <<0, 1>> \in P /\ m \in Nat
  OBVIOUS
<1> HIDE DEF later, P, kept, one
<1>5. later(0) \in [1 .. m -> P] /\ later(1) \in [1 .. m -> P] /\ later(2) \in [1 .. m -> P]
  <2>1. 0 \in 0 .. 2 /\ 1 \in 0 .. 2 /\ 2 \in 0 .. 2
    OBVIOUS
  <2> QED
    BY <1>1, <2>1, Zenon
<1>6. ByPlaces(one, P, m, <<0, 0>>, later(0), later(1), <<0, 1>>, later(2))
  BY <1>3, <1>4, <1>5, FiveParts
<1> QED
  BY <1>6 DEF P, one, later

\* The lowest tone of a REG in its PRB, with up to two ports.
ToneInPrb(r) == (IF r[1] = 0 THEN 6 ELSE 4) * r[2]

\* Within a PRB the REGs are visited by their lowest tones, then by symbol.
LEMMA PrbByTones ==
  ASSUME NEW c, NEW g, AnyControl(g), c.n_tx_ports \in Nat, c.n_tx_ports <= 2
  PROVE  LET one == PrbRegs(c, g)
         IN  \A i, j \in 1 .. Len(one) :
               /\ one[i] \in Nat \X Nat /\ ToneInPrb(one[i]) \in 0 .. 8
               /\ i < j => \/ ToneInPrb(one[i]) < ToneInPrb(one[j])
                           \/ ToneInPrb(one[i]) = ToneInPrb(one[j]) /\ one[i][1] < one[j][1]
<1>1. PICK m \in 0 .. 3 : g.control_symbol_count - 1 = m
  BY DEF AnyControl
<1> DEFINE one == PrbRegs(c, g)
<1>2. /\ one \in Seq(Nat \X Nat) /\ Len(one) = 3 * m + 2
      /\ one[1] = <<0, 0>> /\ one[2 * m + 2] = <<0, 1>>
      /\ \A i \in 1 .. m : one[1 + i] = <<i, 0>> /\ one[m + 1 + i] = <<i, 1>> /\ one[2 * m + 2 + i] = <<i, 2>>
  <2> DEFINE later(k) == [i \in 1 .. m |-> <<i, k>>]
  <2>1. ByPlaces(one, Nat \X Nat, m, <<0, 0>>, later(0), later(1), <<0, 1>>, later(2))
    BY <1>1, PrbRegsByPlace
  <2>2. \A i \in 1 .. m : later(0)[i] = <<i, 0>> /\ later(1)[i] = <<i, 1>> /\ later(2)[i] = <<i, 2>>
    OBVIOUS
  <2> HIDE DEF later
  <2> QED
    BY <2>1, <2>2, Zenon DEF ByPlaces
<1> HIDE DEF one
<1> DEFINE Place(i, sym, k) ==
             \/ i = 1 /\ sym = 0 /\ k = 0
             \/ i = 1 + sym /\ sym \in 1 .. m /\ k = 0
             \/ i = m + 1 + sym /\ sym \in 1 .. m /\ k = 1
             \/ i = 2 * m + 2 /\ sym = 0 /\ k = 1
             \/ i = 2 * m + 2 + sym /\ sym \in 1 .. m /\ k = 2
<1>3. ASSUME NEW i \in 1 .. 3 * m + 2
      PROVE  \E sym \in 0 .. 3, k \in 0 .. 2 : Place(i, sym, k) /\ one[i] = <<sym, k>>
  <2>1. CASE i = 1
    BY <1>2, <2>1
  <2>2. CASE i = 2 * m + 2
    BY <1>2, <2>2
  <2>3. CASE i \in 2 .. m + 1
    <3>1. PICK s \in 1 .. m : i = 1 + s
      BY <2>3
    <3>2. s \in 0 .. 3 /\ 0 \in 0 .. 2
      OBVIOUS
    <3>3. one[i] = <<s, 0>>
      BY <1>2, <3>1, Zenon
    <3> QED
      BY <3>1, <3>2, <3>3
  <2>4. CASE i \in m + 2 .. 2 * m + 1
    <3>1. PICK s \in 1 .. m : i = m + 1 + s
      <4>1. i - (m + 1) \in 1 .. m /\ i = m + 1 + (i - (m + 1))
        BY <2>4
      <4> QED
        BY <4>1
    <3>2. s \in 0 .. 3 /\ 1 \in 0 .. 2
      OBVIOUS
    <3>3. one[i] = <<s, 1>>
      BY <1>2, <3>1, Zenon
    <3> QED
      BY <3>1, <3>2, <3>3
  <2>5. CASE i \in 2 * m + 3 .. 3 * m + 2
    <3>1. PICK s \in 1 .. m : i = 2 * m + 2 + s
      <4>1. i - (2 * m + 2) \in 1 .. m /\ i = 2 * m + 2 + (i - (2 * m + 2))
        BY <2>5
      <4> QED
        BY <4>1
    <3>2. s \in 0 .. 3 /\ 2 \in 0 .. 2
      OBVIOUS
    <3>3. one[i] = <<s, 2>>
      BY <1>2, <3>1, Zenon
    <3> QED
      BY <3>1, <3>2, <3>3
  <2> QED
    BY <2>1, <2>2, <2>3, <2>4, <2>5
<1>4. ASSUME NEW s \in 0 .. 3, NEW k \in 0 .. 2
      PROVE  ToneInPrb(<<s, k>>) = IF s = 0 THEN 6 * k ELSE 4 * k
  BY DEF ToneInPrb
<1>5. ASSUME NEW i \in 1 .. 3 * m + 2, NEW j \in 1 .. 3 * m + 2
      PROVE  /\ one[i] \in Nat \X Nat /\ ToneInPrb(one[i]) \in 0 .. 8
             /\ i < j => \/ ToneInPrb(one[i]) < ToneInPrb(one[j])
                         \/ ToneInPrb(one[i]) = ToneInPrb(one[j]) /\ one[i][1] < one[j][1]
  <2>1. PICK s \in 0 .. 3, k \in 0 .. 2 : Place(i, s, k) /\ one[i] = <<s, k>>
    BY <1>3
  <2>2. PICK t \in 0 .. 3, l \in 0 .. 2 : Place(j, t, l) /\ one[j] = <<t, l>>
    BY <1>3
  <2>3. PICK x \in Int, y \in Int : /\ x = ToneInPrb(one[i]) /\ x = IF s = 0 THEN 6 * k ELSE 4 * k
                                    /\ y = ToneInPrb(one[j]) /\ y = IF t = 0 THEN 6 * l ELSE 4 * l
    BY <1>4, <2>1, <2>2
  <2>4. one[i][1] = s /\ one[j][1] = t /\ one[i] \in Nat \X Nat
    BY <2>1, <2>2
  <2>5. x \in 0 .. 8
    BY <2>1, <2>3
  <2>6. i < j => x < y \/ (x = y /\ s < t)
    BY <2>1, <2>2, <2>3
  <2> QED
    BY <2>3, <2>4, <2>5, <2>6
<1> QED
  BY <1>2, <1>5 DEF one

\* The REGs of a region, by PRB and place.
LEMMA AllRegsByPlace ==
  ASSUME NEW c, NEW g, AnyControl(g), c.n_prb \in Nat
  PROVE  LET one == PrbRegs(c, g)
             m == Len(one)
             all == AllRegs(c, g)
         IN  /\ m \in Nat /\ all \in Seq(Triples) /\ Len(all) = c.n_prb * m
             /\ \A i \in 1 .. c.n_prb : \A j \in 1 .. m :
                  all[(i - 1) * m + j] = <<one[j][1], i - 1, one[j][2]>>
<1> DEFINE one == PrbRegs(c, g)
           seqs == [i \in 1 .. c.n_prb |-> RegsOfPrb(c, g, i - 1)]
<1>1. one \in Seq(Nat \X Nat)
  BY PrbRegsLists DEF AnyControl, Lists
<1>2. AllRegs(c, g) = FlattenSeq(seqs)
  BY DEF AllRegs
<1>3. \A prb : RegsOfPrb(c, g, prb) = [k \in DOMAIN one |-> <<one[k][1], prb, one[k][2]>>]
  BY DEF RegsOfPrb
<1> HIDE DEF one
<1>4. PICK m \in Nat : m = Len(one) /\ DOMAIN one = 1 .. m
  BY <1>1
<1>5. \A k \in 1 .. m : one[k] \in Nat \X Nat
  BY <1>1, <1>4
<1>6. \A i \in 1 .. c.n_prb : /\ seqs[i] \in [1 .. m -> Triples]
                              /\ \A k \in 1 .. m : seqs[i][k] = <<one[k][1], i - 1, one[k][2]>>
  <2> SUFFICES ASSUME NEW i \in 1 .. c.n_prb
               PROVE  /\ seqs[i] \in [1 .. m -> Triples]
                      /\ \A k \in 1 .. m : seqs[i][k] = <<one[k][1], i - 1, one[k][2]>>
    OBVIOUS
  <2>1. PICK p \in Nat : p = i - 1
    OBVIOUS
  <2>2. seqs[i] = [k \in 1 .. m |-> <<one[k][1], p, one[k][2]>>]
    BY <1>3, <1>4, <2>1
  <2> HIDE DEF seqs
  <2>3. \A k \in 1 .. m : <<one[k][1], p, one[k][2]>> \in Triples
    BY <1>5 DEF Triples
  <2> QED
    BY <2>1, <2>2, <2>3
<1>7. seqs = [i \in 1 .. c.n_prb |-> seqs[i]]
  OBVIOUS
<1> HIDE DEF seqs
<1>8. \A i \in 1 .. c.n_prb : seqs[i] \in Seq(Triples) /\ Len(seqs[i]) = m
  BY <1>6, SequenceOfNumbered
<1>9. seqs \in Seq(Seq(Triples)) /\ Len(seqs) = c.n_prb
  <2>1. seqs \in [1 .. c.n_prb -> Seq(Triples)]
    BY <1>7, <1>8
  <2> QED
    BY <2>1, SequenceOfNumbered
<1>10. /\ FlattenSeq(seqs) \in Seq(Triples) /\ Len(FlattenSeq(seqs)) = c.n_prb * m
       /\ \A i \in 1 .. c.n_prb : \A j \in 1 .. m : FlattenSeq(seqs)[(i - 1) * m + j] = seqs[i][j]
  <2>1. m \in Nat /\ \A i \in 1 .. Len(seqs) : Len(seqs[i]) = m
    BY <1>8, <1>9
  <2>2. /\ FlattenSeq(seqs) \in Seq(Triples) /\ Len(FlattenSeq(seqs)) = Len(seqs) * m
        /\ \A i \in 1 .. Len(seqs) : \A j \in 1 .. m :
             FlattenSeq(seqs)[(i - 1) * m + j] = seqs[i][j]
    BY <1>9, <2>1, FlattenedParts
  <2> QED
    BY <1>9, <2>2, Zenon
<1> QED
  BY <1>2, <1>4, <1>6, <1>10 DEF one

\* REGs are numbered as in the standard.
LEMMA NumberedTimeFirst ==
  ASSUME NEW c, NEW g, AnyControl(g), c.n_prb \in Nat, c.n_tx_ports \in Nat, c.n_tx_ports <= 2
  PROVE  TimeFirst(c, AllRegs(c, g))
<1> DEFINE one == PrbRegs(c, g)
           all == AllRegs(c, g)
<1>1. PICK m \in Nat : /\ m = Len(one) /\ all \in Seq(Triples) /\ Len(all) = c.n_prb * m
                       /\ \A i \in 1 .. c.n_prb : \A j \in 1 .. m :
                            all[(i - 1) * m + j] = <<one[j][1], i - 1, one[j][2]>>
  BY AllRegsByPlace
<1>2. \A i, j \in 1 .. m :
        /\ one[i] \in Nat \X Nat /\ ToneInPrb(one[i]) \in 0 .. 8
        /\ i < j => \/ ToneInPrb(one[i]) < ToneInPrb(one[j])
                    \/ ToneInPrb(one[i]) = ToneInPrb(one[j]) /\ one[i][1] < one[j][1]
  BY <1>1, PrbByTones
<1> HIDE DEF one, all
<1>3. \A x \in Nat \X Nat : \A p \in Nat : LowestTone(c, <<x[1], p, x[2]>>) = 12 * p + ToneInPrb(x)
  BY DEF LowestTone, ToneInPrb, crs_symbol_used
<1>4. ASSUME NEW i \in 1 .. c.n_prb * m
      PROVE  \E p \in 0 .. c.n_prb - 1, a \in 1 .. m :
               /\ i = p * m + a /\ LowestTone(c, all[i]) = 12 * p + ToneInPrb(one[a])
               /\ all[i][1] = one[a][1]
  <2>1. PICK q \in 1 .. c.n_prb, a \in 1 .. m : i = (q - 1) * m + a
    <3>1. PICK n \in Nat : n = c.n_prb
      OBVIOUS
    <3>2. i \in 1 .. n * m
      BY <3>1
    <3>3. /\ (i - 1) \div m + 1 \in 1 .. n /\ ((i - 1) % m) + 1 \in 1 .. m
          /\ i = (((i - 1) \div m + 1) - 1) * m + (((i - 1) % m) + 1)
      BY <3>2, PlaceInParts
    <3> QED
      BY <3>1, <3>3
  <2>2. PICK p \in 0 .. c.n_prb - 1 : p = q - 1
    OBVIOUS
  <2>3. all[i] = <<one[a][1], p, one[a][2]>>
    BY <1>1, <2>1, <2>2
  <2>4. LowestTone(c, all[i]) = 12 * p + ToneInPrb(one[a])
    BY <1>2, <1>3, <2>3
  <2> QED
    BY <2>1, <2>2, <2>3, <2>4
<1>5. ASSUME NEW i \in 1 .. c.n_prb * m, NEW j \in 1 .. c.n_prb * m, i < j
      PROVE  \/ LowestTone(c, all[i]) < LowestTone(c, all[j])
             \/ LowestTone(c, all[i]) = LowestTone(c, all[j]) /\ all[i][1] < all[j][1]
  <2>1. PICK p \in 0 .. c.n_prb - 1, a \in 1 .. m :
          /\ i = p * m + a /\ LowestTone(c, all[i]) = 12 * p + ToneInPrb(one[a])
          /\ all[i][1] = one[a][1]
    BY <1>4
  <2>2. PICK q \in 0 .. c.n_prb - 1, b \in 1 .. m :
          /\ j = q * m + b /\ LowestTone(c, all[j]) = 12 * q + ToneInPrb(one[b])
          /\ all[j][1] = one[b][1]
    BY <1>4
  <2>3. p < q \/ (p = q /\ a < b)
    <3>1. p * m + a < q * m + b
      BY <1>5, <2>1, <2>2
    <3> QED
      BY <3>1, PlacesInOrder
  <2>4. PICK x \in 0 .. 8, y \in 0 .. 8 : x = ToneInPrb(one[a]) /\ y = ToneInPrb(one[b])
    BY <1>2
  <2>5. CASE p < q
    <3>1. 12 * p + x < 12 * q + y
      BY <2>4, <2>5
    <3> QED
      BY <2>1, <2>2, <2>4, <3>1
  <2>6. CASE p = q
    <3>1. a < b
      BY <2>3, <2>6
    <3>2. x < y \/ (x = y /\ one[a][1] < one[b][1])
      BY <1>2, <2>4, <3>1
    <3>3. \/ 12 * p + x < 12 * q + y
          \/ 12 * p + x = 12 * q + y /\ one[a][1] < one[b][1]
      BY <2>6, <3>2
    <3> QED
      BY <2>1, <2>2, <2>4, <3>3
  <2> QED
    BY <2>3, <2>5, <2>6
<1>6. DOMAIN all = 1 .. c.n_prb * m
  BY <1>1
<1> QED
  BY <1>5, <1>6 DEF TimeFirst, all

\* A cell and a geometry in which the reservations fit.
Reservable(c, g) ==
  /\ c.cell_id \in Nat /\ c.n_prb \in Nat /\ c.n_prb >= 6 /\ c.n_tx_ports \in Nat /\ c.n_tx_ports <= 2
  /\ c.mi = 1
  /\ g.control_symbol_count \in 1 .. 4
  /\ g.phich_resource \in {48, 16, 8, 4}
  /\ g.phich_duration \in {"normal", "extended"}
  /\ g.phich_duration = "extended" => g.control_symbol_count >= 3

Width(symbol) == IF symbol = 0 THEN 2 ELSE 3

\* The REGs of one symbol.
InSymbol(c, symbol) == {r \in Triples : r[1] = symbol /\ r[2] < c.n_prb /\ r[3] < Width(symbol)}

\* The numbers of a symbol's REGs, one for each.
LEMMA RegsByNumber ==
  ASSUME NEW c, c.n_prb \in Nat, NEW symbol \in 0 .. 2, NEW w, w = Width(symbol)
  PROVE  /\ w \in {2, 3}
         /\ \A u \in 0 .. w * c.n_prb - 1 : RegAt(symbol, w, u) \in InSymbol(c, symbol)
         /\ \A u, v \in 0 .. w * c.n_prb - 1 : RegAt(symbol, w, u) = RegAt(symbol, w, v) => u = v
         /\ \A r \in InSymbol(c, symbol) : \E u \in 0 .. w * c.n_prb - 1 : RegAt(symbol, w, u) = r
<1>1. PICK n \in Nat : n = c.n_prb
  OBVIOUS
<1>2. w \in {2, 3}
  BY DEF Width
<1>3. ASSUME NEW u \in 0 .. w * n - 1
      PROVE  /\ u \div w \in Nat /\ u \div w < n /\ u % w \in Nat /\ u % w < w
             /\ u = w * (u \div w) + (u % w)
  <2>1. CASE w = 2
    BY <2>1
  <2>2. CASE w = 3
    BY <2>2
  <2> QED
    BY <1>2, <2>1, <2>2
<1>4. ASSUME NEW u \in 0 .. w * n - 1
      PROVE  RegAt(symbol, w, u) \in InSymbol(c, symbol)
  <2>1. PICK p \in Nat, k \in Nat : p = u \div w /\ k = u % w /\ p < n /\ k < w
    BY <1>3
  <2>2. <<symbol, p, k>> \in InSymbol(c, symbol)
    BY <1>1, <2>1 DEF InSymbol, Triples
  <2> QED
    BY <2>1, <2>2 DEF RegAt
<1>5. ASSUME NEW u \in 0 .. w * n - 1, NEW v \in 0 .. w * n - 1, RegAt(symbol, w, u) = RegAt(symbol, w, v)
      PROVE  u = v
  <2>1. u \div w = v \div w /\ u % w = v % w
    BY <1>5 DEF RegAt
  <2> QED
    BY <1>3, <2>1
<1>6. ASSUME NEW r \in InSymbol(c, symbol)
      PROVE  \E u \in 0 .. w * n - 1 : RegAt(symbol, w, u) = r
  <2>1. PICK p \in Nat, k \in Nat : r = <<symbol, p, k>> /\ p < n /\ k < w
    BY <1>1 DEF InSymbol, Triples
  <2>2. PICK u \in 0 .. w * n - 1 : u = w * p + k
    <3>1. w * p + k \in 0 .. w * n - 1
      <4>1. CASE w = 2
        BY <2>1, <4>1
      <4>2. CASE w = 3
        BY <2>1, <4>2
      <4> QED
        BY <1>2, <4>1, <4>2
    <3> QED
      BY <3>1
  <2>3. u \div w = p /\ u % w = k
    <3>1. CASE w = 2
      BY <2>1, <2>2, <3>1
    <3>2. CASE w = 3
      BY <2>1, <2>2, <3>2
    <3> QED
      BY <1>2, <3>1, <3>2
  <2> QED
    BY <2>1, <2>2, <2>3 DEF RegAt
<1> QED
  BY <1>1, <1>2, <1>4, <1>5, <1>6

\* PCFICH takes four REGs of symbol 0.
LEMMA FourPcfichRegs ==
  ASSUME NEW c, NEW g, Reservable(c, g)
  PROVE  /\ pcfich_regs(c) \subseteq InSymbol(c, 0)
         /\ IsFiniteSet(pcfich_regs(c)) /\ Cardinality(pcfich_regs(c)) = 4
<1>1. PICK n \in Nat, N \in Nat : n = c.n_prb /\ N = 2 * n /\ n >= 6
  BY DEF Reservable
<1>2. PICK s \in Nat : s = c.cell_id % N
  BY <1>1 DEF Reservable
<1> DEFINE off(i) == (i * n) \div 2
           place(i) == (s + off(i)) % N
           f == [i \in 0 .. 3 |-> RegAt(0, 2, place(i))]
<1>3. \A i \in 0 .. 3 : off(i) \in 0 .. N - 1
  BY <1>1
<1>4. \A i, j \in 0 .. 3 : off(i) = off(j) => i = j
  BY <1>1
<1>5. pcfich_regs(c) = {RegAt(0, 2, place(i)) : i \in 0 .. 3}
  BY <1>1, <1>2 DEF pcfich_regs
<1> HIDE DEF off
<1>6. \A i \in 0 .. 3 : place(i) \in 0 .. N - 1
  <2> SUFFICES ASSUME NEW i \in 0 .. 3 PROVE place(i) \in 0 .. N - 1
    OBVIOUS
  <2>1. PICK x \in Nat : x = s + off(i)
    BY <1>3
  <2>2. N \in Nat \ {0}
    BY <1>1
  <2>3. x % N \in 0 .. N - 1
    BY <2>2
  <2> QED
    BY <2>1, <2>3
<1>7. \A i, j \in 0 .. 3 : place(i) = place(j) => i = j
  <2> SUFFICES ASSUME NEW i \in 0 .. 3, NEW j \in 0 .. 3, place(i) = place(j) PROVE i = j
    OBVIOUS
  <2>1. N \in Nat \ {0} /\ off(i) \in 0 .. N - 1 /\ off(j) \in 0 .. N - 1
    BY <1>1, <1>3
  <2>2. off(i) = off(j)
    BY <2>1, OffsetsApart
  <2> QED
    BY <1>4, <2>2
<1> HIDE DEF place
<1>8. /\ \A u \in 0 .. N - 1 : RegAt(0, 2, u) \in InSymbol(c, 0)
      /\ \A u, v \in 0 .. N - 1 : RegAt(0, 2, u) = RegAt(0, 2, v) => u = v
  <2>1. 2 = Width(0) /\ 0 \in 0 .. 2 /\ c.n_prb \in Nat
    BY <1>1 DEF Width
  <2>2. N = 2 * c.n_prb
    BY <1>1
  <2> QED
    BY <2>1, <2>2, RegsByNumber
<1>9. \A i \in 0 .. 3 : RegAt(0, 2, place(i)) \in InSymbol(c, 0)
  BY <1>6, <1>8
<1>10. \A i, j \in 0 .. 3 : RegAt(0, 2, place(i)) = RegAt(0, 2, place(j)) => i = j
  BY <1>6, <1>7, <1>8
<1>11. /\ \A i \in 0 .. 3 : f[i] = RegAt(0, 2, place(i)) /\ f[i] \in pcfich_regs(c)
       /\ \A z \in pcfich_regs(c) : \E i \in 0 .. 3 : f[i] = z
       /\ f = [i \in 0 .. 3 |-> f[i]]
  BY <1>5
<1>12. f \in [0 .. 3 -> pcfich_regs(c)]
  <2> HIDE DEF f
  <2> QED
    BY <1>11
<1> HIDE DEF f
<1>13. \A i, j \in 0 .. 3 : f[i] = f[j] => i = j
  BY <1>10, <1>11
<1>14. IsFiniteSet(0 .. 3) /\ Cardinality(0 .. 3) = 4
  <2>1. PICK k \in Nat : k = 4
    OBVIOUS
  <2>2. IsFiniteSet(0 .. k - 1) /\ Cardinality(0 .. k - 1) = k
    BY CountBelow
  <2>3. k - 1 = 3
    BY <2>1
  <2> QED
    BY <2>1, <2>2, <2>3
<1>15. IsFiniteSet(pcfich_regs(c)) /\ Cardinality(pcfich_regs(c)) = 4
  BY <1>11, <1>12, <1>13, <1>14, CountByNames
<1> QED
  BY <1>5, <1>9, <1>15

\* What a symbol has left for PHICH.
LEMMA AvailableRegsList ==
  ASSUME NEW c, NEW g, Reservable(c, g), NEW symbol \in 0 .. 2
  PROVE  /\ Lists(available_regs(c, symbol), Triples, InSymbol(c, symbol) \ pcfich_regs(c))
         /\ Len(available_regs(c, symbol)) = IF symbol = 0 THEN 2 * c.n_prb - 4 ELSE 3 * c.n_prb
<1> DEFINE w == Width(symbol)
           all == [u \in 1 .. (w * c.n_prb) |-> RegAt(symbol, w, u - 1)]
           In == InSymbol(c, symbol)
           pcfich == pcfich_regs(c)
<1>1. PICK n \in Nat : n = c.n_prb /\ n >= 6
  BY DEF Reservable
<1>2. available_regs(c, symbol) = Among(all, Range(all) \ pcfich)
  BY DEF available_regs, Width
<1>3. w \in {2, 3}
  BY DEF Width
<1>4. PICK N \in Nat : N = w * c.n_prb
  BY <1>1, <1>3
<1>5. /\ \A u \in 0 .. N - 1 : RegAt(symbol, w, u) \in In
      /\ \A u, v \in 0 .. N - 1 : RegAt(symbol, w, u) = RegAt(symbol, w, v) => u = v
      /\ \A r \in In : \E u \in 0 .. N - 1 : RegAt(symbol, w, u) = r
  <2>1. c.n_prb \in Nat
    BY <1>1
  <2> HIDE DEF all
  <2> QED
    BY <1>4, <2>1, RegsByNumber
<1>6. all = [u \in 1 .. N |-> RegAt(symbol, w, u - 1)]
  BY <1>4
<1> HIDE DEF w, all, In, pcfich
<1>7. \A u \in 1 .. N : all[u] = RegAt(symbol, w, u - 1) /\ u - 1 \in 0 .. N - 1
  BY <1>6
<1>8. all \in [1 .. N -> Triples]
  <2>1. In \subseteq Triples
    BY DEF In, InSymbol
  <2> QED
    BY <1>5, <1>6, <1>7, <2>1
<1>9. all \in Seq(Triples) /\ Len(all) = N
  BY <1>8, SequenceOfNumbered
<1>10. Lists(all, Triples, In)
  <2>1. ASSUME NEW i \in 1 .. N, NEW j \in 1 .. N, all[i] = all[j] PROVE i = j
    <3>1. i - 1 = j - 1
      BY <1>5, <1>7, <2>1
    <3> QED
      BY <3>1
  <2>2. ASSUME NEW r \in In PROVE \E i \in 1 .. N : all[i] = r
    <3>1. PICK u \in 0 .. N - 1 : RegAt(symbol, w, u) = r
      BY <1>5
    <3>2. u + 1 \in 1 .. N /\ (u + 1) - 1 = u
      OBVIOUS
    <3> QED
      BY <1>7, <3>1, <3>2
  <2>3. \A i \in 1 .. N : all[i] \in In
    BY <1>5, <1>7
  <2> QED
    BY <1>9, <2>1, <2>2, <2>3 DEF Lists
<1>11. Range(all) = In
  BY <1>10, RangeOfList
<1>12. In \cap (Range(all) \ pcfich) = In \ pcfich
  BY <1>11
<1>13. Lists(Among(all, Range(all) \ pcfich), Triples, In \cap (Range(all) \ pcfich))
  BY <1>10, AmongLists
<1>14. Lists(available_regs(c, symbol), Triples, In \ pcfich)
  BY <1>2, <1>12, <1>13
<1>15. IsFiniteSet(In) /\ Cardinality(In) = N
  BY <1>9, <1>10, LengthOfList
<1>16. pcfich \subseteq InSymbol(c, 0) /\ IsFiniteSet(pcfich) /\ Cardinality(pcfich) = 4
  BY FourPcfichRegs DEF pcfich
<1>17. Cardinality(In \ pcfich) = N - Cardinality(In \cap pcfich)
  BY <1>15, FS_Difference
<1>18. Len(available_regs(c, symbol)) = Cardinality(In \ pcfich)
  BY <1>14, LengthOfList
<1>19. CASE symbol = 0
  <2>1. In \cap pcfich = pcfich
    BY <1>16, <1>19 DEF In
  <2>2. N = 2 * n
    BY <1>1, <1>4, <1>19 DEF w, Width
  <2> QED
    BY <1>1, <1>14, <1>16, <1>17, <1>18, <1>19, <2>1, <2>2 DEF In, pcfich
<1>20. CASE symbol # 0
  <2>1. In \cap pcfich = {}
    BY <1>16, <1>20 DEF In, InSymbol
  <2>2. Cardinality({}) = 0
    BY FS_EmptySet
  <2>3. N = 3 * n
    BY <1>1, <1>4, <1>20 DEF w, Width
  <2>4. Len(available_regs(c, symbol)) = 3 * c.n_prb
    <3>1. Cardinality(In \ pcfich) = N - 0
      BY <1>17, <2>1, <2>2
    <3> QED
      BY <1>1, <1>18, <2>3, <3>1
  <2> QED
    BY <1>14, <1>20, <2>4, Zenon DEF In, pcfich
<1> QED
  BY <1>19, <1>20

\* The groups fit between the thirds of what a symbol has left.
LEMMA GroupsFit ==
  ASSUME NEW c, NEW g, Reservable(c, g), NEW symbol \in 0 .. 2
  PROVE  LET groups == phich_group_count(c, g)
             n == Len(available_regs(c, symbol))
         IN  /\ groups \in Nat /\ n \in Nat \ {0} /\ 3 * groups <= n
<1>1. PICK N \in Nat : N = c.n_prb /\ N >= 6
  BY DEF Reservable
<1>2. PICK n \in Nat : n = Len(available_regs(c, symbol)) /\ n >= 2 * N - 4
  <2>1. Len(available_regs(c, symbol)) = IF symbol = 0 THEN 2 * c.n_prb - 4 ELSE 3 * c.n_prb
    BY AvailableRegsList
  <2>2. CASE symbol = 0
    BY <1>1, <2>1, <2>2
  <2>3. CASE symbol # 0
    BY <1>1, <2>1, <2>3
  <2> QED
    BY <2>2, <2>3
<1>3. PICK G \in Nat : G = phich_group_count(c, g) /\ 4 * G <= N + 3
  <2>1. PICK R \in {48, 16, 8, 4} : R = g.phich_resource
    BY DEF Reservable
  <2>2. PICK G \in Nat : G = (N + R - 1) \div R
    <3>1. CASE R = 48
      BY <3>1
    <3>2. CASE R = 16
      BY <3>2
    <3>3. CASE R = 8
      BY <3>3
    <3>4. CASE R = 4
      BY <3>4
    <3> QED
      BY <3>1, <3>2, <3>3, <3>4
  <2>3. phich_group_count(c, g) = G
    <3>1. CeilDiv(c.n_prb, g.phich_resource) = G
      BY <1>1, <2>1, <2>2 DEF CeilDiv
    <3>2. c.mi = 1
      BY DEF Reservable
    <3> QED
      BY <3>1, <3>2 DEF phich_group_count
  <2>4. 4 * G <= N + 3
    <3>1. CASE R = 48
      BY <1>1, <2>2, <3>1
    <3>2. CASE R = 16
      BY <1>1, <2>2, <3>2
    <3>3. CASE R = 8
      BY <1>1, <2>2, <3>3
    <3>4. CASE R = 4
      BY <1>1, <2>2, <3>4
    <3> QED
      BY <3>1, <3>2, <3>3, <3>4
  <2> QED
    BY <2>3, <2>4
<1>4. 3 * G <= n /\ n # 0
  BY <1>1, <1>2, <1>3
<1> QED
  BY <1>2, <1>3, <1>4

\* Three thirds and less than a third on from them: no place twice.
LEMMA ThirdsApart ==
  ASSUME NEW n \in Nat \ {0}, NEW G \in Nat, 3 * G <= n,
         NEW a \in 0 .. G - 1, NEW b \in 0 .. G - 1, NEW i \in 0 .. 2, NEW j \in 0 .. 2
  PROVE  /\ a + (i * n) \div 3 \in 0 .. n - 1
         /\ a + (i * n) \div 3 = b + (j * n) \div 3 => a = b /\ i = j
<1> DEFINE third(k) == (k * n) \div 3
<1>1. third(0) = 0 /\ third(1) = n \div 3 /\ third(2) = (2 * n) \div 3
  OBVIOUS
<1>2. PICK x \in Nat, y \in Nat : x = third(1) /\ y = third(2) /\ x >= G /\ y - x >= G /\ n - y >= G
  BY <1>1
<1> HIDE DEF third
<1>3. third(i) = IF i = 0 THEN 0 ELSE IF i = 1 THEN x ELSE y
  BY <1>1, <1>2
<1>4. third(j) = IF j = 0 THEN 0 ELSE IF j = 1 THEN x ELSE y
  BY <1>1, <1>2
<1>5. PICK p \in Nat, q \in Nat : /\ p = third(i) /\ p = IF i = 0 THEN 0 ELSE IF i = 1 THEN x ELSE y
                                  /\ q = third(j) /\ q = IF j = 0 THEN 0 ELSE IF j = 1 THEN x ELSE y
  BY <1>3, <1>4
<1>6. a + p \in 0 .. n - 1
  BY <1>2, <1>5
<1>7. a + p = b + q => a = b /\ i = j
  BY <1>2, <1>5
<1> QED
  BY <1>5, <1>6, <1>7 DEF third

\* A REG of a group is in one of the control symbols, and not one of PCFICH.
LEMMA PhichSymbolInRegion ==
  ASSUME NEW c, NEW g, Reservable(c, g), NEW group \in Nat, NEW i \in 0 .. 2
  PROVE  PhichSymbol(c, g, group, i) \in 0 .. 2 /\ PhichSymbol(c, g, group, i) < g.control_symbol_count
<1>1. CASE g.phich_duration = "normal"
  BY <1>1 DEF PhichSymbol, Reservable
<1>2. CASE g.phich_duration # "normal" /\ uses_extended_special_case(c, g)
  <2>1. g.control_symbol_count >= 3 /\ g.control_symbol_count \in Nat
    BY <1>2 DEF Reservable
  <2>2. PICK x \in Nat : x = group \div 2 + i + 1
    OBVIOUS
  <2>3. x % 2 \in 0 .. 1
    OBVIOUS
  <2> QED
    BY <1>2, <2>1, <2>2, <2>3 DEF PhichSymbol
<1>3. CASE g.phich_duration # "normal" /\ ~uses_extended_special_case(c, g)
  <2>1. g.control_symbol_count >= 3 /\ g.control_symbol_count \in Nat
    BY <1>3 DEF Reservable
  <2> QED
    BY <1>3, <2>1 DEF PhichSymbol
<1> QED
  BY <1>1, <1>2, <1>3

\* Where the REGs of the groups are among those of their symbol: some places on
\* from a start, around the n of them.
PhichStart(c, g, symbol) ==
  (c.cell_id * Len(available_regs(c, symbol)))
    \div Len(available_regs(c, IF uses_extended_special_case(c, g) THEN 1 ELSE 0))

PlacesOn(group, i, n) == group + (i * n) \div 3

AroundFrom(s, o, n) == ((s + o) % n) + 1

\* Offsets below n lead to different places.
LEMMA AroundApart ==
  ASSUME NEW n \in Nat \ {0}, NEW s \in Nat, NEW a \in 0 .. n - 1
  PROVE  /\ AroundFrom(s, a, n) \in 1 .. n
         /\ \A b \in 0 .. n - 1 : AroundFrom(s, a, n) = AroundFrom(s, b, n) => a = b
<1>1. \A b \in 0 .. n - 1 : (s + b) % n \in 0 .. n - 1
  <2> SUFFICES ASSUME NEW b \in 0 .. n - 1 PROVE (s + b) % n \in 0 .. n - 1
    OBVIOUS
  <2>1. PICK x \in Nat : x = s + b
    OBVIOUS
  <2>2. x % n \in 0 .. n - 1
    BY RestInRange
  <2> QED
    BY <2>1, <2>2
<1>2. ASSUME NEW b \in 0 .. n - 1, AroundFrom(s, a, n) = AroundFrom(s, b, n)
      PROVE  a = b
  <2>1. PICK x \in 0 .. n - 1, y \in 0 .. n - 1 : x = (s + a) % n /\ y = (s + b) % n
    BY <1>1
  <2>2. x + 1 = y + 1
    BY <1>2, <2>1 DEF AroundFrom
  <2>3. x = y
    BY <2>2
  <2>4. (s + a) % n = (s + b) % n
    BY <2>1, <2>3
  <2> QED
    BY <2>4, OffsetsApart
<1>3. AroundFrom(s, a, n) \in 1 .. n
  <2>1. PICK x \in 0 .. n - 1 : x = (s + a) % n
    BY <1>1
  <2> QED
    BY <2>1 DEF AroundFrom
<1> QED
  BY <1>2, <1>3

\* A group's REG i is at its place around the n available ones.
FoundAround(c, g, group, i, symbol, n) ==
  /\ PhichStart(c, g, symbol) \in Nat
  /\ PhichReg(c, g, group, i) =
       available_regs(c, symbol)[AroundFrom(PhichStart(c, g, symbol), PlacesOn(group, i, n), n)]

\* PhichReg is the available REG at its place.
LEMMA PhichRegAt ==
  ASSUME NEW c, NEW g, Reservable(c, g), NEW group \in Nat, NEW i \in 0 .. 2,
         NEW symbol \in 0 .. 2, symbol = PhichSymbol(c, g, group, i),
         NEW n, n = Len(available_regs(c, symbol))
  PROVE  FoundAround(c, g, group, i, symbol, n)
<1>1. PICK ref \in 0 .. 2 : ref = IF uses_extended_special_case(c, g) THEN 1 ELSE 0
  OBVIOUS
<1>2. PICK d \in Nat \ {0} : d = Len(available_regs(c, ref))
  BY GroupsFit
<1>3. n \in Nat
  BY GroupsFit
<1>4. PICK x \in Nat : x = c.cell_id * n
  BY <1>3 DEF Reservable
<1>5. PICK s \in Nat : s = x \div d
  OBVIOUS
<1>6. PhichStart(c, g, symbol) = s
  BY <1>1, <1>2, <1>4, <1>5 DEF PhichStart
<1>7. PhichReg(c, g, group, i) = available_regs(c, symbol)[((s + group + (i * n) \div 3) % n) + 1]
  BY <1>1, <1>2, <1>4, <1>5 DEF PhichReg
<1>8. PICK t \in Nat : t = (i * n) \div 3
  BY <1>3
<1>9. s + group + t = s + (group + t)
  OBVIOUS
<1>10. AroundFrom(s, PlacesOn(group, i, n), n) = ((s + (group + t)) % n) + 1
  BY <1>8 DEF AroundFrom, PlacesOn
<1>11. PhichReg(c, g, group, i) = available_regs(c, symbol)[AroundFrom(s, PlacesOn(group, i, n), n)]
  <2>1. ((s + group + t) % n) + 1 = ((s + (group + t)) % n) + 1
    BY <1>9
  <2> QED
    BY <1>7, <1>8, <1>10, <2>1, Zenon
<1> QED
  BY <1>6, <1>11 DEF FoundAround

\* What a REG of a group is.
PhichPlace(c, g, b, j, symbol, n, s, o) ==
  /\ symbol = PhichSymbol(c, g, b, j) /\ n = Len(available_regs(c, symbol))
  /\ s = PhichStart(c, g, symbol) /\ o = PlacesOn(b, j, n) /\ o \in 0 .. n - 1
  /\ PhichReg(c, g, b, j) = available_regs(c, symbol)[AroundFrom(s, o, n)]
  /\ AroundFrom(s, o, n) \in 1 .. n

\* Every REG of a group has a place, among enough of them.
LEMMA PhichPlaceFound ==
  ASSUME NEW c, NEW g, Reservable(c, g), NEW G \in Nat, G = phich_group_count(c, g),
         NEW b \in 0 .. G - 1, NEW j \in 0 .. 2
  PROVE  \E symbol \in 0 .. 2, n \in Nat \ {0}, s \in Nat, o \in Nat :
           PhichPlace(c, g, b, j, symbol, n, s, o) /\ 3 * G <= n
<1>0. b \in Nat
  OBVIOUS
<1>1. PICK symbol \in 0 .. 2 : symbol = PhichSymbol(c, g, b, j)
  BY <1>0, PhichSymbolInRegion
<1>2. PICK n \in Nat \ {0} : n = Len(available_regs(c, symbol)) /\ 3 * G <= n
  BY GroupsFit
<1>3. PICK o \in Nat : o = PlacesOn(b, j, n) /\ o \in 0 .. n - 1
  <2>1. b + (j * n) \div 3 \in 0 .. n - 1
    BY <1>2, ThirdsApart
  <2> QED
    BY <2>1 DEF PlacesOn
<1>4. PICK s \in Nat : /\ s = PhichStart(c, g, symbol)
                       /\ PhichReg(c, g, b, j) = available_regs(c, symbol)[AroundFrom(s, o, n)]
  <2>1. FoundAround(c, g, b, j, symbol, n)
    BY <1>0, <1>1, <1>2, PhichRegAt
  <2> QED
    BY <1>3, <2>1 DEF FoundAround
<1>5. AroundFrom(s, o, n) \in 1 .. n
  BY <1>3, AroundApart
<1>6. PhichPlace(c, g, b, j, symbol, n, s, o)
  BY <1>1, <1>2, <1>3, <1>4, <1>5 DEF PhichPlace
<1> QED
  BY <1>2, <1>6

\* What PCFICH leaves of a symbol, and that each of it is available once.
LeftOf(c, symbol) == InSymbol(c, symbol) \ pcfich_regs(c)

\* available_regs has what is left, once.
LEMMA AvailableOnce ==
  ASSUME NEW c, NEW g, Reservable(c, g), NEW symbol \in 0 .. 2, NEW n, n = Len(available_regs(c, symbol)),
         NEW x \in 1 .. n
  PROVE  /\ available_regs(c, symbol)[x] \in LeftOf(c, symbol)
         /\ \A y \in 1 .. n : available_regs(c, symbol)[x] = available_regs(c, symbol)[y] => x = y
<1>1. Lists(available_regs(c, symbol), Triples, LeftOf(c, symbol))
  BY AvailableRegsList DEF LeftOf
<1> QED
  BY <1>1, Zenon DEF Lists

\* The REGs of the groups, one for each of a group's three.
LEMMA PhichRegsApart ==
  ASSUME NEW c, NEW g, Reservable(c, g), NEW G \in Nat, G = phich_group_count(c, g),
         NEW a \in 0 .. G - 1, NEW i \in 0 .. 2
  PROVE  /\ PhichReg(c, g, a, i) \in LeftOf(c, PhichSymbol(c, g, a, i))
         /\ \A b \in 0 .. G - 1 : \A j \in 0 .. 2 :
              PhichReg(c, g, a, i) = PhichReg(c, g, b, j) => a = b /\ i = j
<1>1. PICK symbol \in 0 .. 2, n \in Nat \ {0}, s \in Nat, o \in Nat :
        PhichPlace(c, g, a, i, symbol, n, s, o) /\ 3 * G <= n
  BY PhichPlaceFound
<1>2. PICK x \in 1 .. n : x = AroundFrom(s, o, n)
  BY <1>1 DEF PhichPlace
<1>3. PhichReg(c, g, a, i) = available_regs(c, symbol)[x] /\ n = Len(available_regs(c, symbol))
  BY <1>1, <1>2 DEF PhichPlace
<1>4. PhichReg(c, g, a, i) \in LeftOf(c, symbol)
  BY <1>3, AvailableOnce
<1>5. symbol = PhichSymbol(c, g, a, i)
  BY <1>1 DEF PhichPlace
<1>6. ASSUME NEW b \in 0 .. G - 1, NEW j \in 0 .. 2, PhichReg(c, g, a, i) = PhichReg(c, g, b, j)
      PROVE  a = b /\ i = j
  <2>1. PICK symbol2 \in 0 .. 2, n2 \in Nat \ {0}, s2 \in Nat, o2 \in Nat :
          PhichPlace(c, g, b, j, symbol2, n2, s2, o2) /\ 3 * G <= n2
    BY PhichPlaceFound
  <2>2. PICK y \in 1 .. n2 : y = AroundFrom(s2, o2, n2)
    BY <2>1 DEF PhichPlace
  <2>3. PhichReg(c, g, b, j) = available_regs(c, symbol2)[y] /\ n2 = Len(available_regs(c, symbol2))
    BY <2>1, <2>2 DEF PhichPlace
  <2>4. PhichReg(c, g, b, j) \in LeftOf(c, symbol2)
    BY <2>3, AvailableOnce
  <2>5. symbol = symbol2
    BY <1>4, <1>6, <2>4 DEF LeftOf, InSymbol
  <2>6. n = n2 /\ s = s2
    BY <1>1, <2>1, <2>5 DEF PhichPlace
  <2>7. available_regs(c, symbol)[x] = available_regs(c, symbol)[y]
    BY <1>3, <1>6, <2>3, <2>5
  <2>8. x = y
    BY <1>3, <2>6, <2>7, AvailableOnce
  <2>9. AroundFrom(s, o, n) = AroundFrom(s, o2, n)
    BY <1>2, <2>2, <2>6, <2>8
  <2>10. o \in 0 .. n - 1 /\ o2 \in 0 .. n - 1
    BY <1>1, <2>1, <2>6 DEF PhichPlace
  <2>11. o = o2
    BY <2>9, <2>10, AroundApart
  <2>12. PlacesOn(a, i, n) = PlacesOn(b, j, n)
    BY <1>1, <2>1, <2>6, <2>11 DEF PhichPlace
  <2>13. a + (i * n) \div 3 = b + (j * n) \div 3
    BY <2>12 DEF PlacesOn
  <2> QED
    BY <1>1, <2>13, ThirdsApart
<1> QED
  BY <1>4, <1>5, <1>6

\* PHICH takes three REGs for each group.
LEMMA ThreeRegsPerGroup ==
  ASSUME NEW c, NEW g, Reservable(c, g)
  PROVE  /\ phich_group_count(c, g) \in Nat
         /\ IsFiniteSet(phich_regs(c, g)) /\ Cardinality(phich_regs(c, g)) = 3 * phich_group_count(c, g)
<1>1. PICK G \in Nat : G = phich_group_count(c, g)
  <2>1. 0 \in 0 .. 2
    OBVIOUS
  <2> QED
    BY <2>1, GroupsFit
<1> DEFINE names == (0 .. G - 1) \X (0 .. 2)
           f == [p \in names |-> PhichReg(c, g, p[1], p[2])]
<1>2. phich_regs(c, g) = {PhichReg(c, g, a, i) : a \in 0 .. G - 1, i \in 0 .. 2}
  BY <1>1 DEF phich_regs
<1>3. \A p \in names : f[p] = PhichReg(c, g, p[1], p[2]) /\ p[1] \in 0 .. G - 1 /\ p[2] \in 0 .. 2
  OBVIOUS
<1>4. f \in [names -> phich_regs(c, g)]
  <2>1. \A p \in names : PhichReg(c, g, p[1], p[2]) \in phich_regs(c, g)
    BY <1>2
  <2> HIDE DEF names
  <2> QED
    BY <2>1
<1>5. \A z \in phich_regs(c, g) : \E p \in names : f[p] = z
  <2> SUFFICES ASSUME NEW z \in phich_regs(c, g) PROVE \E p \in names : f[p] = z
    OBVIOUS
  <2>1. PICK a \in 0 .. G - 1, i \in 0 .. 2 : z = PhichReg(c, g, a, i)
    BY <1>2
  <2>2. <<a, i>> \in names /\ <<a, i>>[1] = a /\ <<a, i>>[2] = i
    OBVIOUS
  <2> QED
    BY <1>3, <2>1, <2>2
<1>6. ASSUME NEW p \in names, NEW q \in names, f[p] = f[q]
      PROVE  p = q
  <2>1. PhichReg(c, g, p[1], p[2]) = PhichReg(c, g, q[1], q[2])
    BY <1>3, <1>6
  <2>2. p[1] = q[1] /\ p[2] = q[2]
    BY <1>1, <1>3, <2>1, PhichRegsApart
  <2> QED
    BY <2>2
<1>7. IsFiniteSet(0 .. G - 1) /\ Cardinality(0 .. G - 1) = G
  BY CountBelow
<1>8. IsFiniteSet(0 .. 2) /\ Cardinality(0 .. 2) = 3
  <2>1. PICK k \in Nat : k = 3
    OBVIOUS
  <2>2. IsFiniteSet(0 .. k - 1) /\ Cardinality(0 .. k - 1) = k
    BY CountBelow
  <2>3. k - 1 = 2
    BY <2>1
  <2> QED
    BY <2>1, <2>2, <2>3
<1>9. IsFiniteSet(names) /\ Cardinality(names) = G * 3
  <2>1. IsFiniteSet(names) /\ Cardinality(names) = Cardinality(0 .. G - 1) * Cardinality(0 .. 2)
    BY <1>7, <1>8, FS_Product
  <2> QED
    BY <1>7, <1>8, <2>1
<1> HIDE DEF names, f
<1>10. IsFiniteSet(phich_regs(c, g)) /\ Cardinality(phich_regs(c, g)) = Cardinality(names)
  BY <1>4, <1>5, <1>6, <1>9, CountByNames
<1> QED
  BY <1>1, <1>9, <1>10

\* The tones of a REG: some, and none that another REG of the symbol has.
LEMMA TonesApart ==
  ASSUME NEW c, c.cell_id \in Nat, NEW k \in Nat, NEW l \in Nat
  PROVE  /\ (\E t : t \in TonesBesideCrs(c, k)) /\ (\E t : t \in FullTones(k))
         /\ TonesBesideCrs(c, k) \cap TonesBesideCrs(c, l) # {} => k = l
         /\ FullTones(k) \cap FullTones(l) # {} => k = l
<1>1. PICK r \in 0 .. 2 : r = c.cell_id % 3
  OBVIOUS
<1>2. \E t : t \in TonesBesideCrs(c, k)
  <2>1. 6 * k \in Nat /\ (6 * k) % 3 = 0 /\ (6 * k + 1) % 3 = 1
    OBVIOUS
  <2>2. CASE r = 0
    <3>1. 6 * k + 1 \in (6 * k) .. (6 * k + 5) /\ (6 * k + 1) % 3 # r
      BY <2>1, <2>2
    <3> QED
      BY <1>1, <3>1 DEF TonesBesideCrs
  <2>3. CASE r # 0
    <3>1. 6 * k \in (6 * k) .. (6 * k + 5) /\ (6 * k) % 3 # r
      BY <2>1, <2>3
    <3> QED
      BY <1>1, <3>1 DEF TonesBesideCrs
  <2> QED
    BY <2>2, <2>3
<1>3. \E t : t \in FullTones(k)
  <2>1. 4 * k \in (4 * k) .. (4 * k + 3)
    OBVIOUS
  <2> QED
    BY <2>1 DEF FullTones
<1>4. TonesBesideCrs(c, k) \cap TonesBesideCrs(c, l) # {} => k = l
  <2> SUFFICES ASSUME NEW t, t \in TonesBesideCrs(c, k), t \in TonesBesideCrs(c, l) PROVE k = l
    OBVIOUS
  <2>1. t \in (6 * k) .. (6 * k + 5) /\ t \in (6 * l) .. (6 * l + 5)
    BY DEF TonesBesideCrs
  <2> QED
    BY <2>1
<1>5. FullTones(k) \cap FullTones(l) # {} => k = l
  <2> SUFFICES ASSUME NEW t, t \in FullTones(k), t \in FullTones(l) PROVE k = l
    OBVIOUS
  <2>1. t \in (4 * k) .. (4 * k + 3) /\ t \in (4 * l) .. (4 * l + 3)
    BY DEF FullTones
  <2> QED
    BY <2>1
<1> QED
  BY <1>2, <1>3, <1>4, <1>5

\* With up to two ports a REG of PCFICH or PHICH takes the elements of one REG,
\* the same one, and of no other.
LEMMA OneRegTaken ==
  ASSUME NEW c, NEW g, Reservable(c, g), NEW r \in Triples, NEW q \in Triples
  PROVE  RegElements(c, r) \cap reg_reserved_res(c, q) # {} <=> r = q
<1> DEFINE Tones(sym, k) == IF sym = 0 THEN TonesBesideCrs(c, k) ELSE FullTones(k)
<1>1. PICK rs \in Nat, rp \in Nat, rk \in Nat : r = <<rs, rp, rk>> /\ r[1] = rs /\ r[2] = rp /\ r[3] = rk
  BY DEF Triples
<1>2. PICK qs \in Nat, qp \in Nat, qk \in Nat : q = <<qs, qp, qk>> /\ q[1] = qs /\ q[2] = qp /\ q[3] = qk
  BY DEF Triples
<1>3. \A s \in Nat : crs_symbol_used(c, s) <=> s = 0
  BY DEF crs_symbol_used, Reservable
<1>4. RegElements(c, r) = {<<rs, rp, t>> : t \in Tones(rs, rk)}
  BY <1>1, <1>3 DEF RegElements, Elements
<1>5. reg_reserved_res(c, q) = {<<qs, qp, t>> : t \in Tones(qs, qk)}
  BY <1>2 DEF reg_reserved_res, Elements
<1>6. \A s \in Nat : \A k, l \in Nat : /\ \E t : t \in Tones(s, k)
                                       /\ Tones(s, k) \cap Tones(s, l) # {} => k = l
  BY TonesApart DEF Reservable
<1> HIDE DEF Tones
<1>7. ASSUME r = q
      PROVE  RegElements(c, r) \cap reg_reserved_res(c, q) # {}
  <2>1. PICK t : t \in Tones(rs, rk)
    BY <1>6
  <2>2. rs = qs /\ rp = qp /\ rk = qk
    BY <1>1, <1>2, <1>7
  <2>3. <<rs, rp, t>> \in RegElements(c, r) /\ <<rs, rp, t>> \in reg_reserved_res(c, q)
    BY <1>4, <1>5, <2>1, <2>2
  <2> QED
    BY <2>3
<1>8. ASSUME NEW e, e \in RegElements(c, r), e \in reg_reserved_res(c, q)
      PROVE  r = q
  <2>1. PICK t : t \in Tones(rs, rk) /\ e = <<rs, rp, t>>
    BY <1>4, <1>8
  <2>2. PICK u : u \in Tones(qs, qk) /\ e = <<qs, qp, u>>
    BY <1>5, <1>8
  <2>3. rs = qs /\ rp = qp /\ t = u
    BY <2>1, <2>2
  <2>4. rk = qk
    BY <1>6, <2>1, <2>2, <2>3
  <2> QED
    BY <1>1, <1>2, <2>3, <2>4
<1> QED
  BY <1>7, <1>8

\* REGs of the control symbols are REGs of the region.
LEMMA SymbolInRegion ==
  ASSUME NEW c, NEW g, Reservable(c, g), NEW symbol \in 0 .. 2, symbol < g.control_symbol_count
  PROVE  InSymbol(c, symbol) \subseteq InRegion(c, g)
<1> SUFFICES ASSUME NEW r \in InSymbol(c, symbol) PROVE r \in InRegion(c, g)
  OBVIOUS
<1>1. r \in Triples /\ r[1] = symbol /\ r[2] < c.n_prb /\ r[3] < Width(symbol) /\ r[3] \in Nat
  BY DEF InSymbol, Triples
<1>2. PICK k \in Nat : k = r[3] /\ k < Width(symbol)
  BY <1>1
<1>3. PICK m \in Nat : g.control_symbol_count = m + 1
  <2>1. PICK n \in 1 .. 4 : n = g.control_symbol_count
    BY DEF Reservable
  <2>2. n - 1 \in Nat /\ n = (n - 1) + 1
    OBVIOUS
  <2> QED
    BY <2>1, <2>2
<1>4. g.control_symbol_count - 1 = m
  BY <1>3
<1>5. CASE symbol = 0
  <2>1. k \in 0 .. 1
    BY <1>2, <1>5 DEF Width
  <2>2. <<symbol, k>> \in InPrb(c, g)
    BY <1>5, <2>1 DEF InPrb
  <2> QED
    BY <1>1, <1>2, <2>2 DEF InRegion
<1>6. CASE symbol # 0
  <2>1. k \in 0 .. 2
    BY <1>2, <1>6 DEF Width
  <2>2. symbol \in 1 .. m /\ symbol \in Nat
    BY <1>3, <1>6
  <2>3. ~crs_symbol_used(c, symbol)
    BY <1>6 DEF crs_symbol_used, Reservable
  <2>4. k \in 0 .. 1 \/ k = 2
    BY <2>1
  <2>5. <<symbol, k>> \in Nat \X Nat /\ <<symbol, k>>[1] = symbol /\ <<symbol, k>>[2] = k
    BY <2>2
  <2>6. <<symbol, k>> \in InPrb(c, g)
    BY <1>4, <2>2, <2>3, <2>4, <2>5 DEF InPrb
  <2> QED
    BY <1>1, <1>2, <2>6 DEF InRegion
<1> QED
  BY <1>5, <1>6

\* The reservations take four REGs and three for each group.
LEMMA WholeRegsTaken ==
  ASSUME NEW c, NEW g, Reservable(c, g)
  PROVE  TakesWholeRegs(c, g)
<1> DEFINE P == pcfich_regs(c)
           Q == phich_regs(c, g)
           A == InRegion(c, g)
<1>1. AnyCell(c) /\ AnyControl(g)
  BY DEF AnyCell, AnyControl, Reservable
<1>2. PICK G \in Nat : G = phich_group_count(c, g) /\ Cardinality(Q) = 3 * G
  BY ThreeRegsPerGroup
<1>3. P \subseteq InSymbol(c, 0) /\ Cardinality(P) = 4
  BY FourPcfichRegs
<1>4. P \subseteq A
  <2>1. 0 \in 0 .. 2 /\ 0 < g.control_symbol_count
    BY DEF Reservable
  <2>2. InSymbol(c, 0) \subseteq A
    BY <2>1, SymbolInRegion
  <2> QED
    BY <1>3, <2>2
<1>5. Q \subseteq A /\ P \cap Q = {}
  <2> SUFFICES ASSUME NEW r \in Q PROVE r \in A /\ r \notin P
    OBVIOUS
  <2>1. PICK a \in 0 .. G - 1, i \in 0 .. 2 : r = PhichReg(c, g, a, i)
    BY <1>2 DEF phich_regs
  <2>2. a \in Nat
    OBVIOUS
  <2>3. PICK symbol \in 0 .. 2 : symbol = PhichSymbol(c, g, a, i) /\ symbol < g.control_symbol_count
    BY <2>2, PhichSymbolInRegion
  <2>4. r \in LeftOf(c, symbol)
    BY <1>2, <2>1, <2>3, PhichRegsApart
  <2>5. InSymbol(c, symbol) \subseteq A
    BY <2>3, SymbolInRegion
  <2> QED
    BY <2>4, <2>5 DEF LeftOf
<1>6. A \subseteq Triples
  BY DEF InRegion
<1>7. Unreserved(c, g) = A \ (P \cup Q)
  <2>1. ASSUME NEW r \in A
        PROVE  RegElements(c, r) \cap reserved_res(c, g) = {} <=> r \notin P \cup Q
    <3>1. reserved_res(c, g) = UNION {reg_reserved_res(c, q) : q \in P \cup Q}
      BY DEF reserved_res
    <3>2. \A q \in P \cup Q : RegElements(c, r) \cap reg_reserved_res(c, q) # {} <=> r = q
      <4>1. \A q \in P \cup Q : q \in Triples /\ r \in Triples
        BY <1>4, <1>5, <1>6
      <4> QED
        BY <4>1, OneRegTaken
    <3> HIDE DEF P, Q, A
    <3> QED
      BY <3>1, <3>2
  <2> HIDE DEF P, Q
  <2> QED
    BY <2>1 DEF Unreserved
<1>8. Lists(AllRegs(c, g), Triples, A) /\ Lists(physical_regs(c, g), Triples, A \ (P \cup Q))
  BY <1>1, <1>7, AllRegsLists, PhysicalRegsList
<1> HIDE DEF P, Q, A
<1>9. IsFiniteSet(A) /\ Cardinality(A) = Len(AllRegs(c, g))
  BY <1>8, LengthOfList
<1>10. Cardinality(A \ (P \cup Q)) = Len(physical_regs(c, g))
  BY <1>8, LengthOfList
<1>11. Cardinality(A) - Cardinality(A \ (P \cup Q)) = 4 + 3 * G
  <2>1. PICK p \in Nat, q \in Nat : p = 4 /\ q = 3 * G
    OBVIOUS
  <2>2. Cardinality(P) = p /\ Cardinality(Q) = q
    BY <1>2, <1>3, <2>1
  <2>3. Cardinality(A) - Cardinality(A \ (P \cup Q)) = p + q
    BY <1>4, <1>5, <1>9, <2>2, TwoPartsLess
  <2> QED
    BY <2>1, <2>3
<1> QED
  BY <1>2, <1>9, <1>10, <1>11 DEF TakesWholeRegs

\* In every cell with up to two ports and under every geometry, the REGs are
\* numbered by their lowest tones and then by symbol, and PCFICH and PHICH cost
\* exactly four REGs and three for each group: no two of them meet, and none
\* takes a part of a PDCCH REG (mmse_equalizer_cpu.cpp:530,
\* pdcch_module_api.h:303).
THEOREM ReservationsAreWhole == Spec => []RegsFollowTheStandard
<1>1. ASSUME NEW c \in Cells, c.n_tx_ports <= 2, NEW g \in geometries(c.n_prb)
      PROVE  TimeFirst(c, AllRegs(c, g)) /\ TakesWholeRegs(c, g)
  <2>1. c.cell_id \in Nat /\ c.n_tx_ports \in Nat /\ c.mi = 1 /\ c.n_prb \in Nat /\ c.n_prb >= 6
    BY CellsAssumption
  <2>2. /\ g.control_symbol_count \in 1 .. 4 /\ g.phich_resource \in {48, 16, 8, 4}
        /\ g.phich_duration \in {"normal", "extended"}
        /\ g.phich_duration = "extended" => g.control_symbol_count >= 3
    BY DEF geometries, max_control_symbols, kOneSixth, kHalf, kOne, kTwo
  <2>3. Reservable(c, g) /\ AnyControl(g)
    BY <1>1, <2>1, <2>2 DEF Reservable, AnyControl
  <2> QED
    BY <1>1, <2>1, <2>3, NumberedTimeFirst, WholeRegsTaken
<1>2. SoundRegs = Cells
  BY <1>1 DEF SoundRegs
<1>3. TypeOK => RegsFollowTheStandard
  BY <1>2 DEF TypeOK, RegsFollowTheStandard
<1> QED
  BY <1>3, TypeInvariance, PTL

=============================================================================
