---------------------------- MODULE GeometrySearch ----------------------------
(***************************************************************************)
(* run_pdcch_cpu_si_rnti_geometry_search of include/mmse/pdcch_chain_sdk.h: *)
(* the control-region geometry of a cell is found by decoding the SI-RNTI  *)
(* DCI under every geometry, and then kept in a cache of the caller's.     *)
(*                                                                         *)
(* A call is one action.  What the receiver hears is chosen by the         *)
(* environment: the DCI a cell transmits under its own geometry, silence,  *)
(* a false CRC match under some geometry, or a decoder that fails.         *)
(***************************************************************************)
EXTENDS ControlRegion

CONSTANTS
  Cells,      \* what requests are made for: [cell_id, n_tx_ports, tx_mode, n_prb, kind, mi]
  Signals,    \* DCIs on the air: [geometry, first_cce, level]
  FalseHits,  \* geometries under which noise may pass the CRC
  NoCell, NoGeometry, Silence

\* What a request must be to be searched: FDD, and an LTE bandwidth.
ASSUME CellsAssumption ==
  \A c \in Cells : /\ c.cell_id \in Nat /\ c.n_tx_ports \in Nat /\ c.mi = 1
                   /\ c.n_prb \in {6, 15, 25, 50, 75, 100}

VARIABLES
  cache,      \* PdcchSiRntiGeometrySearchCache
  result,     \* PdcchSiRntiGeometrySearchResult of the last call
  returned,   \* MmseStatus of the last call
  acquired,   \* history: the cell and geometry of the last full search that locked
  stable      \* history: the cell last searched, and for how many searches its DCI was clean

vars == <<cache, result, returned, acquired, stable>>

MissLimit == 4
Settled == MissLimit + 1    \* bound: stable.calls stops counting here

NoCache == [locked |-> FALSE, cell |-> NoCell, geometry |-> NoGeometry, consecutive_miss_count |-> 0]

NoResult == [status |-> "kMiss", geometry_attempt_count |-> 0,
             geometry |-> NoGeometry, decoded |-> NoGeometry]

Init ==
  /\ cache = NoCache
  /\ result = NoResult
  /\ returned = "kOk"
  /\ acquired = [cell |-> NoCell, geometry |-> NoGeometry]
  /\ stable = [cell |-> NoCell, signal |-> Silence, calls |-> 0]

-----------------------------------------------------------------------------
AnyGeometry == UNION {geometries(c.n_prb) : c \in Cells}

\* The layouts of all cells and geometries, and every candidate of theirs with
\* the REGs it is read from.
Layouts ==
  {[cell |-> p[1], geometry |-> p[2], layout |-> pdcch_layout(p[1], p[2])] :
     p \in {q \in Cells \X AnyGeometry : q[2] \in geometries(q[1].n_prb)}}

Reads ==
  UNION {{[cell |-> l.cell,
           signal |-> [geometry |-> l.geometry, first_cce |-> cand.first_cce, level |-> cand.level],
           regs |-> candidate_regs(l.layout, cand)] : cand \in common_search_candidates(l.layout)} :
         l \in Layouts}

\* A DCI can be read at every candidate that begins at the same CCE (the
\* scrambling depends on it) and covers the REGs the DCI begins with.
ReadAt(sent, r) ==
  /\ r.cell = sent.cell
  /\ r.signal.first_cce = sent.signal.first_cce
  /\ r.signal.level <= sent.signal.level
  /\ r.regs = SubSeq(sent.regs, 1, Len(r.regs))

\* <<cell, DCI, geometry>>: the cell can transmit it, and it is read there.
Readers ==
  UNION {{<<sent.cell, sent.signal, r.signal.geometry>> : r \in {r \in Reads : ReadAt(sent, r)}} :
         sent \in {r \in Reads : r.signal \in Signals}}

\* Regions with room for a candidate.
Searched == {<<r.cell, r.signal.geometry>> : r \in Reads}

\* What a cell may be heard to transmit, and what else may happen.
Receptions(c) ==
  [signal : {t[2] : t \in {t \in Readers : t[1] = c}} \cup {Silence},
   false_hits : {{}} \cup {{g} : g \in FalseHits}, fails : BOOLEAN]

\* Geometries under which decode_pdcch_si_rnti_dci_format1a reports a hit; an
\* empty region, or one without candidates, has none.
Hits(c, rx) ==
  {g \in geometries(c.n_prb) :
     \/ <<c, rx.signal, g>> \in Readers
     \/ g \in rx.false_hits /\ <<c, g>> \in Searched}

\* build_pdcch_cpu_backend has an equaliser for these only.
Supported(c) == <<c.n_tx_ports, c.tx_mode>> \in {<<1, 1>>, <<2, 2>>, <<4, 2>>}

Fails(c, rx) == rx.fails \/ ~Supported(c)

-----------------------------------------------------------------------------
\* Mutant: the subframe kind is not compared.
CacheMatchesAnyKind(c) == cache.locked /\ [cache.cell EXCEPT !.kind = c.kind] = c

\* All five fields of the request that the cache records; mi is a constant.
cache_matches(c) == cache.locked /\ cache.cell = c

\* Mutant: one miss more than the limit.
TriesLockedOnceMore(c) == cache_matches(c) /\ cache.consecutive_miss_count <= MissLimit

\* The cached geometry is tried alone; otherwise the cache is cleared first.
TriesLocked(c) == cache_matches(c) /\ cache.consecutive_miss_count < MissLimit

\* Mutant: a miss is not counted.
MissesForgotten(hit) == IF hit THEN 0 ELSE cache.consecutive_miss_count

MissesAfter(hit) == IF hit THEN 0 ELSE cache.consecutive_miss_count + 1

Heard(c, rx) ==
  LET clean == rx.signal # Silence /\ rx.false_hits = {}
      before == IF stable.cell = c /\ stable.signal = rx.signal THEN stable.calls ELSE 0
  IN  stable' = [cell |-> c, signal |-> rx.signal,
                 calls |-> IF clean THEN Lesser(before + 1, Settled) ELSE 0]

\* Not FDD, another subframe, or no LTE bandwidth.
Reject ==
  /\ result' = NoResult
  /\ returned' = "kUnsupportedConfig"
  /\ UNCHANGED <<cache, acquired, stable>>

\* An attempt fails: nothing is reported, and of the cache only a lock that
\* was being tried is left.
SearchFails(c, rx) ==
  /\ Fails(c, rx)
  /\ cache' = IF TriesLocked(c) THEN cache ELSE NoCache
  /\ result' = NoResult
  /\ returned' = "kError"
  /\ UNCHANGED <<acquired, stable>>

TryLocked(c, rx) ==
  LET hit == cache.geometry \in Hits(c, rx)
  IN  /\ ~Fails(c, rx) /\ TriesLocked(c)
      /\ cache' = [cache EXCEPT !.consecutive_miss_count = MissesAfter(hit)]
      /\ result' = [status |-> IF hit THEN "kLocked" ELSE "kMiss",
                    geometry_attempt_count |-> 1,
                    geometry |-> cache.geometry,
                    decoded |-> IF hit THEN cache.geometry ELSE NoGeometry]
      /\ returned' = "kOk"
      /\ Heard(c, rx)
      /\ UNCHANGED acquired

\* All geometries are tried.
SearchAll(c, rx) ==
  /\ ~Fails(c, rx) /\ ~TriesLocked(c)
  /\ returned' = "kOk"
  /\ Heard(c, rx)

Attempts(c) == Cardinality(geometries(c.n_prb))

NotFound(c, rx) ==
  /\ SearchAll(c, rx)
  /\ Cardinality(Hits(c, rx)) # 1
  /\ cache' = NoCache
  /\ result' = [status |-> IF Hits(c, rx) = {} THEN "kMiss" ELSE "kAmbiguous",
                geometry_attempt_count |-> Attempts(c),
                geometry |-> NoGeometry, decoded |-> NoGeometry]
  /\ UNCHANGED acquired

update_cache(c, g) ==
  cache' = [locked |-> TRUE, cell |-> c, geometry |-> g, consecutive_miss_count |-> 0]

Acquire(c, rx) ==
  /\ SearchAll(c, rx)
  /\ \E g \in Hits(c, rx) :
       /\ Hits(c, rx) = {g}
       /\ update_cache(c, g)
       /\ result' = [status |-> "kAcquired", geometry_attempt_count |-> Attempts(c),
                     geometry |-> g, decoded |-> g]
       /\ acquired' = [cell |-> c, geometry |-> g]

Next ==
  \/ Reject
  \/ \E c \in Cells : \E rx \in Receptions(c) :
       SearchFails(c, rx) \/ TryLocked(c, rx) \/ NotFound(c, rx) \/ Acquire(c, rx)

Spec == Init /\ [][Next]_vars

-----------------------------------------------------------------------------
TypeOK ==
  /\ cache \in [locked : BOOLEAN, cell : Cells \cup {NoCell},
                geometry : AnyGeometry \cup {NoGeometry}, consecutive_miss_count : 0 .. MissLimit]
  /\ result \in [status : {"kAcquired", "kLocked", "kMiss", "kAmbiguous"},
                 geometry_attempt_count : 0 .. 24,
                 geometry : AnyGeometry \cup {NoGeometry}, decoded : AnyGeometry \cup {NoGeometry}]
  /\ returned \in {"kOk", "kUnsupportedConfig", "kError"}
  /\ acquired \in [cell : Cells \cup {NoCell}, geometry : AnyGeometry \cup {NoGeometry}]
  /\ stable \in [cell : Cells \cup {NoCell}, signal : Signals \cup {Silence}, calls : 0 .. Settled]

\* A hit on the cached geometry is for the very cell and subframe kind for
\* which a full search found that geometry to be the only one: whatever was
\* searched, missed or failed in between (pdcch_chain_sdk.h:314).
LockedWhereAcquired ==
  result.status = "kLocked" => acquired = [cell |-> stable.cell, geometry |-> result.geometry]

\* No other geometry reserves as many PHICH groups over the same symbols.
SetApart(c, g) ==
  \A h \in geometries(c.n_prb) \ {g} :
    \/ h.control_symbol_count # g.control_symbol_count
    \/ h.phich_duration # g.phich_duration
    \/ phich_group_count(c, h) # phich_group_count(c, g)

\* The cell's DCI is read under no geometry but its own.
HeardAlone(c, signal) ==
  {t[3] : t \in {t \in Readers : t[1] = c /\ t[2] = signal}} = {signal.geometry}

\* A cell whose DCI keeps being heard is found under its own geometry after
\* at most four misses, whatever the cache held before: a stale lock, a lock
\* made by a false CRC match, or one half-way through its misses
\* (pdcch_chain_sdk.h:338, pdcch_chain_dto.h:429).
ReacquiresAStableCell ==
  (returned = "kOk" /\ stable.calls = Settled /\ SetApart(stable.cell, stable.signal.geometry)) =>
    result.status \in {"kAcquired", "kLocked"} /\ result.decoded = stable.signal.geometry

\* With up to two ports, the REGs of every geometry are numbered as in 36.211
\* and the reservations take whole REGs, none twice (mmse_equalizer_cpu.cpp:530,
\* pdcch_module_api.h:303).
SoundRegs ==
  {c \in Cells : c.n_tx_ports <= 2 =>
     \A g \in geometries(c.n_prb) : TimeFirst(c, AllRegs(c, g)) /\ TakesWholeRegs(c, g)}

RegsFollowTheStandard == stable.cell # NoCell => stable.cell \in SoundRegs

\* Deinterleaving undoes what a transmitter does, for every number of REGs,
\* and candidates stay inside the region (mmse_equalizer_cpu.cpp:587,
\* pdcch_module_api.h:782).
SoundReading ==
  {c \in Cells : \A g \in geometries(c.n_prb) : InvertsTheTransmitter(c, g) /\ ReadsInside(c, g)}

CandidatesReadWhatWasSent == stable.cell # NoCell => stable.cell \in SoundReading

=============================================================================
