------------------------------ MODULE PdcchSearch ------------------------------
(***************************************************************************)
(* Blind decoding of a subframe's PDCCH                                    *)
(* (src/include/mmse/pdcch_module_api.h): the common, UE-specific, SI-RNTI *)
(* and fixed-candidate searches, one candidate per step.                   *)
(*                                                                         *)
(* The soft bits of a candidate are abstracted to the word the decoder     *)
(* makes of them, chosen by the environment; the word goes through the     *)
(* CRC, RNTI and field checks of DciFormat1A bit by bit.  A transmission   *)
(* is [rnti, first_cce, level, run, field], run the blocks it assigns; a   *)
(* request has the fields of the equalised indication and of the four      *)
(* search configs, those a search does not read included.                  *)
(***************************************************************************)
EXTENDS DciFormat1A, FiniteSets

CONSTANTS
  Searches,    \* what may be searched: [request, air], air a set of transmissions
  OtherRnti    \* an RNTI nobody searches for

ASSUME OtherRntiAssumption ==
  \A s \in Searches : OtherRnti # s.request.expected_rnti /\ OtherRnti \notin Range(s.request.rntis)

ASSUME SearchKindsAssumption ==
  \A s \in Searches : s.request.kind \in {"common", "ue", "si", "fixed"}

VARIABLES
  search,      \* the call in progress: request, candidates, next; air and failures are history
  result,      \* what the caller gets: hits and counters
  returned     \* "none" until the call returns, then its MmseStatus

searchVars == <<search, result, returned>>

RePerReg == 4
RegsPerCce == 9
CandidateLevels == {1, 2, 4, 8}

NoResult == [candidate_count |-> 0, decoded_candidate_count |-> 0, crc_rnti_miss_count |-> 0,
             semantic_reject_count |-> 0, hits |-> <<>>]

NoSearch == [kind |-> "none", request |-> <<>>, air |-> {}, n_cce |-> 0,
             candidates |-> <<>>, next |-> 1, failures |-> 0]

SearchInit == search = NoSearch /\ result = NoResult /\ returned = "none"

-----------------------------------------------------------------------------
\* Candidates.

max_control_symbols(n_prb) == IF n_prb = 6 THEN 4 ELSE 3

\* The CCEs of the elements delivered, when they can be those of a control region.
build_pdcch_control_region(re_grid_indices, control_symbol_count, n_prb) ==
  LET n_re == Len(re_grid_indices)
      valid == /\ n_re > 0 /\ n_re % RePerReg = 0
               /\ n_prb \in SupportedBandwidths
               /\ control_symbol_count \in 1 .. max_control_symbols(n_prb)
               /\ n_re <= control_symbol_count * 12 * n_prb
               /\ \A k \in DOMAIN re_grid_indices :
                    re_grid_indices[k] \div (12 * n_prb) < control_symbol_count
               /\ Cardinality(Range(re_grid_indices)) = n_re
  IN  [status |-> IF valid THEN "kOk" ELSE "kInvalidArgument",
       n_cce |-> IF valid THEN (n_re \div RePerReg) \div RegsPerCce ELSE 0]

Candidate(rnti, first_cce, level) == [rnti |-> rnti, first_cce |-> first_cce, level |-> level]

Lesser(a, b) == IF a < b THEN a ELSE b

build_pdcch_common_search_candidates(n_cce, rnti) ==
  LET at(level, most) == [k \in 1 .. Lesser(most, n_cce \div level) |->
                            Candidate(rnti, level * (k - 1), level)]
  IN  at(4, 4) \o at(8, 2)

\* (39827 * v) mod 65537, v in two halves for TLC's integers.
times_multiplier(v) ==
  (39827 * (v % 256) + ((39827 * (v \div 256)) % 65537) * 256) % 65537

\* Mutant: the sequence is not advanced for subframe 0.
pdcch_ue_specific_search_y_late(rnti, sfn_subframe) ==
  FoldLeft(LAMBDA v, k : times_multiplier(v), rnti, [k \in 1 .. sfn_subframe % 10 |-> k])

pdcch_ue_specific_search_y(rnti, sfn_subframe) ==
  FoldLeft(LAMBDA v, k : times_multiplier(v), rnti, [k \in 0 .. sfn_subframe % 10 |-> k])

SearchLevels == << <<1, 6>>, <<2, 6>>, <<4, 2>>, <<8, 2>> >>

build_pdcch_ue_specific_search_candidates(n_cce, sfn_subframe, rntis, levels) ==
  LET enabled == SelectSeq(SearchLevels, LAMBDA entry : entry[1] \in levels)
      at(rnti, level, most) ==
        LET y == pdcch_ue_specific_search_y(rnti, sfn_subframe)
            cce_groups == n_cce \div level
        IN  [k \in 1 .. Lesser(most, cce_groups) |->
               Candidate(rnti, level * ((y + k - 1) % cce_groups), level)]
  IN  FlattenSeq([r \in DOMAIN rntis |->
        FlattenSeq([l \in DOMAIN enabled |-> at(rntis[r], enabled[l][1], enabled[l][2])])])

RntisAccepted(rntis) ==
  /\ Len(rntis) > 0 /\ IsInjective(rntis)
  /\ \A k \in DOMAIN rntis : rntis[k] \notin {0, kSiRnti}

\* FDD, whatever the caller's config: the SI search has none.
DciConfig(request) ==
  IF request.kind = "si" THEN [n_prb |-> request.n_prb, tdd |-> FALSE, cif_enabled |-> FALSE]
  ELSE request.config

Candidates(request, n_cce) ==
  CASE request.kind = "common" -> build_pdcch_common_search_candidates(n_cce, request.expected_rnti)
    [] request.kind = "si"     -> build_pdcch_common_search_candidates(n_cce, kSiRnti)
    [] request.kind = "fixed"  -> <<Candidate(request.expected_rnti, request.first_cce, request.level)>>
    [] request.kind = "ue"     ->
         build_pdcch_ue_specific_search_candidates(n_cce, request.sfn_subframe, request.rntis, request.levels)

\* The checks before the first candidate is decoded, those of its soft bits included.
Accepted(request, region) ==
  /\ pdcch_dci_format1a_payload_bit_count(DciConfig(request)) # 0
  /\ request.n_prb = DciConfig(request).n_prb
  /\ region.status = "kOk"
  /\ request.kind = "fixed" =>
       /\ request.level \in CandidateLevels /\ request.expected_rnti # 0
       /\ request.first_cce + request.level <= region.n_cce
  /\ request.kind = "ue" => RntisAccepted(request.rntis) /\ request.levels \subseteq CandidateLevels

-----------------------------------------------------------------------------
\* What the decoder makes of a candidate.

\* The soft bits of a candidate among those of the whole region, descrambled.
candidate_llrs(llrs, first_cce, level) == SubSeq(llrs, 72 * first_cce + 1, 72 * (first_cce + level))

\* A transmission as it is decoded, and a word that carries another RNTI.
WordOf(sent, config) == WithCrc(EncodeDci(sent.field, config), sent.rnti)
Noise(config) ==
  WithCrc([k \in 1 .. pdcch_dci_format1a_payload_bit_count(config) |-> 0], OtherRnti)

\* Exactly the transmission's CCEs: the word sent.  Fewer or more of them from
\* the same first one: the word or another.  The scrambling hides it elsewhere.
Words(candidate) ==
  LET config == DciConfig(search.request)
      heard == {sent \in search.air : sent.first_cce = candidate.first_cce}
      exact == {sent \in heard : sent.level = candidate.level}
  IN  IF exact # {} THEN {WordOf(sent, config) : sent \in exact}
      ELSE {WordOf(sent, config) : sent \in heard} \cup {Noise(config)}

\* What a caller's decoder may return; the built-in one does not fail here.
DecoderFailures == IF search.request.adapter THEN {"kUnsupportedConfig", "kInternalError"} ELSE {}

Verdict(candidate, word) ==
  validate_and_parse_pdcch_dci_format1a(word, candidate.rnti, DciConfig(search.request))

HitOf(candidate, word, verdict) ==
  [rnti |-> candidate.rnti, first_cce |-> candidate.first_cce, aggregation_level |-> candidate.level,
   cell_id |-> search.request.cell_id, sfn_subframe |-> search.request.sfn_subframe,
   matched |-> TRUE, crc |-> check_pdcch_crc_rnti(word, candidate.rnti), dci |-> verdict.dci]

\* The SI search reports assignments inside the band only.
SiUsable(dci) ==
  /\ dci.rnti = kSiRnti /\ ~dci.is_pdcch_order /\ dci.n_prb_1a \in {2, 3}
  /\ dci.start_prb + dci.n_prb <= search.request.n_prb

-----------------------------------------------------------------------------
\* Steps of a search.

Searching == search.kind # "none" /\ returned = "none" /\ search.next <= Len(search.candidates)

Begin(s) ==
  LET region == build_pdcch_control_region(s.request.re_grid_indices, s.request.control_symbol_count,
                                           s.request.n_prb)
      candidates == Candidates(s.request, region.n_cce)
  IN  /\ search.kind = "none"
      /\ Accepted(s.request, region)
      /\ search' = [kind |-> s.request.kind, request |-> s.request, air |-> s.air,
                    n_cce |-> region.n_cce, candidates |-> candidates, next |-> 1, failures |-> 0]
      /\ result' = [NoResult EXCEPT !.candidate_count = Len(candidates)]
      /\ UNCHANGED returned

Refuse(s) ==
  LET region == build_pdcch_control_region(s.request.re_grid_indices, s.request.control_symbol_count,
                                           s.request.n_prb)
  IN  /\ search.kind = "none"
      /\ ~Accepted(s.request, region)
      /\ search' = [NoSearch EXCEPT !.kind = s.request.kind, !.request = s.request, !.air = s.air]
      /\ result' = NoResult
      /\ returned' = "kInvalidArgument"

\* The search ends with an error, and what it found is cleared.
Abort(status) ==
  /\ result' = NoResult
  /\ returned' = status
  /\ UNCHANGED search

Advance == search' = [search EXCEPT !.next = @ + 1] /\ UNCHANGED returned

\* A decoder's refusal: only the SI search takes it for a candidate without a DCI.
DecoderFails ==
  /\ Searching
  /\ \E status \in DecoderFailures :
       IF search.kind = "si" /\ status = "kUnsupportedConfig"
       THEN /\ search' = [search EXCEPT !.next = @ + 1, !.failures = @ + 1]
            /\ UNCHANGED <<result, returned>>
       ELSE Abort(status)

\* A word with the RNTI that is no assignment: the UE-specific and the SI search go on.
reject(status) ==
  CASE search.kind = "ue" ->
         /\ result' = [result EXCEPT !.decoded_candidate_count = @ + 1, !.semantic_reject_count = @ + 1]
         /\ Advance
    [] search.kind = "si" -> Advance /\ UNCHANGED result
    [] OTHER -> Abort(status)

\* Mutant: a candidate that misses is not counted as decoded.
miss_uncounted ==
  /\ result' = IF search.kind = "ue" THEN [result EXCEPT !.crc_rnti_miss_count = @ + 1] ELSE result
  /\ Advance

miss ==
  /\ result' = IF search.kind = "ue"
               THEN [result EXCEPT !.decoded_candidate_count = @ + 1, !.crc_rnti_miss_count = @ + 1]
               ELSE result
  /\ Advance

hit(h) ==
  /\ result' = [result EXCEPT !.hits = Append(@, h),
                              !.decoded_candidate_count = IF search.kind = "ue" THEN @ + 1 ELSE @]
  /\ Advance

DecodeCandidate ==
  /\ Searching
  /\ LET candidate == search.candidates[search.next]
     IN  \E word \in Words(candidate) :
           LET verdict == Verdict(candidate, word)
           IN  \/ verdict.status # "kOk" /\ reject(verdict.status)
               \/ verdict.status = "kOk" /\ ~verdict.matched /\ miss
               \/ /\ verdict.matched
                  /\ IF search.kind = "si" /\ ~SiUsable(verdict.dci) THEN Advance /\ UNCHANGED result
                     ELSE hit(HitOf(candidate, word, verdict))

Finish ==
  /\ search.kind # "none" /\ returned = "none" /\ search.next - 1 = Len(search.candidates)
  /\ returned' = "kOk"
  /\ UNCHANGED <<search, result>>

SearchNext == (\E s \in Searches : Begin(s) \/ Refuse(s)) \/ DecoderFails \/ DecodeCandidate \/ Finish

-----------------------------------------------------------------------------
\* Properties.

\* The space of 36.213, 9.1.1: Y is advanced once per subframe, from -1 on.
StandardY(rnti, subframe) ==
  LET Y[k \in -1 .. 9] == IF k = -1 THEN rnti ELSE times_multiplier(Y[k - 1]) IN Y[subframe]

InUeSpace(rnti, first_cce, level) ==
  LET most == (1 :> 6 @@ 2 :> 6 @@ 4 :> 2 @@ 8 :> 2)[level]
      groups == search.n_cce \div level
  IN  /\ level \in search.request.levels /\ rnti \in Range(search.request.rntis)
      /\ \E m \in 0 .. most - 1 :
           first_cce = level * ((StandardY(rnti, search.request.sfn_subframe % 10) + m) % groups)

InCommonSpace(first_cce, level) ==
  /\ level \in {4, 8} /\ first_cce % level = 0 /\ first_cce < 16
  /\ first_cce + level <= search.n_cce

\* Where the search must look for what is sent.
SearchedFor(sent) ==
  CASE search.kind = "ue"     -> InUeSpace(sent.rnti, sent.first_cce, sent.level)
    [] search.kind = "common" ->
         sent.rnti = search.request.expected_rnti /\ InCommonSpace(sent.first_cce, sent.level)
    [] search.kind = "si"     -> sent.rnti = kSiRnti /\ InCommonSpace(sent.first_cce, sent.level)
    [] search.kind = "fixed"  ->
         sent = [sent EXCEPT !.rnti = search.request.expected_rnti,
                             !.first_cce = search.request.first_cce, !.level = search.request.level]

\* Other words with an RNTI (uplink grants, say) assign no blocks.
IsAssignment(sent) == sent.run.length > 0

\* Of a random-access order only the RNTI and the place are compared.
Reports(h, sent) ==
  /\ h.rnti = sent.rnti /\ h.first_cce = sent.first_cce
  /\ h.dci.start_prb = sent.run.start /\ h.dci.n_prb = sent.run.length
  /\ IsAssignment(sent) =>
       /\ h.dci.mcs_tbs_index = sent.field.mcs /\ h.dci.harq_process = sent.field.harq
       /\ h.dci.redundancy_version = sent.field.rv

\* A search that returns reports every assignment sent in its search space at
\* its own level, once, and nothing that was not sent: whatever else is on
\* the air, a UE-specific or SI search included whose other candidates carry
\* words it rejects (pdcch_module_api.h:1611, :1665).
SearchFindsWhatWasSent ==
  returned = "kOk" /\ search.failures = 0 =>
    /\ \A i \in DOMAIN result.hits : \E sent \in search.air : Reports(result.hits[i], sent)
    /\ \A sent \in search.air : SearchedFor(sent) /\ IsAssignment(sent) =>
         Cardinality({i \in DOMAIN result.hits :
           Reports(result.hits[i], sent) /\ result.hits[i].aggregation_level = sent.level}) = 1

\* At every step of a UE-specific search each decoded candidate is a hit, a
\* miss or a reject; all of them are when it returns, and a search that fails
\* reports nothing at all (pdcch_module_api.h:1593).
SearchCountersAddUp ==
  /\ search.kind = "ue" /\ returned \in {"none", "kOk"} =>
       /\ result.decoded_candidate_count = search.next - 1
       /\ result.decoded_candidate_count = result.crc_rnti_miss_count
            + result.semantic_reject_count + Len(result.hits)
       /\ returned = "kOk" => result.decoded_candidate_count = result.candidate_count
  /\ returned \notin {"none", "kOk"} => result = NoResult

=============================================================================
