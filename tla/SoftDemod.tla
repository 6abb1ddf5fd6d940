------------------------------- MODULE SoftDemod -------------------------------
(***************************************************************************)
(* Soft demodulation and descrambling: src/include/mmse/lte_soft_demod.h,  *)
(* the PDSCH descrambling plan of pdsch_module_api.h and the LLR calls of  *)
(* the control channels.                                                   *)
(*                                                                         *)
(* Floats are integers: symbols count in units of 1 / norm of their        *)
(* constellation, LLRs in units of 1 / norm^2.  An output view is          *)
(* [x_hat_re, x_hat_im, sinr, capacity, n_re, n_layers, mod_order]; its    *)
(* layers lie `capacity` elements apart.                                   *)
(***************************************************************************)
EXTENDS Gold, SequencesExt

kOk == "kOk"
kInvalidArgument == "kInvalidArgument"
kBufferTooSmall == "kBufferTooSmall"

two == <<1, 2, 4, 8, 16>>               \* 1U << n is two[n + 1]

supported_mod_order(mod_order) == mod_order \in {2, 4, 6, 8}

\* At most four bits per axis.
gray_to_binary(gray) ==
  LET b3 == (gray \div 8) % 2
      b2 == (b3 + gray \div 4) % 2
      b1 == (b2 + gray \div 2) % 2
      b0 == (b1 + gray) % 2
  IN  8 * b3 + 4 * b2 + 2 * b1 + b0

axis_level_from_gray(gray, axis_bits) == two[axis_bits + 1] - 1 - 2 * gray_to_binary(gray)

gray_bit(gray, axis_bits, bit) == (gray \div two[axis_bits - bit]) % 2

sq_dist(x, level, gamma) == gamma * (x - level) * (x - level)

min2(a, b) == IF a < b THEN a ELSE b

Abs(x) == IF x < 0 THEN -x ELSE x

\* The sign bit of an axis: nearest point of its own side against the other side.
SignLlr(x, same, opp) == IF x < 0 THEN opp - same ELSE same - opp

build_axis_llrs_16qam(x, gamma) ==
  LET d(level) == sq_dist(Abs(x), level, gamma)
  IN  << SignLlr(x, min2(d(1), d(3)), d(-1)), d(3) - d(1) >>

\* Mutant: the last bit compares the inner pair with the outer pair.
build_axis_llrs_64qam_pairs(x, gamma) ==
  LET d(level) == sq_dist(Abs(x), level, gamma)
  IN  << SignLlr(x, min2(min2(d(1), d(3)), min2(d(5), d(7))), d(-1)),
         min2(d(5), d(7)) - min2(d(1), d(3)),
         min2(d(1), d(3)) - min2(d(5), d(7)) >>

build_axis_llrs_64qam(x, gamma) ==
  LET d(level) == sq_dist(Abs(x), level, gamma)
  IN  << SignLlr(x, min2(min2(d(1), d(3)), min2(d(5), d(7))), d(-1)),
         min2(d(5), d(7)) - min2(d(1), d(3)),
         min2(d(1), d(7)) - min2(d(3), d(5)) >>

\* min(X^0) - min(X^1) over the points of one axis.
max_log_axis_llrs(x, gamma, axis_bits) ==
  LET nearest(bit, value) ==
        Min({ sq_dist(x, axis_level_from_gray(gray, axis_bits), gamma) :
                gray \in { g \in 0 .. two[axis_bits + 1] - 1 : gray_bit(g, axis_bits, bit) = value } })
  IN  [b \in 1 .. axis_bits |-> nearest(b - 1, 0) - nearest(b - 1, 1)]

axis_llrs(x, gamma, mod_order) ==
  CASE mod_order = 2 -> << -4 * gamma * x >>
    [] mod_order = 4 -> build_axis_llrs_16qam(x, gamma)
    [] mod_order = 6 -> build_axis_llrs_64qam(x, gamma)
    [] OTHER -> max_log_axis_llrs(x, gamma, mod_order \div 2)

\* The LLRs of one element: I and Q alternate.
ElementLlrs(out, i) ==
  LET gamma == Max({out.sinr[i], 0})
      li == axis_llrs(out.x_hat_re[i], gamma, out.mod_order)
      lq == axis_llrs(out.x_hat_im[i], gamma, out.mod_order)
  IN  [k \in 1 .. out.mod_order |-> IF k % 2 = 1 THEN li[(k + 1) \div 2] ELSE lq[k \div 2]]

\* Where the elements of the layers lie, layer after layer.
elements(out) ==
  FlattenSeq([layer \in 1 .. out.n_layers |->
                [re \in 1 .. out.n_re |-> (layer - 1) * out.capacity + re]])

total_llr_count(out) == out.n_layers * out.n_re * out.mod_order

AcceptedView(out) ==
  supported_mod_order(out.mod_order) /\ out.n_layers # 0 /\ out.capacity >= out.n_re

Failed(status) == [status |-> status, llrs |-> <<>>]

build_max_log_llrs(out) ==
  IF ~AcceptedView(out) THEN Failed(kInvalidArgument)
  ELSE LET at == elements(out)
       IN  [status |-> kOk, llrs |-> FlattenSeq([k \in DOMAIN at |-> ElementLlrs(out, at[k])])]

\* Fused: the registers step with every LLR written (256QAM descrambles a copy).
build_max_log_descrambled_llrs(out, c_init, llr_capacity) ==
  LET plain == build_max_log_llrs(out)
      bits  == stepped[Len(plain.llrs)][init_gold(c_init)]
  IN  CASE ~AcceptedView(out) -> Failed(kInvalidArgument)
        [] AcceptedView(out) /\ llr_capacity < total_llr_count(out) -> Failed(kBufferTooSmall)
        [] OTHER -> [status |-> kOk,
                     llrs |-> IF out.mod_order = 8 THEN descramble_llrs_inplace(plain.llrs, c_init)
                              ELSE [i \in DOMAIN bits |-> xor_sign_mask(plain.llrs[i], bits[i])]]

\* With the bits of a plan.
build_with_cached_bits(out, bits, llr_capacity) ==
  LET plain == build_max_log_llrs(out)
  IN  CASE ~AcceptedView(out) -> Failed(kInvalidArgument)
        [] AcceptedView(out) /\ (\/ llr_capacity < total_llr_count(out)
                                 \/ Len(bits) < total_llr_count(out)) -> Failed(kBufferTooSmall)
        [] OTHER -> [status |-> kOk,
                     llrs |-> [i \in DOMAIN plain.llrs |-> xor_sign_mask(plain.llrs[i], bits[i])]]

-----------------------------------------------------------------------------
(* PDSCH: one descrambling plan kept by the caller from call to call. *)

NoPlan == [valid |-> FALSE, c_init |-> 0, llr_count |-> 0, bits |-> <<>>]

pdsch_call_c_init(call) ==
  pdsch_c_init(call.cell_id, call.rnti, call.sfn_subframe, call.codeword)

\* Mutant: the plan is compared without the length of its bits.
prepare_pdsch_descrambling_plan_any_length(call, plan) ==
  LET c_init == pdsch_call_c_init(call)
      count  == total_llr_count(call.out)
  IN  IF plan.valid /\ plan.c_init = c_init THEN plan
      ELSE [valid |-> TRUE, c_init |-> c_init, llr_count |-> count,
            bits |-> generate_scrambling_bits(c_init, count)]

prepare_pdsch_descrambling_plan(call, plan) ==
  LET c_init == pdsch_call_c_init(call)
      count  == total_llr_count(call.out)
  IN  IF plan.valid /\ plan.c_init = c_init /\ plan.llr_count = count THEN plan
      ELSE [valid |-> TRUE, c_init |-> c_init, llr_count |-> count,
            bits |-> generate_scrambling_bits(c_init, count)]

build_backend_pdsch_descrambled_llr_result(call) ==
  build_max_log_descrambled_llrs(call.out, pdsch_call_c_init(call), call.llr_capacity)

\* The same with a plan, which is prepared before the view is looked at.
build_backend_pdsch_llr_result_with_plan(call, plan) ==
  build_with_cached_bits(call.out, prepare_pdsch_descrambling_plan(call, plan).bits,
                         call.llr_capacity)

-----------------------------------------------------------------------------
(* Control channels: PBCH, PCFICH and PDCCH. *)

Descrambled(out, c_init) == descramble_llrs_inplace(build_max_log_llrs(out).llrs, c_init)

\* No layer counts as one; the elements share the layers.
make_backend_descrambled_llr_indication(out, c_init) ==
  LET n_layers == IF out.n_layers = 0 THEN 1 ELSE out.n_layers
      n_re     == Len(out.x_hat_re) \div n_layers
  IN  Descrambled([out EXCEPT !.n_layers = n_layers, !.n_re = n_re, !.capacity = n_re], c_init)

\* Transmit diversity, PBCH and PCFICH: one layer of QPSK or nothing.
make_backend_td_descrambled_llr_indication(out, c_init) ==
  LET n_re == Len(out.x_hat_re)
  IN  IF out.n_layers = 1 /\ out.mod_order = 2 /\ Len(out.x_hat_im) = n_re /\ Len(out.sinr) = n_re
      THEN Descrambled([out EXCEPT !.n_re = n_re, !.capacity = n_re], c_init)
      ELSE <<>>

populate_pdcch_gold_words(c_init, n_re) == stepped[2 * n_re][init_gold(c_init)]

\* The device's soft bits of a PDCCH: one thread each, with bits made on the host.
pdcch_llr_descramble_kernel(out, c_init) ==
  LET count == 2 * Len(out.x_hat_re)
      gold  == populate_pdcch_gold_words(c_init, Len(out.x_hat_re))
      value(re, x) == -4 * Max({out.sinr[re], 0}) * x[re]
  IN  [i \in 1 .. count |->
         LET re == (i + 1) \div 2
         IN  xor_sign_mask(value(re, IF i % 2 = 1 THEN out.x_hat_re ELSE out.x_hat_im), gold[i])]

=============================================================================
