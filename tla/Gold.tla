--------------------------------- MODULE Gold ---------------------------------
(***************************************************************************)
(* The length-31 Gold sequence that scrambles the downlink channels        *)
(* (src/include/mmse/lte_descrambling.h).  A register is an integer below  *)
(* 2^31 whose bit k is the sample k steps ahead.                           *)
(***************************************************************************)
EXTENDS Integers, Sequences

kDescramblingNc == 1600

Bits == {0, 1}
Registers == [x1 : Nat, x2 : Nat]

Bit(x, k) == (x \div 2^k) % 2

pbch_c_init(cell_id) == cell_id

pdcch_c_init(cell_id, sfn_subframe) == (sfn_subframe % 10) * 2^9 + cell_id

pcfich_c_init(cell_id, sfn_subframe) ==
  (((sfn_subframe % 10) + 1) * (2 * cell_id + 1)) * 2^9 + cell_id

pdsch_c_init(cell_id, rnti, sfn_subframe, codeword) ==
  rnti * 2^14 + codeword * 2^13 + (sfn_subframe % 10) * 2^9 + cell_id

gold_step(r) ==
  LET feedback1 == (Bit(r.x1, 3) + Bit(r.x1, 0)) % 2
      feedback2 == (Bit(r.x2, 3) + Bit(r.x2, 2) + Bit(r.x2, 1) + Bit(r.x2, 0)) % 2
  IN  [x1 |-> r.x1 \div 2 + feedback1 * 2^30, x2 |-> r.x2 \div 2 + feedback2 * 2^30]

\* The registers n steps later.
advance[n \in Nat] ==
  [r \in Registers |->
     CASE n = 0 -> r
       [] n = 1 -> gold_step(r)
       [] OTHER -> advance[n - n \div 2][advance[n \div 2][r]]]

\* The mask to 31 bits leaves every c_init above as it is.
init_gold(c_init) == advance[kDescramblingNc][[x1 |-> 1, x2 |-> c_init]]

gold_bit(r) == (Bit(r.x1, 0) + Bit(r.x2, 0)) % 2

\* The sequence sample by sample, as the fused LLR builders step it.
stepped[n \in Nat] ==
  [r \in Registers |-> IF n = 0 THEN <<>> ELSE <<gold_bit(r)>> \o stepped[n - 1][advance[1][r]]]

\* The sequence in blocks of eight with the remainder at the end.
unrolled[n \in Nat] ==
  [r \in Registers |-> IF n < 8 THEN stepped[n][r] ELSE stepped[8][r] \o unrolled[n - 8][advance[8][r]]]

generate_scrambling_bits(c_init, count) == unrolled[count][init_gold(c_init)]

\* A bit of the sequence turns the sign of an LLR.
xor_sign_mask(value, bit) == IF bit = 1 THEN -value ELSE value

descramble_llrs_inplace(llrs, c_init) ==
  LET bits == generate_scrambling_bits(c_init, Len(llrs))
  IN  [i \in DOMAIN llrs |-> xor_sign_mask(llrs[i], bits[i])]

-----------------------------------------------------------------------------
(* The definition of the sequence in 36.211, 7.2, to compare with. *)

\* The two sequences as far as they are known, and one sample further:
\* x1(i + 31) is x1(i + 3) + x1(i), x2(i + 31) also adds x2(i + 2) and x2(i + 1).
Known == {s \in Seq(Bits) : Len(s) >= 31}
Beginnings == [x1 : Known, x2 : Known]

NextSamples(s) ==
  LET i == Len(s.x1) - 30
      j == Len(s.x2) - 30
  IN  [x1 |-> Append(s.x1, (s.x1[i + 3] + s.x1[i]) % 2),
       x2 |-> Append(s.x2, (s.x2[j + 3] + s.x2[j + 2] + s.x2[j + 1] + s.x2[j]) % 2)]

\* The sequences with n samples more.
grown[n \in Nat] ==
  [s \in Beginnings |->
     CASE n = 0 -> s
       [] n = 1 -> NextSamples(s)
       [] OTHER -> grown[n - n \div 2][grown[n \div 2][s]]]

FirstSamples(c_init) ==
  [x1 |-> [i \in 1 .. 31 |-> IF i = 1 THEN 1 ELSE 0], x2 |-> [i \in 1 .. 31 |-> Bit(c_init, i - 1)]]

StandardBits(c_init, count) ==
  LET x == grown[kDescramblingNc + count][FirstSamples(c_init)]
  IN  [i \in 1 .. count |-> (x.x1[kDescramblingNc + i] + x.x2[kDescramblingNc + i]) % 2]

=============================================================================
