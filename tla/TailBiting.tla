------------------------------ MODULE TailBiting ------------------------------
(***************************************************************************)
(* The tail-biting Viterbi decoder of the PDCCH: the host decoder          *)
(* (src/src/pdcch_tail_biting_decoder.cpp) and the device kernels          *)
(* (src/src/mmse_cuda_runtime.cu).  Soft bits are integers and negative    *)
(* soft bits favour zero.  A word of any length up to the code's bound can *)
(* be decoded; the kernels decode words of one length.                     *)
(***************************************************************************)
EXTENDS Integers, Sequences, SequencesExt

kStateCount == 64
kHighPredecessorStateBit == 32
kMaxCodewordBitCount == 144             \* kPdcchMaxDciPayloadBits + kPdcchCrcBitCount
kGeneratorPolynomials == << <<1, 1, 0, 1, 1, 0, 1>>,      \* 0133, bit 0 first
                            <<1, 0, 0, 1, 1, 1, 1>>,      \* 0171
                            <<1, 0, 1, 0, 1, 1, 1>> >>    \* 0165

NegInf == -1000000
Plus(a, b) == IF a = NegInf THEN NegInf ELSE a + b

\* A sequence TLC evaluates once.
Evaluated(f) == SubSeq(f, 1, Len(f))

parity_of_taps(shift_register, stream) ==
  LET taps == kGeneratorPolynomials[stream]
  IN  FoldLeft(LAMBDA sum, k : (sum + taps[k] * (shift_register \div 2^(k - 1))) % 2,
               0, <<1, 2, 3, 4, 5, 6, 7>>)

\* The class of a branch has bit k set when stream k + 1 sends a one.
branch_output_class(shift_register) ==
  parity_of_taps(shift_register, 1) + 2 * parity_of_taps(shift_register, 2)
    + 4 * parity_of_taps(shift_register, 3)

\* Of the branch from the lower predecessor to an even state.
kLowPredecessorZeroOutputClasses ==
  Evaluated([low \in 1 .. kStateCount \div 2 |-> branch_output_class(2 * (low - 1))])

\* The table compiled into the kernel.
kPdcchLowZeroBranchClass ==
  << 0, 1, 4, 5, 3, 2, 7, 6, 7, 6, 3, 2, 4, 5, 0, 1,
     6, 7, 2, 3, 5, 4, 1, 0, 1, 0, 5, 4, 2, 3, 6, 7 >>

pdcch_branch_metric(llrs, class) ==
  LET sign(k) == IF (class \div 2^(k - 1)) % 2 = 1 THEN 1 ELSE -1
  IN  sign(1) * llrs[1] + sign(2) * llrs[2] + sign(3) * llrs[3]

\* A register of each class, in the order of the classes.
kClassRegisters == <<0, 2, 7, 5, 4, 6, 3, 1>>

branch_metric(llrs, shift_register) ==
  pdcch_branch_metric(llrs, branch_output_class(shift_register))

triplet(llrs, bit) == SubSeq(llrs, 3 * bit - 2, 3 * bit)

host_metrics(llrs) ==
  Evaluated([bit \in 1 .. Len(llrs) \div 3 |->
    Evaluated([c \in 1 .. 8 |-> branch_metric(triplet(llrs, bit), kClassRegisters[c])])])

device_metrics(llrs) ==
  Evaluated([bit \in 1 .. Len(llrs) \div 3 |->
    Evaluated([c \in 1 .. 8 |-> pdcch_branch_metric(triplet(llrs, bit), c - 1)])])

\* Mutant: the branches into odd states have the class of the even ones.
extend_one_class(path, bit_metrics, classes) ==
  LET direct(t) == bit_metrics[classes[t] + 1]
      complement(t) == bit_metrics[8 - classes[t]]
      low  == Evaluated([k \in 1 .. kStateCount |->
                Plus(path.metrics[(k + 1) \div 2], direct((k + 1) \div 2))])
      high == Evaluated([k \in 1 .. kStateCount |->
                Plus(path.metrics[(k + 1) \div 2 + 32], complement((k + 1) \div 2))])
  IN  [metrics |-> Evaluated([k \in 1 .. kStateCount |->
                     IF high[k] > low[k] THEN high[k] ELSE low[k]]),
       high |-> Append(path.high, {k - 1 : k \in {j \in 1 .. kStateCount : high[j] > low[j]}})]

\* One bit: the better predecessor of each state, the lower one when equal;
\* `high` collects the states which the higher predecessor won, bit by bit.
extend(path, bit_metrics, classes) ==
  LET class(k) == IF k % 2 = 1 THEN classes[(k + 1) \div 2] ELSE 7 - classes[k \div 2]
      low  == Evaluated([k \in 1 .. kStateCount |->
                Plus(path.metrics[(k + 1) \div 2], bit_metrics[class(k) + 1])])
      high == Evaluated([k \in 1 .. kStateCount |->
                Plus(path.metrics[(k + 1) \div 2 + 32], bit_metrics[8 - class(k)])])
  IN  [metrics |-> Evaluated([k \in 1 .. kStateCount |->
                     IF high[k] > low[k] THEN high[k] ELSE low[k]]),
       high |-> Append(path.high, {k - 1 : k \in {j \in 1 .. kStateCount : high[j] > low[j]}})]

\* The paths from one initial state.
trellis[initial_state \in 0 .. kStateCount - 1, metrics \in Seq(Seq(Int)), classes \in Seq(Nat)] ==
  LET start == [metrics |-> Evaluated([k \in 1 .. kStateCount |->
                              IF k - 1 = initial_state THEN 0 ELSE NegInf]),
                high |-> <<>>]
      path[bit \in 0 .. Len(metrics)] ==
        IF bit = 0 THEN start ELSE extend(path[bit - 1], metrics[bit], classes)
  IN  path[Len(metrics)]

\* The bits of the surviving path, and the state it began in.
traceback(state, high) ==
  FoldRight(LAMBDA winners, t :
              [bits |-> <<t.state % 2>> \o t.bits,
               state |-> t.state \div 2
                           + (IF t.state \in winners THEN kHighPredecessorStateBit ELSE 0)],
            high, [bits |-> <<>>, state |-> state])

Undecoded(status) == [status |-> status, bits |-> <<>>]

\* Each initial state in turn; a later one must be better.
host_search[metrics \in Seq(Seq(Int))] ==
  LET try(found, initial_state, path) ==
        LET back == traceback(initial_state, path.high)
        IN  IF path.metrics[initial_state + 1] <= found.metric \/ back.state # initial_state
            THEN found
            ELSE [metric |-> path.metrics[initial_state + 1], bits |-> back.bits]
      best[n \in 0 .. kStateCount] ==
        IF n = 0 THEN [metric |-> NegInf, bits |-> <<>>]
        ELSE try(best[n - 1], n - 1, trellis[n - 1, metrics, kLowPredecessorZeroOutputClasses])
  IN  best[kStateCount]

decode_pdcch_tail_biting_convolutional(codeword_bit_count, llrs) ==
  IF codeword_bit_count \notin 1 .. kMaxCodewordBitCount \/ Len(llrs) # 3 * codeword_bit_count
  THEN Undecoded("kInvalidArgument")
  ELSE LET best == host_search[host_metrics(llrs)]
       IN  IF best.metric = NegInf THEN Undecoded("kInternalError")
           ELSE [status |-> "kOk", bits |-> best.bits]

\* The kernels: every initial state at once, the first of the best ends, one traceback.
device_search[metrics \in Seq(Seq(Int))] ==
  LET paths == Evaluated([k \in 1 .. kStateCount |->
                            trellis[k - 1, metrics, kPdcchLowZeroBranchClass]])
      ends == Evaluated([k \in 1 .. kStateCount |-> paths[k].metrics[k]])
      best == CHOOSE k \in 1 .. kStateCount :
                /\ \A j \in 1 .. kStateCount : ends[j] <= ends[k]
                /\ \A j \in 1 .. k - 1 : ends[j] < ends[k]
  IN  traceback(best - 1, paths[best].high).bits

device_decode(llrs) == device_search[device_metrics(llrs)]

-----------------------------------------------------------------------------
(* What the decoder is compared with. *)

\* The tail-biting encoder: the register starts with the last bits of the word.
Encode(bits) ==
  LET n == Len(bits)
      register(k) == FoldLeft(LAMBDA r, i : r + 2^i * bits[((k - 1 - i) % n) + 1], 0,
                              <<0, 1, 2, 3, 4, 5, 6>>)
  IN  FlattenSeq([k \in 1 .. n |-> [stream \in 1 .. 3 |-> parity_of_taps(register(k), stream)]])

\* How well soft bits agree with a codeword.
Correlation(codeword, llrs) ==
  FoldLeft(LAMBDA sum, i : sum + (2 * codeword[i] - 1) * llrs[i], 0, [i \in DOMAIN llrs |-> i])

=============================================================================
