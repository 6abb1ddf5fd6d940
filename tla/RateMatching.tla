----------------------------- MODULE RateMatching -----------------------------
(***************************************************************************)
(* Rate recovery of a PDCCH candidate: the host's                          *)
(* (src/include/mmse/pdcch_module_api.h) and the device kernel's           *)
(* (src/src/mmse_cuda_runtime.cu).  Soft bits are integers; positions that *)
(* count from zero in the code count from one in the sequences here.       *)
(***************************************************************************)
EXTENDS Integers, Sequences, SequencesExt

kColumns == 32
kPdcchCrcBitCount == 16
kPdcchMaxDciPayloadBits == 128
kConvolutionalCodeRate == 3
AggregationLevels == {1, 2, 4, 8}

kPermutation == << 1, 17, 9, 25, 5, 21, 13, 29, 3, 19, 11, 27, 7, 23, 15, 31,
                   0, 16, 8, 24, 4, 20, 12, 28, 2, 18, 10, 26, 6, 22, 14, 30 >>
kInversePermutation == << 16, 0, 24, 8, 20, 4, 28, 12, 18, 2, 26, 10, 22, 6, 30, 14,
                          17, 1, 25, 9, 21, 5, 29, 13, 19, 3, 27, 11, 23, 7, 31, 15 >>

row_count(codeword_bit_count) == (codeword_bit_count + kColumns - 1) \div kColumns
interleaver_size(codeword_bit_count) == row_count(codeword_bit_count) * kColumns
dummy_bit_count(codeword_bit_count) == interleaver_size(codeword_bit_count) - codeword_bit_count

\* The slots of the circular buffer that hold a bit of the codeword, in its order.
present_slots(codeword_bit_count) ==
  LET rows == row_count(codeword_bit_count)
      size == interleaver_size(codeword_bit_count)
      original_bit_index(slot) ==
        ((slot % size) % rows) * kColumns + kPermutation[(slot % size) \div rows + 1]
  IN  SelectSeq([k \in 1 .. kConvolutionalCodeRate * size |-> k - 1],
                LAMBDA slot : original_bit_index(slot) >= dummy_bit_count(codeword_bit_count))

\* The inputs that come round to the k-th slot, n slots apart.
arrivals(count, k, n) == {k + round * n : round \in 0 .. (count - k) \div n}

\* Mutant: a soft bit that comes round again replaces the first one.
collected_last(llrs, slots) ==
  [slot \in Range(slots) |->
     LET k == CHOOSE j \in DOMAIN slots : slots[j] = slot
         inputs == arrivals(Len(llrs), k, Len(slots))
     IN  IF inputs = {} THEN 0 ELSE llrs[Max(inputs)]]

\* What comes round again is added; what was not sent is zero.
collected(llrs, slots) ==
  [slot \in Range(slots) |->
     LET k == CHOOSE j \in DOMAIN slots : slots[j] = slot
     IN  MapThenSumSet(LAMBDA i : llrs[i], arrivals(Len(llrs), k, Len(slots)))]

recover_pdcch_convolutional_rate_matched_llrs(llrs, aggregation_level, dci_payload_bit_count) ==
  LET codeword_bit_count == dci_payload_bit_count + kPdcchCrcBitCount
      size == interleaver_size(codeword_bit_count)
      buffer == collected(llrs, present_slots(codeword_bit_count))
      slot(bit, stream) ==
        LET padded_bit == bit + dummy_bit_count(codeword_bit_count)
        IN  stream * size + kInversePermutation[(padded_bit % kColumns) + 1]
                * row_count(codeword_bit_count)
              + padded_bit \div kColumns
  IN  IF \/ dci_payload_bit_count \notin 1 .. kPdcchMaxDciPayloadBits
         \/ aggregation_level \notin AggregationLevels
         \/ Len(llrs) # 72 * aggregation_level
      THEN [status |-> "kInvalidArgument", llrs |-> <<>>]
      ELSE [status |-> "kOk",
            llrs |-> [k \in 1 .. kConvolutionalCodeRate * codeword_bit_count |->
                        buffer[slot((k - 1) \div 3, (k - 1) % 3)]]]

kPdcchRateRecoveryInputOffsets == <<
   28, 72, 116, 6, 50, 94, 39, 83, 127, 17, 61, 105, 25, 69, 113, 3, 47, 91,
   36, 80, 124, 14, 58, 102, 31, 75, 119, 9, 53, 97, 42, 86, 130, 20, 64, 108,
   22, 66, 110, 0, 44, 88, 33, 77, 121, 11, 55, 99, 27, 71, 115, 5, 49, 93,
   38, 82, 126, 16, 60, 104, 24, 68, 112, 2, 46, 90, 35, 79, 123, 13, 57, 101,
   30, 74, 118, 8, 52, 96, 41, 85, 129, 19, 63, 107, 23, 67, 111, 1, 45, 89,
   34, 78, 122, 12, 56, 100, 29, 73, 117, 7, 51, 95, 40, 84, 128, 18, 62, 106,
   26, 70, 114, 4, 48, 92, 37, 81, 125, 15, 59, 103, 32, 76, 120, 10, 54, 98,
   43, 87, 131, 21, 65, 109 >>

\* The kernel reads the candidate where it lies in the soft bits of the region.
device_recover(region_llrs, first_cce, encoded_bit_count) ==
  [k \in DOMAIN kPdcchRateRecoveryInputOffsets |->
     MapThenSumSet(LAMBDA i : region_llrs[first_cce * 72 + i],
                   arrivals(encoded_bit_count, kPdcchRateRecoveryInputOffsets[k] + 1, 132))]

-----------------------------------------------------------------------------
(* The transmitter of 36.212, 5.1.4.2, to compare with. *)

\* Five bits read backwards.
Reversed5(n) == 16 * (n % 2) + 8 * ((n \div 2) % 2) + 4 * ((n \div 4) % 2)
                  + 2 * ((n \div 8) % 2) + n \div 16

\* Rows are written after the dummies, the columns are permuted and read one by one.
\* <<bit, stream>> of the i-th bit sent, without the repetitions.
SentOrder(codeword_bit_count) ==
  LET rows == (codeword_bit_count + 31) \div 32
      dummies == 32 * rows - codeword_bit_count
      column(j) == [row \in 1 .. rows |-> 32 * (row - 1) + Reversed5((j + 16) % 32) - dummies]
      stream == SelectSeq(FlattenSeq([j \in 1 .. 32 |-> column(j - 1)]), LAMBDA bit : bit >= 0)
  IN  FlattenSeq([s \in 1 .. 3 |-> [k \in DOMAIN stream |-> <<stream[k], s - 1>>]])

=============================================================================
