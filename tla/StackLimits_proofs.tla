------------------------- MODULE StackLimits_proofs -------------------------
(***************************************************************************)
(* Lemmas about the stack-limit test that RtlDispatchException and         *)
(* RtlUnwind share (lines 193-232 and 532-567): away from the top of the   *)
(* address space, a record that passes the test under the thread's limits  *)
(* or under the DPC stack's limits lies wholly on that stack.              *)
(***************************************************************************)
EXTENDS StackLimits, TLAPS

\* The two pairs of limits a walker tests against: those RtlpGetStackLimits
\* returned, and those of the DPC stack it switches to at most once.
LimitPairs == {<<StackLow, StackHigh>>, <<DpcLow, DpcStack>>}

\* The record at a does not reach the top of the address space, so the
\* ULONG addition RegistrationPointer + sizeof(...) does not wrap.
NoWrap(a) == a + RecordSize < WordLimit

\* The constants' facts the lemmas use.
LEMMA LimitFacts ==
  /\ WordLimit \in Nat \ {0}
  /\ RecordSize \in Nat \ {0}
  /\ KernelStackSize \in Nat \ {0}
  /\ StackLow \in Word /\ StackHigh \in Word /\ DpcStack \in Word
  /\ Addrs \subseteq Word
BY LimitsAssumption

\* The DPC stack's low limit, DpcStack - KERNEL_STACK_SIZE as a ULONG, is
\* no lower than the true bottom of the DPC stack: the subtraction only
\* wraps upwards.
LEMMA DpcLowAbove == DpcLow >= DpcStack - KernelStackSize
<1>1. DpcStack - KernelStackSize \in Int /\ DpcStack - KernelStackSize < WordLimit
  BY LimitFacts DEF Word
<1>2. QED
  BY <1>1, LimitFacts DEF DpcLow

\* Without the wrap, HighAddress is the true end of the record.
LEMMA HighAddressNoWrap ==
  ASSUME NEW a \in Addrs, NoWrap(a)
  PROVE  HighAddress(a) = a + RecordSize
BY LimitFacts DEF HighAddress, NoWrap, Word

\* A record that does not wrap and passes the limit test of lines 196-199
\* (or 535-537) under either pair of limits lies on a stack.
LEMMA InLimitsOnAStack ==
  ASSUME NEW a \in Addrs, NoWrap(a),
         NEW lh \in LimitPairs, ~ OutOfLimits(a, lh[1], lh[2])
  PROVE  OnAStack(a)
<1>0. a \in Int /\ lh[1] \in Int /\ lh[2] \in Int /\ DpcLow \in Int
  <2>1. DpcLow \in Int
    BY LimitFacts DEF DpcLow, Word
  <2>2. QED
    BY <2>1, LimitFacts DEF LimitPairs, Word
<1>1. a >= lh[1] /\ a + RecordSize <= lh[2]
  BY <1>0, LimitFacts, HighAddressNoWrap DEF OutOfLimits
<1>2. CASE lh = <<StackLow, StackHigh>>
  BY <1>1, <1>2 DEF OnAStack
<1>3. CASE lh = <<DpcLow, DpcStack>>
  BY <1>0, <1>1, <1>3, DpcLowAbove, LimitFacts DEF OnAStack, Word
<1>4. QED
  BY <1>2, <1>3 DEF LimitPairs

\* Under the DPC stack's limits, the test of lines 208-216 (and 547-555)
\* that a record lies on the DPC stack is the limit test and the IRQL and
\* DPC conditions; so a record out of the DPC stack's limits is never taken
\* to be on it, and a walker switches to the DPC stack at most once.
LEMMA OnDpcStackInDpcLimits ==
  ASSUME NEW a \in Addrs, NEW i, NEW d
  PROVE  OnDpcStack(a, i, d) <=> (~ OutOfLimits(a, DpcLow, DpcStack) /\ i /\ d)
<1>1. HighAddress(a) \in Int /\ DpcLow \in Int /\ a \in Int
  BY LimitFacts DEF HighAddress, DpcLow, Word
<1>2. QED
  BY <1>1, LimitFacts DEF OnDpcStack, OutOfLimits, Word
=============================================================================
