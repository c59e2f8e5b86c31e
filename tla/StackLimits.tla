---------------------------- MODULE StackLimits -----------------------------
(***************************************************************************)
(* The memory the two walkers of exdsptch.c read, and the stack-limit      *)
(* check they share.  RtlDispatchException (lines 193-232) and RtlUnwind   *)
(* (lines 532-567) both test a registration record against the current     *)
(* stack limits with 32-bit ULONG arithmetic and, when it is outside them, *)
(* fall back once to the DPC stack of the current processor.               *)
(*                                                                         *)
(* Addresses are words of Width bits: HighAddress = RegistrationPointer +  *)
(* sizeof(EXCEPTION_REGISTRATION_RECORD) is computed modulo 2^Width, as    *)
(* the ULONG addition in the code is.                                      *)
(***************************************************************************)
EXTENDS Integers, FiniteSets

CONSTANTS
  Width,            \* bits of a ULONG address (32 in the code)
  RecordSize,       \* sizeof(EXCEPTION_REGISTRATION_RECORD): Next, Handler
  KernelStackSize,  \* KERNEL_STACK_SIZE
  StackLow,         \* LowLimit returned by RtlpGetStackLimits
  StackHigh,        \* HighLimit returned by RtlpGetStackLimits
  DpcStack,         \* Prcb->DpcStack: top of the processor's DPC stack
  Addrs             \* addresses at which registration records may lie

WordLimit == 2^Width

Word == 0 .. WordLimit - 1

\* EXCEPTION_CHAIN_END is (PEXCEPTION_REGISTRATION_RECORD)-1.
ChainEnd == WordLimit - 1

ASSUME LimitsAssumption ==
  /\ Width \in Nat \ {0}
  \* true of every Width in Nat; stated because the provers cannot do the
  \* induction over Nat that shows it
  /\ WordLimit \in Nat \ {0}
  /\ RecordSize \in Nat \ {0}
  /\ KernelStackSize \in Nat \ {0}
  /\ StackLow \in Word /\ StackHigh \in Word /\ DpcStack \in Word
  /\ Addrs \subseteq Word \ {0, ChainEnd}

\* LowLimit after the switch to the DPC stack: DpcStack - KERNEL_STACK_SIZE
\* as a ULONG.
DpcLow == (DpcStack - KernelStackSize) % WordLimit

\* HighAddress = (ULONG)RegistrationPointer + sizeof(...), lines 193-194.
HighAddress(a) == (a + RecordSize) % WordLimit

Aligned(a) == a % 4 = 0

\* The test of lines 196-199 (and 535-537): the record is below the low
\* limit, ends above the high limit, or is not 4-byte aligned.
OutOfLimits(a, low, high) ==
  \/ a < low
  \/ HighAddress(a) > high
  \/ ~ Aligned(a)

\* The condition of lines 208-216 (and 547-555) under which the record is
\* taken to lie on the DPC stack: aligned, IRQL >= DISPATCH_LEVEL, a DPC
\* routine active, and the record inside [DpcStack - KERNEL_STACK_SIZE,
\* DpcStack).
OnDpcStack(a, irqlHigh, dpcActive) ==
  /\ Aligned(a)
  /\ irqlHigh
  /\ dpcActive
  /\ HighAddress(a) <= DpcStack
  /\ a >= DpcLow

\* The chain links of a memory: next[a] is RegistrationPointer->Next of
\* the record at a.
Memory == [Addrs -> Addrs \cup {ChainEnd}]

\* The record reached from a by following Next k times (ChainEnd once the
\* chain has ended).
Walk(next, a) ==
  LET w[k \in Nat] ==
        IF k = 0 THEN a
        ELSE LET p == w[k - 1] IN IF p = ChainEnd THEN ChainEnd ELSE next[p]
  IN  w

\* The records reachable from a by following Next at least once.
After(next, a) ==
  {Walk(next, a)[k] : k \in 1 .. Cardinality(Addrs)} \cap Addrs

\* A chain as the code maintains it: every Next link points to an older
\* frame, at a higher address (spec section 3, "successive next links are
\* strictly increasing").
Intact(next) == \A a \in Addrs : next[a] > a

\* The frame a lies wholly on the thread stack or on the DPC stack, in
\* unbounded integer arithmetic.
OnAStack(a) ==
  \/ StackLow <= a /\ a + RecordSize <= StackHigh
  \/ DpcStack - KernelStackSize <= a /\ a + RecordSize <= DpcStack
=============================================================================
