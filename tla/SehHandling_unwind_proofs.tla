---------------------- MODULE SehHandling_unwind_proofs ---------------------
(***************************************************************************)
(* Proof that the global unwind a handler starts from inside the dispatch  *)
(* reaches the handler's frame: it never meets a bad stack, a target below *)
(* it or the end of the chain, on chains whose links go to older frames    *)
(* and when the protector lies within the thread's stack limits.          *)
(*                                                                         *)
(* Both walkers test each record against the stack limits and fall back   *)
(* once to the DPC stack (lines 193-232 and 532-567).  The dispatch called *)
(* the handler of every record the unwind visits, so each one passed its   *)
(* test, under the thread's limits or, after a switch at the first record *)
(* outside them, under the DPC stack's.  The unwind meets the same records *)
(* in the same order, with the same IRQL and DPC state, and so switches at *)
(* the same record and accepts every record the dispatch accepted.         *)
(***************************************************************************)
EXTENDS SehHandling_proofs, StackLimits_proofs

ThreadPair == <<StackLow, StackHigh>>

DpcPair == <<DpcLow, DpcStack>>

\* The record at a passes the limit test under the thread's limits.
ThreadOK(a) == ~ OutOfLimits(a, StackLow, StackHigh)

\* The record at a passes the limit test under the DPC stack's limits.
DpcOK(a) == ~ OutOfLimits(a, DpcLow, DpcStack)

\* RtlpExecuteHandlerForException pushes the protector on the stack the
\* dispatcher runs on; here that is the thread stack.
ProtectorOnThreadStack == ThreadOK(Protector)

\* The dispatch's limits are the thread's, or the DPC stack's after a switch
\* that needed IRQL >= DISPATCH_LEVEL and an active DPC; every record whose
\* handler it called passed one of the tests, and once a record outside the
\* thread's limits was called, the limits are the DPC stack's and every
\* later record passed under them.
DispatchLimits ==
  /\ <<dLow, dHigh>> \in {ThreadPair, DpcPair}
  /\ <<dLow, dHigh>> # ThreadPair => irqlHigh /\ dpcActive
  /\ \A a \in dInvoked : ThreadOK(a) \/ DpcOK(a)
  /\ \A a \in dInvoked :
       ~ ThreadOK(a) =>
         /\ <<dLow, dHigh>> = DpcPair
         /\ \A b \in dInvoked : a <= b => DpcOK(b)

\* While the unwind runs, its cursor is the head; its limits are the
\* thread's until it has passed a record the dispatch called outside them.
UnwindLimits ==
  handling /\ uOutcome = "running" =>
    /\ head = uReg
    /\ <<uLow, uHigh>> \in {ThreadPair, DpcPair}
    /\ <<uLow, uHigh>> # ThreadPair =>
         \E a \in dInvoked : a <= uReg /\ ~ ThreadOK(a)

\* The unwind only resumes at its target or fails on a disposition.
UnwindEnds ==
  handling =>
    /\ uOutcome \in {"running", "ZwContinue", "STATUS_INVALID_DISPOSITION"}
    /\ uOutcome = "ZwContinue" => head = uTarget

ReachInv == MatchInv /\ DispatchLimits /\ UnwindLimits /\ UnwindEnds

\* The limit test and the DPC-stack test mean the same in both walkers.
LEMMA InstLimits ==
  /\ \A a, l, h : D!OutOfLimits(a, l, h) <=> OutOfLimits(a, l, h)
  /\ \A a, l, h : U!OutOfLimits(a, l, h) <=> OutOfLimits(a, l, h)
  /\ \A a, i, d : D!OnDpcStack(a, i, d) <=> OnDpcStack(a, i, d)
  /\ \A a, i, d : U!OnDpcStack(a, i, d) <=> OnDpcStack(a, i, d)
  /\ D!DpcLow = DpcLow /\ U!DpcLow = DpcLow
BY DEF D!OutOfLimits, U!OutOfLimits, OutOfLimits, D!HighAddress,
   U!HighAddress, HighAddress, D!WordLimit, U!WordLimit, WordLimit,
   D!Aligned, U!Aligned, Aligned, D!OnDpcStack, U!OnDpcStack, OnDpcStack,
   D!DpcLow, U!DpcLow, DpcLow

\* Under the DPC stack's limits, the DPC-stack test of lines 208-216 is the
\* limit test and the IRQL and DPC conditions.
LEMMA DpcOKOnDpcStack ==
  ASSUME NEW a \in Addrs
  PROVE  OnDpcStack(a, irqlHigh, dpcActive) <=> (DpcOK(a) /\ irqlHigh /\ dpcActive)
BY OnDpcStackInDpcLimits DEF DpcOK

LEMMA ReachInit == IntactOnly /\ Init => ReachInv
<1> SUFFICES ASSUME IntactOnly, Init PROVE ReachInv
  OBVIOUS
<1>1. MatchInv
  BY MatchInit
<1>2. dInvoked = {} /\ <<dLow, dHigh>> = ThreadPair /\ handling = FALSE
  BY DEF Init, D!Init, ThreadPair
<1>3. QED
  BY <1>1, <1>2 DEF ReachInv, DispatchLimits, UnwindLimits, UnwindEnds

\* Before the unwind, every record whose handler the dispatch called lies
\* at or below its cursor.
LEMMA InvokedBelowCursor ==
  ASSUME MatchInv, ~ handling
  PROVE  \A a \in dInvoked : a \in Nat /\ a <= dReg /\ dReg \in Nat
<1>1. \A a \in Searched : a < dReg
  BY DEF MatchInv, PendingOrdered, Pending
<1>2. \A a \in dInvoked : a \in Nat
  BY AddrFacts DEF MatchInv
<1>3. dInvoked # {} => dReg \in Nat
  BY <1>2, AddrFacts DEF MatchInv, Searched
<1>4. QED
  BY <1>1, <1>2, <1>3 DEF Searched

\* Calling the handler of dReg, which passed the test of lines 196-199
\* under the dispatch's limits, keeps DispatchLimits: dReg lies above
\* every record called before it.
LEMMA CallKeepsLimits ==
  ASSUME MatchInv, DispatchLimits, ~ handling,
         dReg \in Addrs, ~ OutOfLimits(dReg, dLow, dHigh),
         dInvoked' = dInvoked \cup {dReg},
         UNCHANGED <<dLow, dHigh, irqlHigh, dpcActive>>
  PROVE  DispatchLimits'
<1>1. \A a \in dInvoked : a <= dReg
  BY InvokedBelowCursor
<1>2. ThreadOK(dReg) \/ DpcOK(dReg)
  BY DEF DispatchLimits, ThreadPair, DpcPair, ThreadOK, DpcOK
<1>3. ~ ThreadOK(dReg) => <<dLow, dHigh>> = DpcPair
  BY DEF DispatchLimits, ThreadPair, ThreadOK
<1>4. <<dLow, dHigh>> = DpcPair => DpcOK(dReg)
  BY DEF DpcPair, DpcOK
<1>5. ASSUME NEW a \in dInvoked', ~ ThreadOK(a)
      PROVE  /\ <<dLow, dHigh>> = DpcPair
             /\ \A b \in dInvoked' : a <= b => DpcOK(b)
  <2>1. CASE a = dReg
    <3>1. \A b \in dInvoked' : dReg <= b => b = dReg
      BY <1>1, InvokedBelowCursor, AddrFacts
    <3>2. QED
      BY <2>1, <3>1, <1>3, <1>4, <1>5
  <2>2. CASE a \in dInvoked
    BY <2>2, <1>4, <1>5 DEF DispatchLimits
  <2>3. QED
    BY <2>1, <2>2, <1>5
<1>6. QED
  BY <1>2, <1>5 DEF DispatchLimits

\* A dispatch step keeps DispatchLimits: the limits change only at the
\* switch of lines 208-228, which needs IRQL >= DISPATCH_LEVEL and an
\* active DPC; a handler is called only for a record within the limits.
LEMMA DispatchKeepsLimits ==
  ASSUME MatchInv, DispatchLimits, DispatchStep
  PROVE  DispatchLimits'
<1>1. ~ handling
  BY DEF DispatchStep
<1>2. CASE D!ChainExhausted \/ D!BadFrame \/ D!BadHandler
  <2>1. UNCHANGED <<dLow, dHigh, dInvoked, irqlHigh, dpcActive>>
    BY <1>2 DEF D!ChainExhausted, D!BadFrame, D!BadHandler
  <2>2. QED
    BY <2>1 DEF DispatchLimits, ThreadOK, DpcOK, ThreadPair, DpcPair
<1>3. CASE D!SwitchToDpcStack
  <2>1. /\ UNCHANGED <<dInvoked, irqlHigh, dpcActive>>
        /\ <<dLow', dHigh'>> = DpcPair
        /\ D!OnDpcStack(dReg, irqlHigh, dpcActive)
        /\ dReg \in Addrs
    BY <1>3, InstLimits, ChainEndShared DEF D!SwitchToDpcStack, D!Walking,
       DpcPair, MatchInv
  <2>2. irqlHigh /\ dpcActive
    BY <2>1, InstLimits, DpcOKOnDpcStack
  <2>3. QED
    BY <2>1, <2>2 DEF DispatchLimits, ThreadOK, DpcOK, ThreadPair
<1>4. CASE \E hf \in D!HandlerFlags : \/ D!ContinueExecution(hf)
                                      \/ D!ContinueSearch(hf)
                                      \/ D!InvalidDisposition(hf)
  <2>1. /\ D!Called
        /\ UNCHANGED <<dLow, dHigh, irqlHigh, dpcActive>>
    BY <1>4 DEF D!ContinueExecution, D!ContinueSearch, D!InvalidDisposition
  <2>2. /\ dReg \in Addrs
        /\ ~ OutOfLimits(dReg, dLow, dHigh)
        /\ dInvoked' = dInvoked \cup {dReg}
    BY <2>1, InstLimits, ChainEndShared DEF D!Called, D!Walking, D!InLimits,
       MatchInv
  <2>3. QED
    BY <1>1, <2>1, <2>2, CallKeepsLimits
<1>5. QED
  BY <1>2, <1>3, <1>4 DEF DispatchStep

\* Taking the exception calls the handler of dReg within the dispatch's
\* limits and starts the unwind at the protector under the thread's limits.
LEMMA TakeKeepsLimits ==
  ASSUME MatchInv, DispatchLimits, TakeException
  PROVE  DispatchLimits' /\ UnwindLimits' /\ UnwindEnds'
<1>1. /\ ~ handling /\ dReg \in Addrs
      /\ ~ OutOfLimits(dReg, dLow, dHigh)
      /\ dInvoked' = dInvoked \cup {dReg}
      /\ UNCHANGED <<dLow, dHigh, irqlHigh, dpcActive>>
  BY InstLimits, ChainEndShared DEF TakeException, D!Walking, D!InLimits,
     MatchInv
<1>2. DispatchLimits'
  BY <1>1, CallKeepsLimits
<1>3. /\ head' = Protector /\ uReg' = Protector
      /\ <<uLow', uHigh'>> = ThreadPair /\ uOutcome' = "running"
  BY DEF TakeException, ThreadPair
<1>4. QED
  BY <1>2, <1>3 DEF UnwindLimits, UnwindEnds

\* While the unwind runs, the record it has reached on its way to dReg
\* passes the limit test of lines 535-537 under its limits, or else those
\* are still the thread's and the record is one the dispatch called after
\* its own switch, so it lies on the DPC stack (lines 547-555).  The
\* protector, on the thread stack and below every other record, cannot be
\* the record after which the limits became the DPC stack's.
LEMMA UnwindRecordOK ==
  ASSUME MatchInv, DispatchLimits, UnwindLimits, ProtectorOnThreadStack,
         handling, uOutcome = "running",
         uReg \in Pending
  PROVE  \/ ~ OutOfLimits(uReg, uLow, uHigh)
         \/ /\ <<uLow, uHigh>> = ThreadPair
            /\ OnDpcStack(uReg, irqlHigh, dpcActive)
            /\ uReg \in dInvoked
            /\ ~ ThreadOK(uReg)
<1>1. uReg = Protector \/ uReg \in dInvoked
  BY DEF Pending, Searched
<1>2. uReg \in Addrs
  BY <1>1, AddrFacts DEF MatchInv
<1>3. CASE <<uLow, uHigh>> = ThreadPair /\ ThreadOK(uReg)
  BY <1>3 DEF ThreadPair, ThreadOK
<1>4. CASE <<uLow, uHigh>> = ThreadPair /\ ~ ThreadOK(uReg)
  <2>1. uReg \in dInvoked
    BY <1>1, <1>4 DEF ProtectorOnThreadStack
  <2>2. <<dLow, dHigh>> = DpcPair /\ DpcOK(uReg)
    BY <2>1, <1>4, AddrFacts DEF DispatchLimits
  <2>3. DpcPair # ThreadPair
    BY <2>2, <1>4 DEF DpcPair, ThreadPair, DpcOK, ThreadOK
  <2>4. irqlHigh /\ dpcActive
    BY <2>2, <2>3 DEF DispatchLimits
  <2>5. OnDpcStack(uReg, irqlHigh, dpcActive)
    BY <1>2, <2>2, <2>4, DpcOKOnDpcStack
  <2>6. QED
    BY <1>4, <2>1, <2>5
<1>5. CASE <<uLow, uHigh>> # ThreadPair
  <2>1. <<uLow, uHigh>> = DpcPair
    BY <1>5 DEF UnwindLimits
  <2>2. PICK a \in dInvoked : a <= uReg /\ ~ ThreadOK(a)
    BY <1>5 DEF UnwindLimits
  <2>3. uReg \in dInvoked
    <3>1. a \in Addrs
      BY DEF MatchInv
    <3>2. a # Protector
      BY <2>2 DEF ProtectorOnThreadStack
    <3>3. uReg # Protector
      BY <3>1, <3>2, <2>2, AddrFacts
    <3>4. QED
      BY <1>1, <3>3
  <2>4. DpcOK(uReg)
    BY <2>2, <2>3 DEF DispatchLimits
  <2>5. QED
    BY <2>1, <2>4 DEF DpcPair, DpcOK
<1>6. QED
  BY <1>3, <1>4, <1>5

\* An unwind step keeps the invariant: it reaches dReg and resumes there,
\* or switches to the DPC stack at a record the dispatch called outside the
\* thread's limits, or moves to the next, older record; it never meets a
\* target below the record, a bad stack or the end of the chain.
LEMMA UnwindKeepsLimits ==
  ASSUME ReachInv, ProtectorOnThreadStack, UnwindStep
  PROVE  DispatchLimits' /\ UnwindLimits' /\ UnwindEnds'
<1> USE AddrFacts, ChainEndShared
<1>1. /\ handling /\ handling'
      /\ UNCHANGED <<dVars, irqlHigh, dpcActive, next, uTarget>>
  <2>1. handling /\ handling' /\ UNCHANGED dVars
    BY DEF UnwindStep
  <2>2. UNCHANGED <<irqlHigh, dpcActive, next, uTarget>>
    BY DEF UnwindStep, U!ReachTarget, U!InvalidTarget, U!SwitchToDpcStack,
       U!BadStack, U!ContinueSearch, U!InvalidDisposition, U!ChainExhausted,
       U!Stopped
  <2>3. QED
    BY <2>1, <2>2
<1>2. DispatchLimits'
  BY <1>1 DEF ReachInv, DispatchLimits, dVars, ThreadOK, DpcOK, ThreadPair,
     DpcPair
<1>3. /\ dReg \in Addrs /\ uTarget = dReg
      /\ \A a \in Pending : a \in Addrs /\ a < dReg
      /\ uOutcome = "running" => uReg \in Pending \cup {dReg} /\ head = uReg
  <2>1. dReg \in Addrs /\ uTarget = dReg
        /\ (uOutcome = "running" => uReg \in Pending \cup {dReg})
    BY <1>1 DEF ReachInv, MatchInv
  <2>2. \A a \in Pending : a \in Addrs /\ a < dReg
    BY <1>1 DEF ReachInv, MatchInv, PendingOrdered, Pending, Searched
  <2>3. uOutcome = "running" => head = uReg
    BY <1>1 DEF ReachInv, UnwindLimits
  <2>4. QED
    BY <2>1, <2>2, <2>3
<1> SUFFICES UnwindLimits' /\ UnwindEnds'
  BY <1>2
<1> DEFINE Running == uOutcome = "running" /\ uReg # dReg
<1>4. ASSUME Running PROVE uReg \in Pending /\ uReg \in Nat /\ uReg < dReg
  BY <1>3, <1>4
<1>5. CASE U!ReachTarget
  <2>1. uOutcome = "running" /\ uReg = uTarget /\ uOutcome' = "ZwContinue"
        /\ UNCHANGED <<head, uReg, uTarget>>
    BY <1>5 DEF U!ReachTarget, U!Walking, U!Stopped
  <2>2. QED
    BY <1>1, <1>2, <1>3, <2>1 DEF UnwindLimits, UnwindEnds
<1>6. CASE U!InvalidTarget
  <2>1. Running /\ uTarget < uReg
    BY <1>3, <1>6 DEF U!InvalidTarget, U!Walking
  <2>2. QED
    BY <2>1, <1>3, <1>4
<1>7. CASE U!ChainExhausted
  <2>1. uOutcome = "running" /\ uReg = ChainEnd
    BY <1>7 DEF U!ChainExhausted
  <2>2. QED
    BY <2>1, <1>3
<1>8. CASE U!SwitchToDpcStack \/ U!BadStack
  <2>1. Running /\ OutOfLimits(uReg, uLow, uHigh)
    BY <1>3, <1>8, InstLimits DEF U!SwitchToDpcStack, U!BadStack,
       U!PastTargetChecks, U!Walking, U!InLimits
  <2>2. /\ <<uLow, uHigh>> = ThreadPair
        /\ OnDpcStack(uReg, irqlHigh, dpcActive)
        /\ uReg \in dInvoked /\ ~ ThreadOK(uReg)
    BY <2>1, <1>4, <1>1, UnwindRecordOK DEF ReachInv
  <2>3. ~ U!BadStack
    BY <2>2, InstLimits DEF U!BadStack
  <2>4. /\ <<uLow', uHigh'>> = DpcPair
        /\ UNCHANGED <<head, uReg, uOutcome, dInvoked>>
    BY <1>8, <2>3, <1>1, InstLimits DEF U!SwitchToDpcStack, DpcPair, dVars
  <2>5. uReg <= uReg
    BY <1>4, <2>1
  <2>6. QED
    BY <1>1, <1>3, <2>1, <2>2, <2>4, <2>5 DEF UnwindLimits, UnwindEnds
<1>9. CASE U!InvalidDisposition /\ uReg # Protector
  <2>1. uOutcome' = "STATUS_INVALID_DISPOSITION"
    BY <1>9 DEF U!InvalidDisposition
  <2>2. QED
    BY <1>1, <2>1 DEF UnwindLimits, UnwindEnds
<1>10. CASE U!ContinueSearch
  <2>1. /\ Running
        /\ uReg' = next[uReg] /\ head' = next[uReg]
        /\ uOutcome' = "running"
        /\ UNCHANGED <<uLow, uHigh>>
    BY <1>3, <1>10 DEF U!ContinueSearch, U!Called, U!PastTargetChecks,
       U!Walking, U!StepPast
  <2>2. next[uReg] > uReg /\ next[uReg] \in Nat
    <3>1. next[uReg] \in Addrs \cup {ChainEnd}
      BY <1>4, <2>1 DEF ReachInv, MatchInv, Memory
    <3>2. QED
      BY <3>1, <1>4, <2>1 DEF ReachInv, MatchInv, Intact
  <2>3. <<uLow, uHigh>> # ThreadPair =>
          \E a \in dInvoked : a <= next[uReg] /\ ~ ThreadOK(a)
    <3>1. <<uLow, uHigh>> # ThreadPair =>
            \E a \in dInvoked : a <= uReg /\ ~ ThreadOK(a)
      BY <1>1, <2>1 DEF ReachInv, UnwindLimits
    <3>2. \A a \in dInvoked : a \in Nat
      BY DEF ReachInv, MatchInv
    <3>3. QED
      BY <3>1, <3>2, <2>1, <2>2, <1>4
  <2>4. QED
    BY <1>1, <2>1, <2>3 DEF ReachInv, UnwindLimits, UnwindEnds, dVars
<1>11. QED
  BY <1>5, <1>6, <1>7, <1>8, <1>9, <1>10 DEF UnwindStep

\* Every step of the composition keeps ReachInv.
LEMMA ReachNext ==
  ASSUME ProtectorOnThreadStack
  PROVE  ReachInv /\ [Next]_vars => ReachInv'
<1> SUFFICES ASSUME ReachInv, [Next]_vars PROVE ReachInv'
  OBVIOUS
<1>1. MatchInv'
  BY MatchNext DEF ReachInv
<1>2. CASE DispatchStep
  <2>1. DispatchLimits'
    BY <1>2, DispatchKeepsLimits DEF ReachInv
  <2>2. ~ handling'
    BY <1>2 DEF DispatchStep
  <2>3. QED
    BY <1>1, <2>1, <2>2 DEF ReachInv, UnwindLimits, UnwindEnds
<1>3. CASE TakeException
  BY <1>1, <1>3, TakeKeepsLimits DEF ReachInv
<1>4. CASE UnwindStep
  BY <1>1, <1>4, UnwindKeepsLimits DEF ReachInv
<1>5. CASE Finished \/ UNCHANGED vars
  <2>1. UNCHANGED vars
    BY <1>5 DEF Finished
  <2>2. QED
    BY <1>1, <2>1 DEF vars, dVars, uVars, ReachInv, DispatchLimits,
       UnwindLimits, UnwindEnds, ThreadOK, DpcOK, ThreadPair, DpcPair
<1>6. QED
  BY <1>2, <1>3, <1>4, <1>5 DEF Next

\* On chains whose links go to older frames, and with the protector that
\* RtlpExecuteHandlerForException pushes within the thread's stack limits,
\* the global unwind that the handler found by RtlDispatchException starts
\* (lines 259 and 499-677) ends in ZwContinue at the handler's frame,
\* unless an unwind handler returns an invalid disposition: it never
\* raises STATUS_BAD_STACK, STATUS_INVALID_UNWIND_TARGET or an exhausted
\* chain, whatever the address width, stack layout, IRQL and DPC state.
THEOREM GlobalUnwindReachesHandlerOnThreadStack ==
  ASSUME IntactOnly, ProtectorOnThreadStack
  PROVE  Spec => []GlobalUnwindReachesHandler
<1>1. Init => ReachInv
  BY ReachInit
<1>2. ReachInv => GlobalUnwindReachesHandler
  BY DEF ReachInv, UnwindEnds, GlobalUnwindReachesHandler
<1>3. ReachInv /\ [Next]_vars => ReachInv'
  BY ReachNext
<1>4. QED
  BY <1>1, <1>2, <1>3, PTL DEF Spec
=============================================================================
