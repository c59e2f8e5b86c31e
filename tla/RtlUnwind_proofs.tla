--------------------------- MODULE RtlUnwind_proofs -------------------------
(***************************************************************************)
(* Proofs about RtlUnwind: the type invariant, and that the record the     *)
(* unwind examines is always the chain head, for every address width,      *)
(* stack layout, set of record addresses and target frame.                 *)
(***************************************************************************)
EXTENDS RtlUnwind, StackLimits_proofs, TLAPS

\* The constants' facts the type proof uses.
LEMMA UnwindWordFacts ==
  /\ WordLimit \in Nat \ {0}
  /\ ChainEnd \in Word
  /\ DpcLow \in Word
  /\ StackLow \in Word /\ StackHigh \in Word /\ DpcStack \in Word
<1>1. WordLimit \in Nat \ {0}
  BY LimitsAssumption
<1>2. QED
  BY <1>1, LimitsAssumption DEF DpcLow, ChainEnd, Word

LEMMA UnwindInitTypeOK == Init => TypeOK
BY UnwindWordFacts, UnwindAssumption DEF Init, TypeOK, Flag, Outcome

\* A step past a record of the chain lands on a record or on the chain end.
LEMMA StepPastTyped ==
  ASSUME TypeOK, NEW p \in Addrs, StepPast(p)
  PROVE  reg' \in Addrs \cup {ChainEnd} /\ head' \in Addrs \cup {ChainEnd}
BY DEF StepPast, TypeOK, Memory

LEMMA UnwindNextTypeOK == TypeOK /\ [Next]_vars => TypeOK'
<1> SUFFICES ASSUME TypeOK, [Next]_vars PROVE TypeOK'
  OBVIOUS
<1> USE UnwindWordFacts
<1>1. CASE ReachTarget \/ InvalidTarget \/ BadStack \/ ChainExhausted
  BY <1>1 DEF ReachTarget, InvalidTarget, BadStack, ChainExhausted, Stopped,
     TypeOK, Outcome
<1>2. CASE SwitchToDpcStack
  BY <1>2 DEF SwitchToDpcStack, TypeOK
<1>3. CASE ContinueSearch
  <2>1. reg \in Addrs
    BY <1>3 DEF ContinueSearch, Called, PastTargetChecks, Walking, TypeOK
  <2>2. QED
    BY <1>3, <2>1, StepPastTyped DEF ContinueSearch, Called, TypeOK
<1>4. CASE CollidedUnwind
  <2>1. reg \in Addrs /\ next[reg] \in Addrs
    BY <1>4 DEF CollidedUnwind, Called, PastTargetChecks, Walking, TypeOK
  <2>2. QED
    BY <1>4, <2>1, StepPastTyped DEF CollidedUnwind, Called, TypeOK
<1>5. CASE InvalidDisposition
  <2>1. reg \in Addrs
    BY <1>5 DEF InvalidDisposition, Called, PastTargetChecks, Walking, TypeOK
  <2>2. QED
    BY <1>5, <2>1 DEF InvalidDisposition, Called, TypeOK, Outcome
<1>6. CASE Ended \/ UNCHANGED vars
  BY <1>6 DEF Ended, vars, TypeOK
<1>7. QED
  BY <1>1, <1>2, <1>3, <1>4, <1>5, <1>6 DEF Next

\* The state of RtlUnwind is always well typed.
THEOREM UnwindTypeCorrect == Spec => []TypeOK
BY UnwindInitTypeOK, UnwindNextTypeOK, PTL DEF Spec

-----------------------------------------------------------------------------
(***************************************************************************)
(* RtlpUnlinkHandler(PriorPointer) and RegistrationPointer = PriorPointer  *)
(* ->Next move together (lines 638-645), also when a collided unwind has  *)
(* replaced RegistrationPointer by the outer unwind's record (lines       *)
(* 609-617).  HeadIsCursor is inductive on its own: no step that keeps    *)
(* the unwind running moves the head or the cursor without the other.     *)
(***************************************************************************)

LEMMA HeadIsCursorInit == Init => HeadIsCursor
BY DEF Init, HeadIsCursor

LEMMA HeadIsCursorNext == HeadIsCursor /\ [Next]_vars => HeadIsCursor'
<1> SUFFICES ASSUME HeadIsCursor, [Next]_vars PROVE HeadIsCursor'
  OBVIOUS
<1>1. CASE ReachTarget \/ InvalidTarget \/ BadStack \/ ChainExhausted
  BY <1>1 DEF ReachTarget, InvalidTarget, BadStack, ChainExhausted, Stopped,
     HeadIsCursor
<1>2. CASE SwitchToDpcStack
  BY <1>2 DEF SwitchToDpcStack, HeadIsCursor
<1>3. CASE ContinueSearch \/ CollidedUnwind
  BY <1>3 DEF ContinueSearch, CollidedUnwind, StepPast, HeadIsCursor
<1>4. CASE InvalidDisposition
  BY <1>4 DEF InvalidDisposition, HeadIsCursor
<1>5. CASE Ended \/ UNCHANGED vars
  BY <1>5 DEF Ended, vars, HeadIsCursor
<1>6. QED
  BY <1>1, <1>2, <1>3, <1>4, <1>5 DEF Next

\* While RtlUnwind walks, the record it examines is the chain head: the
\* unlink of lines 638-645 always removes the record just unwound.
THEOREM HeadIsCursorInvariant == Spec => []HeadIsCursor
BY HeadIsCursorInit, HeadIsCursorNext, PTL DEF Spec

-----------------------------------------------------------------------------
(***************************************************************************)
(* On a chain as the code maintains it (every Next link to a higher        *)
(* address), no unwind handler runs twice, collided unwinds included.  The *)
(* inductive invariant says that while the unwind runs, every record whose *)
(* handler has run, here or in the collided outer unwind, lies below the   *)
(* cursor: ContinueSearch moves the cursor to Next, above the record just  *)
(* unwound, and CollidedUnwind moves it past the adopted record, which     *)
(* lies above the protector.  Both steps need the chain to be increasing. *)
(***************************************************************************)

Below == \A a \in unwound \cup skipped : a < reg

RunsOnceInv ==
  /\ TypeOK
  /\ Intact(next)
  /\ outcome = "running" => Below
  /\ ~ repeated

\* A Next link of an increasing chain leads to a higher address.
LEMMA IntactStep ==
  ASSUME TypeOK, Intact(next), NEW a \in Addrs
  PROVE  /\ next[a] \in Addrs \cup {ChainEnd}
         /\ next[a] \in Int /\ a \in Int
         /\ next[a] > a
<1>1. Addrs \cup {ChainEnd} \subseteq Int
  BY UnwindWordFacts, LimitsAssumption DEF Word
<1>2. QED
  BY <1>1 DEF Intact, TypeOK, Memory

LEMMA RunsOnceInit == IntactOnly /\ Init => RunsOnceInv
BY UnwindInitTypeOK DEF Init, RunsOnceInv, Below

\* A handler about to run has not run before.
LEMMA CalledFresh ==
  ASSUME RunsOnceInv, Called
  PROVE  ~ repeated'
<1>1. reg \in Int /\ \A a \in unwound \cup skipped : a \in Int /\ a < reg
  <2>1. Addrs \cup {ChainEnd} \subseteq Int
    BY UnwindWordFacts, LimitsAssumption DEF Word
  <2>2. QED
    BY <2>1 DEF RunsOnceInv, Below, Called, PastTargetChecks, Walking, TypeOK
<1>2. reg \notin unwound \cup skipped
  BY <1>1
<1>3. QED
  BY <1>2 DEF Called, RunsOnceInv

LEMMA RunsOnceNext == RunsOnceInv /\ [Next]_vars => RunsOnceInv'
<1> SUFFICES ASSUME RunsOnceInv, [Next]_vars PROVE RunsOnceInv'
  OBVIOUS
<1>0. TypeOK' /\ next' = next
  <2>1. TypeOK'
    BY UnwindNextTypeOK DEF RunsOnceInv
  <2>2. next' = next
    BY DEF Next, vars, ReachTarget, InvalidTarget, SwitchToDpcStack, BadStack,
       ContinueSearch, CollidedUnwind, InvalidDisposition, ChainExhausted,
       Ended, Stopped
  <2>3. QED
    BY <2>1, <2>2
<1>1. CASE ReachTarget \/ InvalidTarget \/ BadStack \/ ChainExhausted
  BY <1>0, <1>1 DEF ReachTarget, InvalidTarget, BadStack, ChainExhausted,
     Stopped, RunsOnceInv
<1>2. CASE SwitchToDpcStack
  BY <1>0, <1>2 DEF SwitchToDpcStack, RunsOnceInv, Below
<1>3. CASE ContinueSearch
  <2>1. reg \in Addrs
    BY <1>3 DEF ContinueSearch, Called, PastTargetChecks, Walking, RunsOnceInv,
       TypeOK
  <2>2. next[reg] > reg /\ next[reg] \in Int /\ reg \in Int
    BY <2>1, IntactStep DEF RunsOnceInv
  <2>3. \A a \in unwound \cup skipped : a \in Int /\ a < reg
    <3>1. Addrs \subseteq Int
      BY UnwindWordFacts, LimitsAssumption DEF Word
    <3>2. QED
      BY <1>3, <3>1 DEF ContinueSearch, Called, PastTargetChecks, Walking,
         RunsOnceInv, Below, TypeOK
  <2>4. Below'
    BY <1>3, <2>2, <2>3 DEF ContinueSearch, Called, StepPast, Below
  <2>5. ~ repeated'
    BY <1>3, CalledFresh DEF ContinueSearch
  <2>6. QED
    BY <1>0, <2>4, <2>5 DEF RunsOnceInv
<1>4. CASE CollidedUnwind
  <2> DEFINE rp == next[reg]
  <2>1. reg \in Addrs /\ rp \in Addrs
    BY <1>4 DEF CollidedUnwind, Called, PastTargetChecks, Walking, RunsOnceInv,
       TypeOK
  <2>2. rp > reg /\ rp \in Int /\ reg \in Int
    BY <2>1, IntactStep DEF RunsOnceInv
  <2>3. next[rp] > rp /\ next[rp] \in Int
    BY <2>1, IntactStep DEF RunsOnceInv
  <2>4. \A a \in unwound \cup skipped : a \in Int /\ a < reg
    <3>1. Addrs \subseteq Int
      BY UnwindWordFacts, LimitsAssumption DEF Word
    <3>2. QED
      BY <1>4, <3>1 DEF CollidedUnwind, Called, PastTargetChecks, Walking,
         RunsOnceInv, Below, TypeOK
  <2>5. Below'
    BY <1>4, <2>2, <2>3, <2>4 DEF CollidedUnwind, Called, StepPast, Below
  <2>6. ~ repeated'
    BY <1>4, CalledFresh DEF CollidedUnwind
  <2>7. QED
    BY <1>0, <2>5, <2>6 DEF RunsOnceInv
<1>5. CASE InvalidDisposition
  <2>1. ~ repeated'
    BY <1>5, CalledFresh DEF InvalidDisposition
  <2>2. QED
    BY <1>0, <1>5, <2>1 DEF InvalidDisposition, RunsOnceInv
<1>6. CASE Ended \/ UNCHANGED vars
  BY <1>0, <1>6 DEF Ended, vars, RunsOnceInv, Below
<1>7. QED
  BY <1>1, <1>2, <1>3, <1>4, <1>5, <1>6 DEF Next

\* On chains whose links go to older frames, RtlUnwind never runs an unwind
\* handler twice, nor the handler of the record the collided outer unwind
\* is running (lines 583-588, 609-617, 638-645).
THEOREM HandlerRunsOnceIntact ==
  ASSUME IntactOnly
  PROVE  Spec => []HandlerRunsOnce
<1>1. RunsOnceInv => HandlerRunsOnce
  BY DEF RunsOnceInv, HandlerRunsOnce
<1>2. Init => RunsOnceInv
  BY RunsOnceInit
<1>3. QED
  BY <1>1, <1>2, RunsOnceNext, PTL DEF Spec

-----------------------------------------------------------------------------
(***************************************************************************)
(* Unwind handlers run only for records on a stack.  The limits are always *)
(* the thread's or the DPC stack's, and a record passing the test of lines *)
(* 535-537 under either pair lies on that stack unless HighAddress wraps   *)
(* (the record is in the last RecordSize bytes of the address space).  The *)
(* wrap is what breaks the property; the theorem states its absence as a   *)
(* hypothesis.                                                             *)
(***************************************************************************)

UnwindOnStackInv ==
  /\ TypeOK
  /\ <<lowLimit, highLimit>> \in LimitPairs
  /\ UnwoundOnStack

LEMMA UnwindOnStackInit == Init => UnwindOnStackInv
BY UnwindInitTypeOK DEF Init, UnwindOnStackInv, LimitPairs, UnwoundOnStack

\* A record whose unwind handler is called (lines 583-588) lies on a stack.
LEMMA UnwindCalledOnAStack ==
  ASSUME UnwindOnStackInv, \A a \in Addrs : NoWrap(a), PastTargetChecks, InLimits
  PROVE  OnAStack(reg)
<1>1. reg \in Addrs
  BY DEF PastTargetChecks, Walking, UnwindOnStackInv, TypeOK
<1>2. QED
  BY <1>1, InLimitsOnAStack DEF InLimits, UnwindOnStackInv

LEMMA UnwindOnStackNext ==
  ASSUME \A a \in Addrs : NoWrap(a)
  PROVE  UnwindOnStackInv /\ [Next]_vars => UnwindOnStackInv'
<1> SUFFICES ASSUME UnwindOnStackInv, [Next]_vars PROVE UnwindOnStackInv'
  OBVIOUS
<1>1. TypeOK'
  BY UnwindNextTypeOK DEF UnwindOnStackInv
<1>2. CASE ContinueSearch \/ CollidedUnwind \/ InvalidDisposition
  <2>1. /\ Called
        /\ UNCHANGED <<lowLimit, highLimit>>
    BY <1>2 DEF ContinueSearch, CollidedUnwind, InvalidDisposition
  <2>2. OnAStack(reg)
    BY <2>1, UnwindCalledOnAStack DEF Called
  <2>3. QED
    BY <1>1, <2>1, <2>2 DEF Called, UnwindOnStackInv, UnwoundOnStack
<1>3. CASE SwitchToDpcStack
  BY <1>1, <1>3 DEF SwitchToDpcStack, UnwindOnStackInv, UnwoundOnStack, LimitPairs
<1>4. CASE ReachTarget \/ InvalidTarget \/ BadStack \/ ChainExhausted
  BY <1>1, <1>4 DEF ReachTarget, InvalidTarget, BadStack, ChainExhausted, Stopped,
     UnwindOnStackInv, UnwoundOnStack
<1>5. CASE Ended \/ UNCHANGED vars
  BY <1>1, <1>5 DEF Ended, vars, UnwindOnStackInv, UnwoundOnStack
<1>6. QED
  BY <1>2, <1>3, <1>4, <1>5 DEF Next

\* When no record lies in the last RecordSize bytes of the address space,
\* RtlUnwind runs the unwind handler only of records that lie wholly on the
\* thread stack or the DPC stack, for every stack layout and every chain.
THEOREM UnwoundOnStackNoWrap ==
  ASSUME \A a \in Addrs : NoWrap(a)
  PROVE  Spec => []UnwoundOnStack
<1>1. Init => UnwindOnStackInv
  BY UnwindOnStackInit
<1>2. UnwindOnStackInv /\ [Next]_vars => UnwindOnStackInv'
  BY UnwindOnStackNext
<1>3. UnwindOnStackInv => UnwoundOnStack
  BY DEF UnwindOnStackInv
<1>4. QED
  BY <1>1, <1>2, <1>3, PTL DEF Spec

-----------------------------------------------------------------------------
\* Once RtlUnwind has taken the DPC stack's limits, no record is both
\* out of them and on the DPC stack: the switch of lines 547-566 is
\* never taken again, so an iteration restarts at most once per walk.
LEMMA UnwindSwitchesOnce ==
  ASSUME TypeOK, <<lowLimit, highLimit>> = <<DpcLow, DpcStack>>
  PROVE  ~ SwitchToDpcStack
<1> SUFFICES ASSUME SwitchToDpcStack PROVE FALSE
  OBVIOUS
<1>1. reg \in Addrs
  BY LimitsAssumption DEF SwitchToDpcStack, PastTargetChecks, Walking, TypeOK
<1>2. OutOfLimits(reg, DpcLow, DpcStack) /\ OnDpcStack(reg, irqlHigh, dpcActive)
  BY DEF SwitchToDpcStack, PastTargetChecks, Walking, InLimits
<1>3. QED
  BY <1>1, <1>2, OnDpcStackInDpcLimits
=============================================================================
