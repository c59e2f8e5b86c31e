---------------------- MODULE ExceptionDispatch_proofs ----------------------
(***************************************************************************)
(* Proofs about ExceptionDispatch (RtlDispatchException): the type         *)
(* invariant, and that NESTED_CALL is set in the exception record exactly *)
(* while NestedRegistration names an open nested region, for every address *)
(* width, stack layout and set of record addresses.                        *)
(***************************************************************************)
EXTENDS ExceptionDispatch, StackLimits_proofs, TLAPS

\* The constants' facts the proofs use: addresses and limits are words, and
\* no record lies at address 0, the "no nested region" value.
LEMMA WordFacts ==
  /\ WordLimit \in Nat \ {0}
  /\ ChainEnd \in Word
  /\ DpcLow \in Word
  /\ StackLow \in Word /\ StackHigh \in Word /\ DpcStack \in Word
  /\ Addrs \subseteq Word
  /\ 0 \notin Addrs
  /\ ChainEnd \notin Addrs
<1>1. WordLimit \in Nat \ {0}
  BY LimitsAssumption
<1>2. DpcLow \in Word
  BY <1>1, LimitsAssumption DEF DpcLow, Word
<1>3. QED
  BY <1>1, <1>2, LimitsAssumption DEF ChainEnd, Word

\* Following Next from a record stays among the records or ends the chain.
LEMMA NextInChain ==
  ASSUME TypeOK, reg \in Addrs
  PROVE  next[reg] \in Addrs \cup {ChainEnd}
BY DEF TypeOK, Memory

-----------------------------------------------------------------------------
(***************************************************************************)
(* Type correctness.                                                       *)
(***************************************************************************)

LEMMA InitTypeOK == Init => TypeOK
BY WordFacts DEF Init, TypeOK, Flag, Outcome

LEMMA NextTypeOK == TypeOK /\ [Next]_vars => TypeOK'
<1> SUFFICES ASSUME TypeOK, [Next]_vars PROVE TypeOK'
  OBVIOUS
<1> USE WordFacts
<1>1. CASE ChainExhausted
  BY <1>1 DEF ChainExhausted, TypeOK, Outcome
<1>2. CASE SwitchToDpcStack
  BY <1>2 DEF SwitchToDpcStack, TypeOK
<1>3. CASE BadFrame
  BY <1>3 DEF BadFrame, TypeOK, Flag, Outcome
<1>4. CASE BadHandler
  BY <1>4 DEF BadHandler, TypeOK, Flag, Outcome
<1>5. ASSUME NEW hf \in HandlerFlags, ContinueExecution(hf) PROVE TypeOK'
  <2>1. hf \subseteq Flag
    BY DEF HandlerFlags, TypeOK, Flag
  <2>2. reg \in Addrs
    BY <1>5 DEF ContinueExecution, Called, Walking, TypeOK
  <2>3. QED
    BY <1>5, <2>1, <2>2 DEF ContinueExecution, Called, FlagsAfterCall,
       NestedAfterCall, TypeOK, Outcome
<1>6. ASSUME NEW hf \in HandlerFlags, ContinueSearch(hf) PROVE TypeOK'
  <2>1. hf \subseteq Flag
    BY DEF HandlerFlags, TypeOK, Flag
  <2>2. reg \in Addrs
    BY <1>6 DEF ContinueSearch, Called, Walking, TypeOK
  <2>3. next[reg] \in Addrs \cup {ChainEnd}
    BY <2>2, NextInChain
  <2>4. QED
    BY <1>6, <2>1, <2>2, <2>3 DEF ContinueSearch, Called, FlagsAfterCall,
       NestedAfterCall, TypeOK, Outcome
<1>7. ASSUME NEW hf \in HandlerFlags, NEW rp \in Addrs,
             NestedException(hf, rp)
      PROVE  TypeOK'
  <2>1. hf \subseteq Flag
    BY DEF HandlerFlags, TypeOK, Flag
  <2>2. reg \in Addrs
    BY <1>7 DEF NestedException, Called, Walking, TypeOK
  <2>3. next[reg] \in Addrs \cup {ChainEnd}
    BY <2>2, NextInChain
  <2>4. NestedAfterCall \in Addrs \cup {0}
    BY DEF NestedAfterCall, TypeOK
  <2>5. nested' \in Addrs \cup {0}
    BY <1>7, <2>4 DEF NestedException
  <2>6. QED
    BY <1>7, <2>1, <2>2, <2>3, <2>5 DEF NestedException, Called,
       FlagsAfterCall, TypeOK, Flag
<1>8. ASSUME NEW hf \in HandlerFlags, InvalidDisposition(hf) PROVE TypeOK'
  <2>1. hf \subseteq Flag
    BY DEF HandlerFlags, TypeOK, Flag
  <2>2. reg \in Addrs
    BY <1>8 DEF InvalidDisposition, Called, Walking, TypeOK
  <2>3. QED
    BY <1>8, <2>1, <2>2 DEF InvalidDisposition, Called, FlagsAfterCall,
       NestedAfterCall, TypeOK, Outcome
<1>9. CASE Returned \/ UNCHANGED vars
  BY <1>9 DEF Returned, vars, TypeOK
<1>10. QED
  BY <1>1, <1>2, <1>3, <1>4, <1>5, <1>6, <1>7, <1>8, <1>9 DEF Next

\* The state of RtlDispatchException is always well typed.
THEOREM TypeCorrect == Spec => []TypeOK
BY InitTypeOK, NextTypeOK, PTL DEF Spec

-----------------------------------------------------------------------------
(***************************************************************************)
(* NESTED_CALL and NestedRegistration (lines 277-280 and 327-331).  The    *)
(* invariant is inductive together with the type invariant: the step that *)
(* opens a region must know that the new NestedRegistration is not 0,      *)
(* which needs rp and the old value to be addresses or 0.                  *)
(***************************************************************************)

IInv == TypeOK /\ NestedFlagConsistent

LEMMA InitIInv == Init => IInv
BY InitTypeOK DEF Init, IInv, NestedFlagConsistent

\* A handler only ever adds STACK_INVALID: it leaves NESTED_CALL alone.
LEMMA HandlerFlagsKeepNested ==
  ASSUME NEW hf \in HandlerFlags
  PROVE  ("NESTED_CALL" \in hf) <=> ("NESTED_CALL" \in flags)
BY DEF HandlerFlags

\* After the call, NESTED_CALL and NestedRegistration still agree.
LEMMA AfterCallConsistent ==
  ASSUME TypeOK, NestedFlagConsistent, NEW hf \in HandlerFlags
  PROVE  ("NESTED_CALL" \in FlagsAfterCall(hf)) <=> (NestedAfterCall # 0)
<1>1. CASE nested = reg
  BY <1>1 DEF FlagsAfterCall, NestedAfterCall
<1>2. CASE nested # reg
  BY <1>2, HandlerFlagsKeepNested DEF FlagsAfterCall, NestedAfterCall,
     NestedFlagConsistent
<1>3. QED
  BY <1>1, <1>2

LEMMA NextIInv == IInv /\ [Next]_vars => IInv'
<1> SUFFICES ASSUME TypeOK, NestedFlagConsistent, [Next]_vars
             PROVE  TypeOK' /\ NestedFlagConsistent'
  BY DEF IInv
<1>0. TypeOK'
  BY NextTypeOK
<1> USE DEF NestedFlagConsistent
<1>1. CASE ChainExhausted
  BY <1>0, <1>1 DEF ChainExhausted
<1>2. CASE SwitchToDpcStack
  BY <1>0, <1>2 DEF SwitchToDpcStack
<1>3. CASE BadFrame
  BY <1>0, <1>3 DEF BadFrame
<1>4. CASE BadHandler
  BY <1>0, <1>4 DEF BadHandler
<1>5. ASSUME NEW hf \in HandlerFlags, ContinueExecution(hf)
      PROVE  NestedFlagConsistent'
  BY <1>5, AfterCallConsistent DEF ContinueExecution
<1>6. ASSUME NEW hf \in HandlerFlags, ContinueSearch(hf)
      PROVE  NestedFlagConsistent'
  BY <1>6, AfterCallConsistent DEF ContinueSearch
<1>7. ASSUME NEW hf \in HandlerFlags, NEW rp \in Addrs,
             NestedException(hf, rp)
      PROVE  NestedFlagConsistent'
  <2>1. "NESTED_CALL" \in flags'
    BY <1>7 DEF NestedException
  <2>2. NestedAfterCall \in Addrs \cup {0} /\ rp \in Nat \ {0}
    BY WordFacts DEF NestedAfterCall, TypeOK, Word
  <2>3. NestedAfterCall \in Nat
    BY <2>2, WordFacts DEF Word
  <2>4. nested' # 0
    BY <1>7, <2>2, <2>3 DEF NestedException
  <2>5. QED
    BY <2>1, <2>4
<1>8. ASSUME NEW hf \in HandlerFlags, InvalidDisposition(hf)
      PROVE  NestedFlagConsistent'
  BY <1>8, AfterCallConsistent DEF InvalidDisposition
<1>9. CASE Returned \/ UNCHANGED vars
  BY <1>0, <1>9 DEF Returned, vars
<1>10. QED
  BY <1>0, <1>1, <1>2, <1>3, <1>4, <1>5, <1>6, <1>7, <1>8, <1>9 DEF Next

\* NESTED_CALL is set in the exception record exactly while a nested region
\* is open (NestedRegistration # 0), in every dispatch.
THEOREM NestedFlagInvariant == Spec => []NestedFlagConsistent
<1>1. IInv => NestedFlagConsistent
  BY DEF IInv
<1>2. QED
  BY InitIInv, NextIInv, <1>1, PTL DEF Spec

-----------------------------------------------------------------------------

(***************************************************************************)
(* Handlers are called only for records on a stack.  The limits are       *)
(* always the thread's or the DPC stack's, and a record that passes the    *)
(* test of lines 196-199 under either pair lies on that stack unless       *)
(* HighAddress wraps; dispatch_wrap shows the wrap, and the theorem states *)
(* its absence as a hypothesis.                                            *)
(***************************************************************************)

DispatchOnStackInv ==
  /\ TypeOK
  /\ <<lowLimit, highLimit>> \in LimitPairs
  /\ InvokedOnStack

LEMMA DispatchOnStackInit == Init => DispatchOnStackInv
BY InitTypeOK DEF Init, DispatchOnStackInv, LimitPairs, InvokedOnStack

\* Every step that calls a handler (lines 241-280) adds only a record that
\* lies on a stack.
LEMMA CalledOnStack ==
  ASSUME DispatchOnStackInv, \A a \in Addrs : NoWrap(a), Called
  PROVE  InvokedOnStack'
<1>1. reg \in Addrs
  BY DEF Called, Walking, DispatchOnStackInv, TypeOK
<1>2. OnAStack(reg)
  BY <1>1, InLimitsOnAStack DEF Called, InLimits, DispatchOnStackInv
<1>3. QED
  BY <1>2 DEF Called, DispatchOnStackInv, InvokedOnStack

LEMMA DispatchOnStackNext ==
  ASSUME \A a \in Addrs : NoWrap(a)
  PROVE  DispatchOnStackInv /\ [Next]_vars => DispatchOnStackInv'
<1> SUFFICES ASSUME DispatchOnStackInv, [Next]_vars PROVE DispatchOnStackInv'
  OBVIOUS
<1>1. TypeOK'
  BY NextTypeOK DEF DispatchOnStackInv
<1>2. ASSUME NEW hf \in HandlerFlags,
             \/ ContinueExecution(hf)
             \/ ContinueSearch(hf)
             \/ \E rp \in Addrs : NestedException(hf, rp)
             \/ InvalidDisposition(hf)
      PROVE  DispatchOnStackInv'
  <2>1. Called /\ UNCHANGED <<lowLimit, highLimit>>
    BY <1>2 DEF ContinueExecution, ContinueSearch, NestedException,
       InvalidDisposition
  <2>2. QED
    BY <1>1, <2>1, CalledOnStack DEF DispatchOnStackInv
<1>3. CASE SwitchToDpcStack
  BY <1>1, <1>3 DEF SwitchToDpcStack, DispatchOnStackInv, InvokedOnStack,
     LimitPairs
<1>4. CASE ChainExhausted \/ BadFrame \/ BadHandler \/ Returned \/ UNCHANGED vars
  BY <1>1, <1>4 DEF ChainExhausted, BadFrame, BadHandler, Returned, vars,
     DispatchOnStackInv, InvokedOnStack
<1>5. QED
  BY <1>2, <1>3, <1>4 DEF Next

\* When no record lies in the last RecordSize bytes of the address space,
\* RtlDispatchException calls the handler only of records that lie wholly
\* on the thread stack or the DPC stack, for every stack layout and every
\* chain, corrupt ones included.
THEOREM InvokedOnStackNoWrap ==
  ASSUME \A a \in Addrs : NoWrap(a)
  PROVE  Spec => []InvokedOnStack
<1>1. Init => DispatchOnStackInv
  BY DispatchOnStackInit
<1>2. DispatchOnStackInv /\ [Next]_vars => DispatchOnStackInv'
  BY DispatchOnStackNext
<1>3. DispatchOnStackInv => InvokedOnStack
  BY DEF DispatchOnStackInv
<1>4. QED
  BY <1>1, <1>2, <1>3, PTL DEF Spec

\* Once RtlDispatchException has taken the DPC stack's limits, no record is both
\* out of them and on the DPC stack: the switch of lines 208-228 is
\* never taken again, so an iteration restarts at most once per walk.
LEMMA DispatchSwitchesOnce ==
  ASSUME TypeOK, <<lowLimit, highLimit>> = <<DpcLow, DpcStack>>
  PROVE  ~ SwitchToDpcStack
<1> SUFFICES ASSUME SwitchToDpcStack PROVE FALSE
  OBVIOUS
<1>1. reg \in Addrs
  BY WordFacts DEF SwitchToDpcStack, Walking, TypeOK
<1>2. OutOfLimits(reg, DpcLow, DpcStack) /\ OnDpcStack(reg, irqlHigh, dpcActive)
  BY DEF SwitchToDpcStack, Walking, InLimits
<1>3. QED
  BY <1>1, <1>2, OnDpcStackInDpcLimits
=============================================================================
