------------------------- MODULE SehHandling_proofs -------------------------
(***************************************************************************)
(* Proof that the global unwind a handler starts from inside the dispatch  *)
(* unwinds the protector and exactly the records the dispatch passed over, *)
(* for every address width, stack layout, set of record addresses and      *)
(* protector address, on chains whose links go to older frames.           *)
(*                                                                         *)
(* The argument needs no reachability along the chain.  The records still *)
(* to be unwound form the set Pending, all below the dispatcher's record   *)
(* dReg; Pending is closed under Next up to dReg, and no record of it lies *)
(* between a record and that record's Next.  So walking Next from the      *)
(* least record of Pending visits Pending in increasing order, and the     *)
(* records unwound are always those of Pending below the cursor.           *)
(***************************************************************************)
EXTENDS SehHandling, TLAPS

\* The records the global unwind has to unwind before it reaches dReg.
Pending == IF handling THEN Searched \cup {Protector} ELSE Searched

\* Pending, ordered by address, is the chain from its least record to dReg.
PendingOrdered ==
  \A a \in Pending :
    /\ a < dReg
    /\ next[a] \in Pending \cup {dReg}
    /\ \A b \in Pending \cup {dReg} : a < b => next[a] <= b

MatchInv ==
  /\ head \in Addrs \cup {ChainEnd}
  /\ next \in Memory
  /\ dReg \in Addrs \cup {ChainEnd}
  /\ uReg \in Addrs \cup {ChainEnd}
  /\ dInvoked \subseteq Addrs
  /\ handling \in BOOLEAN
  /\ Intact(next)
  /\ PendingOrdered
  /\ ~ handling =>
       /\ head \in Searched \cup {dReg}
       /\ head # Protector
       /\ \A a \in Searched : head <= a
  /\ handling =>
       /\ dReg \in Addrs
       /\ uTarget = dReg
       /\ uUnwound \subseteq Pending
       /\ uOutcome = "running" =>
            /\ uReg \in Pending \cup {dReg}
            /\ uUnwound = {a \in Pending : a < uReg}
       /\ uOutcome = "ZwContinue" => uUnwound = Pending

\* Every record address lies below EXCEPTION_CHAIN_END and above the
\* protector, or is the protector.
LEMMA AddrFacts ==
  /\ \A a \in Addrs : a \in Nat /\ a < ChainEnd
  /\ ChainEnd \in Nat
  /\ Protector \in Addrs
  /\ \A a \in (Addrs \cup {ChainEnd}) \ {Protector} : Protector < a
<1>1. WordLimit \in Nat \ {0}
  BY LimitsAssumption
<1>2. \A a \in Addrs : a \in Nat /\ a < ChainEnd
  BY <1>1, LimitsAssumption DEF Word, ChainEnd
<1>3. QED
  BY <1>1, <1>2, ProtectorAssumption DEF ChainEnd

\* The dispatch starts with nothing searched, at the chain head.
LEMMA MatchInit == IntactOnly /\ Init => MatchInv
<1> SUFFICES ASSUME IntactOnly, Init PROVE MatchInv
  OBVIOUS
<1>1. dInvoked = {} /\ dReg = head /\ handling = FALSE
  BY DEF Init, D!Init
<1>2. Pending = {}
  BY <1>1 DEF Pending, Searched
<1>3. Intact(next)
  BY DEF Init, D!Init, Intact, D!Intact
<1>4. head \in Addrs \cup {ChainEnd} /\ next \in Memory
  BY DEF Init, D!Init, Memory, D!Memory, ChainEnd, D!ChainEnd, WordLimit,
     D!WordLimit
<1>5. QED
  BY <1>1, <1>2, <1>3, <1>4, AddrFacts
  DEF Init, MatchInv, PendingOrdered, Searched

\* The two walkers share EXCEPTION_CHAIN_END.
LEMMA ChainEndShared == D!ChainEnd = ChainEnd /\ U!ChainEnd = ChainEnd
BY DEF D!ChainEnd, U!ChainEnd, ChainEnd, D!WordLimit, U!WordLimit, WordLimit

\* A step of the dispatch either keeps its cursor, having called the
\* handler of dReg or not, or calls that handler and moves to its Next.
LEMMA DispatchStepShape ==
  ASSUME MatchInv, DispatchStep
  PROVE  /\ UNCHANGED <<head, next, handling, uVars>>
         /\ ~ handling
         /\ \/ dReg' = dReg /\ dInvoked' = dInvoked
            \/ dReg' = dReg /\ dReg \in Addrs /\ dInvoked' = dInvoked \cup {dReg}
            \/ dReg \in Addrs /\ dReg' = next[dReg]
               /\ dInvoked' = dInvoked \cup {dReg}
<1> DEFINE Moves ==
      \/ dReg' = dReg /\ dInvoked' = dInvoked
      \/ dReg' = dReg /\ dReg \in Addrs /\ dInvoked' = dInvoked \cup {dReg}
      \/ dReg \in Addrs /\ dReg' = next[dReg]
         /\ dInvoked' = dInvoked \cup {dReg}
<1>1. UNCHANGED <<head, next, handling, uVars>> /\ ~ handling
  <2>1. UNCHANGED <<handling, uVars>> /\ ~ handling
    BY DEF DispatchStep
  <2>2. UNCHANGED <<head, next>>
    BY DEF DispatchStep, D!ChainExhausted, D!SwitchToDpcStack, D!BadFrame,
       D!BadHandler, D!ContinueExecution, D!ContinueSearch,
       D!InvalidDisposition
  <2>3. QED
    BY <2>1, <2>2
<1>2. ASSUME D!Called PROVE dReg \in Addrs /\ dInvoked' = dInvoked \cup {dReg}
  BY <1>2, ChainEndShared DEF D!Called, D!Walking, MatchInv
<1>3. Moves
  <2>1. CASE D!ChainExhausted \/ D!SwitchToDpcStack \/ D!BadFrame
             \/ D!BadHandler
    BY <2>1 DEF D!ChainExhausted, D!SwitchToDpcStack, D!BadFrame,
       D!BadHandler
  <2>2. CASE \E hf \in D!HandlerFlags : D!ContinueExecution(hf)
                                        \/ D!InvalidDisposition(hf)
    <3>1. D!Called /\ dReg' = dReg
      BY <2>2 DEF D!ContinueExecution, D!InvalidDisposition
    <3>2. QED
      BY <3>1, <1>2
  <2>3. CASE \E hf \in D!HandlerFlags : D!ContinueSearch(hf)
    <3>1. D!Called /\ (dReg' = dReg \/ dReg' = next[dReg])
      BY <2>3 DEF D!ContinueSearch
    <3>2. QED
      BY <3>1, <1>2
  <2>4. QED
    BY <2>1, <2>2, <2>3 DEF DispatchStep
<1>4. QED
  BY <1>1, <1>3

\* A dispatch step keeps the invariant: a record the dispatch passes over
\* joins Searched, and its Next, above it, becomes the new cursor.
LEMMA DispatchKeeps ==
  ASSUME MatchInv, DispatchStep
  PROVE  MatchInv'
<1>1. /\ UNCHANGED <<head, next, handling, uVars>>
      /\ ~ handling
  BY DispatchStepShape
<1>2. CASE dReg' = dReg /\ dInvoked' \in {dInvoked, dInvoked \cup {dReg}}
           /\ dInvoked' \subseteq Addrs
  <2>1. Searched' = Searched
    BY <1>2 DEF Searched
  <2>2. Pending' = Pending
    BY <1>1, <2>1 DEF Pending
  <2>3. QED
    BY <1>1, <1>2, <2>1, <2>2 DEF MatchInv, PendingOrdered, Intact, uVars
<1>3. CASE dReg \in Addrs /\ dReg' = next[dReg]
           /\ dInvoked' = dInvoked \cup {dReg}
  <2> USE AddrFacts
  <2>1. next[dReg] > dReg /\ next[dReg] \in Addrs \cup {ChainEnd}
    BY <1>3 DEF MatchInv, Intact, Memory
  <2>2. \A a \in Searched : a < dReg /\ a \in Addrs
    BY <1>1 DEF MatchInv, PendingOrdered, Pending, Searched
  <2>3. /\ dReg \in Nat /\ next[dReg] \in Nat
        /\ \A a \in Searched : a \in Nat
    BY <1>3, <2>1, <2>2
  <2>4. Searched' = Searched \cup {dReg}
    <3>1. next[dReg] \notin dInvoked \cup {dReg}
      <4>1. dInvoked \subseteq Searched \cup {dReg}
        BY DEF Searched
      <4>2. next[dReg] \notin Searched \cup {dReg}
        BY <2>3, <2>1, <2>2
      <4>3. QED
        BY <4>1, <4>2
    <3>2. QED
      BY <1>3, <3>1 DEF Searched
  <2>5. Pending' = Searched \cup {dReg} /\ Pending = Searched
    BY <1>1, <2>4 DEF Pending
  <2>6. PendingOrdered'
    <3> SUFFICES ASSUME NEW a \in Searched \cup {dReg}
                 PROVE  /\ a < next[dReg]
                        /\ next[a] \in Searched \cup {dReg, next[dReg]}
                        /\ \A b \in Searched \cup {dReg, next[dReg]} :
                             a < b => next[a] <= b
      BY <1>1, <1>3, <2>5 DEF PendingOrdered
    <3>1. CASE a = dReg
      BY <3>1, <2>3, <2>1, <2>2
    <3>2. CASE a \in Searched
      <4>1. /\ next[a] \in Searched \cup {dReg}
            /\ \A b \in Searched \cup {dReg} : a < b => next[a] <= b
        BY <3>2, <2>5 DEF MatchInv, PendingOrdered
      <4>2. next[a] <= dReg
        BY <4>1, <3>2, <2>2
      <4>3. QED
        BY <4>1, <4>2, <3>2, <2>3, <2>1, <2>2
    <3>3. QED
      BY <3>1, <3>2
  <2>7. /\ head \in Searched' \cup {dReg'}
        /\ \A a \in Searched' : head <= a
    <3>1. head \in Searched \cup {dReg} /\ \A a \in Searched : head <= a
      BY <1>1 DEF MatchInv
    <3>2. head <= dReg
      BY <3>1, <2>3, <2>2
    <3>3. QED
      BY <1>1, <2>4, <3>1, <3>2
  <2>8. QED
    BY <1>1, <1>3, <2>1, <2>6, <2>7
    DEF MatchInv, Intact, uVars
<1>4. QED
  BY DispatchStepShape, <1>2, <1>3 DEF MatchInv

\* Taking the exception keeps the invariant: the protector, below every
\* record of the chain, is linked in front of the head and joins Pending
\* as its least record, where the unwind starts.
LEMMA TakeKeeps ==
  ASSUME MatchInv, TakeException
  PROVE  MatchInv'
<1> USE AddrFacts
<1>1. /\ ~ handling /\ handling'
      /\ dReg \in Addrs /\ dReg' = dReg
      /\ dInvoked' = dInvoked \cup {dReg}
  BY ChainEndShared DEF TakeException, D!Walking, MatchInv
<1>2. Searched' = Searched /\ Pending' = Searched \cup {Protector}
  BY <1>1 DEF Searched, Pending
<1>3. /\ head \in Searched \cup {dReg}
      /\ head # Protector
      /\ \A a \in Searched : head <= a /\ a < dReg /\ a \in Addrs
  BY <1>1 DEF MatchInv, PendingOrdered, Pending, Searched
<1>4. /\ head \in Addrs /\ head \in Nat /\ dReg \in Nat
      /\ Protector < head /\ head <= dReg
      /\ \A a \in Searched : a \in Nat /\ Protector < a
  BY <1>1, <1>3
<1>5. next' = [next EXCEPT ![Protector] = head] /\ next \in Memory
      /\ Intact(next)
  BY DEF TakeException, MatchInv
<1>6. next' \in Memory /\ Intact(next')
  BY <1>4, <1>5 DEF Memory, Intact
<1>7. PendingOrdered'
  <2> SUFFICES ASSUME NEW a \in Searched \cup {Protector}
               PROVE  /\ a < dReg
                      /\ next'[a] \in Searched \cup {Protector, dReg}
                      /\ \A b \in Searched \cup {Protector, dReg} :
                           a < b => next'[a] <= b
    BY <1>1, <1>2 DEF PendingOrdered
  <2>1. CASE a = Protector
    <3>1. next'[a] = head
      BY <2>1, <1>5 DEF Memory
    <3>2. QED
      BY <2>1, <3>1, <1>3, <1>4
  <2>2. CASE a \in Searched
    <3>1. next'[a] = next[a] /\ a # Protector
      BY <2>2, <1>4, <1>5
    <3>2. /\ next[a] \in Searched \cup {dReg}
          /\ \A b \in Searched \cup {dReg} : a < b => next[a] <= b
      BY <2>2, <1>1 DEF MatchInv, PendingOrdered, Pending
    <3>3. QED
      BY <2>2, <3>1, <3>2, <1>3, <1>4
  <2>3. QED
    BY <2>1, <2>2
<1>8. /\ uTarget' = dReg /\ uReg' = Protector /\ head' = Protector
      /\ uUnwound' = {} /\ uOutcome' = "running"
  BY <1>1 DEF TakeException
<1>9. {a \in Searched \cup {Protector} : a < Protector} = {}
  BY <1>4
<1>10. QED
  BY <1>1, <1>2, <1>6, <1>7, <1>8, <1>9 DEF MatchInv, TakeException

\* An unwind step keeps the invariant: it unwinds the cursor, a record of
\* Pending, and moves to its Next, with no record of Pending in between;
\* or it ends, at dReg with ZwContinue or elsewhere with an error.
LEMMA UnwindKeeps ==
  ASSUME MatchInv, UnwindStep
  PROVE  MatchInv'
<1> USE AddrFacts, ChainEndShared
<1>1. /\ handling /\ handling'
      /\ UNCHANGED <<dVars, next, uTarget>>
      /\ Pending' = Pending /\ Searched' = Searched
  <2>1. handling /\ handling' /\ UNCHANGED dVars
    BY DEF UnwindStep
  <2>2. UNCHANGED <<next, uTarget>>
    BY DEF UnwindStep, U!ReachTarget, U!InvalidTarget, U!SwitchToDpcStack,
       U!BadStack, U!ContinueSearch, U!InvalidDisposition, U!ChainExhausted,
       U!Stopped
  <2>3. QED
    BY <2>1, <2>2 DEF dVars, Pending, Searched
<1>2. /\ dReg \in Addrs /\ uTarget = dReg
      /\ uUnwound \subseteq Pending
      /\ \A a \in Pending : a \in Addrs /\ a < dReg
  BY <1>1 DEF MatchInv, PendingOrdered, Pending, Searched
<1> DEFINE Below(r) == {a \in Pending : a < r}
<1>0. ASSUME /\ head' \in Addrs \cup {ChainEnd}
             /\ uReg' \in Addrs \cup {ChainEnd}
             /\ uUnwound' \subseteq Pending
             /\ uOutcome' = "running" =>
                  uReg' \in Pending \cup {dReg} /\ uUnwound' = Below(uReg')
             /\ uOutcome' = "ZwContinue" => uUnwound' = Pending
      PROVE  MatchInv'
  <2>1. PendingOrdered' = PendingOrdered /\ Intact(next') = Intact(next)
    BY <1>1 DEF PendingOrdered, Intact, dVars
  <2>2. QED
    BY <1>0, <1>1, <1>2, <2>1 DEF MatchInv, dVars
<1>3. CASE U!ReachTarget
  <2>1. /\ uOutcome = "running" /\ uReg = dReg
        /\ uOutcome' = "ZwContinue"
        /\ UNCHANGED <<head, uReg, uUnwound>>
    BY <1>2, <1>3 DEF U!ReachTarget, U!Walking, U!Stopped
  <2>2. uUnwound = Below(dReg)
    BY <1>1, <2>1 DEF MatchInv
  <2>3. Below(dReg) = Pending
    BY <1>2
  <2>4. QED
    BY <1>0, <2>1, <2>2, <2>3 DEF MatchInv
<1>4. CASE U!InvalidTarget \/ U!BadStack \/ U!SwitchToDpcStack
  <2>1. /\ UNCHANGED <<head, uReg, uUnwound>>
        /\ uOutcome' \in {uOutcome, "STATUS_INVALID_UNWIND_TARGET",
                          "STATUS_BAD_STACK"}
    BY <1>4 DEF U!InvalidTarget, U!BadStack, U!SwitchToDpcStack, U!Stopped
  <2>2. QED
    BY <1>0, <1>1, <2>1 DEF MatchInv
<1>5. CASE U!ChainExhausted
  <2>1. uOutcome = "running" /\ uReg = ChainEnd
    BY <1>5 DEF U!ChainExhausted
  <2>2. uReg \in Pending \cup {dReg}
    BY <1>1, <2>1 DEF MatchInv
  <2>3. QED
    BY <2>1, <2>2, <1>2
<1>6. CASE U!ContinueSearch \/ (U!InvalidDisposition /\ uReg # Protector)
  <2>1. /\ uOutcome = "running" /\ uReg # dReg
        /\ uUnwound' = uUnwound \cup {uReg}
    BY <1>2, <1>6 DEF U!ContinueSearch, U!InvalidDisposition, U!Called,
       U!PastTargetChecks, U!Walking
  <2>2. uReg \in Pending /\ uUnwound = Below(uReg)
    BY <1>1, <2>1 DEF MatchInv
  <2>3. CASE (U!InvalidDisposition /\ uReg # Protector)
    <3>1. /\ uOutcome' = "STATUS_INVALID_DISPOSITION"
          /\ UNCHANGED <<head, uReg>>
      BY <2>3 DEF U!InvalidDisposition
    <3>2. QED
      BY <1>0, <1>1, <1>2, <2>1, <2>2, <3>1 DEF MatchInv
  <2>4. CASE U!ContinueSearch
    <3>1. /\ uReg' = next[uReg] /\ head' = next[uReg]
          /\ uOutcome' = "running"
      BY <2>1, <2>4 DEF U!ContinueSearch, U!StepPast
    <3>2. /\ next[uReg] \in Pending \cup {dReg}
          /\ \A b \in Pending \cup {dReg} : uReg < b => next[uReg] <= b
          /\ next[uReg] > uReg
      BY <1>1, <2>2 DEF MatchInv, PendingOrdered, Intact
    <3>3. Below(next[uReg]) = Below(uReg) \cup {uReg}
      BY <1>2, <2>2, <3>2
    <3>4. QED
      BY <1>0, <1>1, <1>2, <2>1, <2>2, <3>1, <3>2, <3>3 DEF MatchInv
  <2>5. QED
    BY <1>6, <2>3, <2>4
<1>7. QED
  BY <1>3, <1>4, <1>5, <1>6 DEF UnwindStep

\* Every step of the composition keeps MatchInv.
LEMMA MatchNext == MatchInv /\ [Next]_vars => MatchInv'
<1> SUFFICES ASSUME MatchInv, [Next]_vars PROVE MatchInv'
  OBVIOUS
<1>1. CASE DispatchStep
  BY <1>1, DispatchKeeps
<1>2. CASE TakeException
  BY <1>2, TakeKeeps
<1>3. CASE UnwindStep
  BY <1>3, UnwindKeeps
<1>4. CASE Finished \/ UNCHANGED vars
  <2>1. UNCHANGED vars
    BY <1>4 DEF Finished
  <2>2. QED
    BY <2>1 DEF vars, dVars, uVars, MatchInv, PendingOrdered, Pending,
       Searched, Intact
<1>5. QED
  BY <1>1, <1>2, <1>3, <1>4 DEF Next

\* On chains whose links go to older frames, the global unwind that the
\* handler found by RtlDispatchException starts (lines 259 and 499-645)
\* runs the unwind handlers of the protector and of the records the
\* dispatch passed over, and of no other record, and when it resumes at the
\* handler's frame it has run all of them.
THEOREM UnwindMatchesSearchIntact ==
  ASSUME IntactOnly
  PROVE  Spec => []UnwindMatchesSearch
<1>1. Init => MatchInv
  BY MatchInit
<1>2. MatchInv => UnwindMatchesSearch
  BY DEF MatchInv, UnwindMatchesSearch, Pending
<1>3. QED
  BY <1>1, <1>2, MatchNext, PTL DEF Spec
=============================================================================
