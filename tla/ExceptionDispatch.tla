------------------------- MODULE ExceptionDispatch --------------------------
(***************************************************************************)
(* One activation of RtlDispatchException (exdsptch.c lines 126-364).      *)
(*                                                                         *)
(* Each step is one iteration of the while loop of line 184: the chain is *)
(* exhausted, the record is out of limits (switch to the DPC stack, or     *)
(* mark the stack invalid and return FALSE), its handler is rejected by    *)
(* RtlIsValidHandler, or the handler is called through                     *)
(* RtlpExecuteHandlerForException and its disposition handled.  The        *)
(* handler is the environment: it returns any disposition, may OR          *)
(* EXCEPTION_STACK_INVALID into the record, and returns NestedException    *)
(* only as the exception protector of RtlpExecuteHandlerForException does: *)
(* with DispatcherContext.RegistrationPointer set to a record further down *)
(* the chain (the establisher frame of the outer dispatch).                *)
(* RtlRaiseException of a noncontinuable status ends the activation.       *)
(***************************************************************************)
EXTENDS StackLimits

CONSTANT
  IntactOnly   \* TRUE: memories whose chains only go to older frames

ASSUME IntactOnlyAssumption == IntactOnly \in BOOLEAN

VARIABLES
  head,       \* RtlpGetRegistrationHead()
  next,       \* RegistrationPointer->Next of every record in memory
  irqlHigh,   \* KeGetCurrentIrql() >= DISPATCH_LEVEL
  dpcActive,  \* Prcb->DpcRoutineActive
  reg,        \* RegistrationPointer
  nested,     \* NestedRegistration (0 when none)
  lowLimit,   \* LowLimit
  highLimit,  \* HighLimit
  flags,      \* ExceptionRecord->ExceptionFlags
  outcome,    \* "running", the BOOLEAN returned, or the status raised
  invoked,    \* history: records whose handler has been called
  reports,    \* history: RegistrationPointers reported with NestedException
  misLogged   \* history: a disposition was logged under an Index that
              \* RtlpLogExceptionHandler did not return for that call

vars == <<head, next, irqlHigh, dpcActive, reg, nested, lowLimit, highLimit,
          flags, outcome, invoked, reports, misLogged>>

Flag == {"NONCONTINUABLE", "STACK_INVALID", "NESTED_CALL"}

Outcome == {"running", "TRUE", "FALSE",
            "STATUS_NONCONTINUABLE_EXCEPTION", "STATUS_INVALID_DISPOSITION"}

TypeOK ==
  /\ head \in Addrs \cup {ChainEnd}
  /\ next \in Memory
  /\ irqlHigh \in BOOLEAN
  /\ dpcActive \in BOOLEAN
  /\ reg \in Addrs \cup {ChainEnd}
  /\ nested \in Addrs \cup {0}
  /\ lowLimit \in Word
  /\ highLimit \in Word
  /\ flags \subseteq Flag
  /\ outcome \in Outcome
  /\ invoked \subseteq Addrs
  /\ reports \subseteq Addrs
  /\ misLogged \in BOOLEAN

\* Lines 173-182.  The exception record arrives from a trap or from
\* RtlRaiseException: continuable or not, never yet nested or invalid.
Init ==
  /\ head \in Addrs \cup {ChainEnd}
  /\ next \in Memory
  /\ IntactOnly => Intact(next)
  /\ irqlHigh \in BOOLEAN
  /\ dpcActive \in BOOLEAN
  /\ reg = head
  /\ nested = 0
  /\ lowLimit = StackLow
  /\ highLimit = StackHigh
  /\ flags \in {{}, {"NONCONTINUABLE"}}
  /\ outcome = "running"
  /\ invoked = {}
  /\ reports = {}
  /\ misLogged = FALSE

Walking == outcome = "running" /\ reg # ChainEnd

InLimits == ~ OutOfLimits(reg, lowLimit, highLimit)

\* Line 184: the chain is exhausted; Completion is still FALSE.
ChainExhausted ==
  /\ outcome = "running"
  /\ reg = ChainEnd
  /\ outcome' = "FALSE"
  /\ UNCHANGED <<head, next, irqlHigh, dpcActive, reg, nested, lowLimit,
                 highLimit, flags, invoked, reports, misLogged>>

\* Lines 193-228: the record is out of limits but on the DPC stack; the
\* limits become those of the DPC stack and the iteration restarts.
SwitchToDpcStack ==
  /\ Walking
  /\ ~ InLimits
  /\ OnDpcStack(reg, irqlHigh, dpcActive)
  /\ lowLimit' = DpcLow
  /\ highLimit' = DpcStack
  /\ UNCHANGED <<head, next, irqlHigh, dpcActive, reg, nested, flags,
                 outcome, invoked, reports, misLogged>>

\* Lines 193-199 and 230-231: out of limits and not on the DPC stack.
BadFrame ==
  /\ Walking
  /\ ~ InLimits
  /\ ~ OnDpcStack(reg, irqlHigh, dpcActive)
  /\ flags' = flags \cup {"STACK_INVALID"}
  /\ outcome' = "FALSE"
  /\ UNCHANGED <<head, next, irqlHigh, dpcActive, reg, nested, lowLimit,
                 highLimit, invoked, reports, misLogged>>

\* Lines 236-238: RtlIsValidHandler rejects the handler of the record.
BadHandler ==
  /\ Walking
  /\ InLimits
  /\ flags' = flags \cup {"STACK_INVALID"}
  /\ outcome' = "FALSE"
  /\ UNCHANGED <<head, next, irqlHigh, dpcActive, reg, nested, lowLimit,
                 highLimit, invoked, reports, misLogged>>

(***************************************************************************)
(* Lines 241-280: the handler of reg is called (RtlIsValidHandler having   *)
(* accepted it) and leaves the flags hf; if reg is the establisher of the  *)
(* nested region, the region ends: NESTED_CALL is cleared and              *)
(* NestedRegistration reset.                                               *)
(*                                                                         *)
(* NtGlobalFlag is read twice, at line 248 before the call and at line 266 *)
(* after it; the handler, or another processor, may change it in between.  *)
(* The disposition is logged under Index, which line 249 set for this call *)
(* only if the first read saw logging enabled: otherwise Index is left     *)
(* from an earlier record or was never set.                                *)
(***************************************************************************)
Called ==
  /\ Walking
  /\ InLimits
  /\ invoked' = invoked \cup {reg}
  /\ \E logAt248, logAt266 \in BOOLEAN :
       misLogged' = (misLogged \/ (logAt266 /\ ~ logAt248))

HandlerFlags == {flags, flags \cup {"STACK_INVALID"}}

FlagsAfterCall(hf) ==
  IF nested = reg THEN hf \ {"NESTED_CALL"} ELSE hf

\* Bug variant: NestedRegistration is not reset when its region ends.
NestedAfterCallNoReset == nested

NestedAfterCall == IF nested = reg THEN 0 ELSE nested

\* Lines 295-308: ExceptionContinueExecution.
ContinueExecution(hf) ==
  /\ Called
  /\ flags' = FlagsAfterCall(hf)
  /\ nested' = NestedAfterCall
  /\ outcome' = IF "NONCONTINUABLE" \in flags'
                  THEN "STATUS_NONCONTINUABLE_EXCEPTION"
                  ELSE "TRUE"
  /\ UNCHANGED <<head, next, irqlHigh, dpcActive, reg, lowLimit, highLimit,
                 reports>>

\* Bug variant: the next iteration starts again from RtlpGetRegistrationHead()
\* instead of RegistrationPointer->Next.
ContinueSearchRestart(hf) ==
  /\ Called
  /\ flags' = FlagsAfterCall(hf)
  /\ nested' = NestedAfterCall
  /\ IF "STACK_INVALID" \in flags'
       THEN outcome' = "FALSE" /\ reg' = reg
       ELSE outcome' = outcome /\ reg' = head
  /\ UNCHANGED <<head, next, irqlHigh, dpcActive, lowLimit, highLimit,
                 reports>>

\* Lines 315-319 and 354: ExceptionContinueSearch.
ContinueSearch(hf) ==
  /\ Called
  /\ flags' = FlagsAfterCall(hf)
  /\ nested' = NestedAfterCall
  /\ IF "STACK_INVALID" \in flags'
       THEN outcome' = "FALSE" /\ reg' = reg
       ELSE outcome' = outcome /\ reg' = next[reg]
  /\ UNCHANGED <<head, next, irqlHigh, dpcActive, lowLimit, highLimit,
                 reports>>

\* Bug variant: line 328 dropped; NESTED_CALL is never set.
NestedExceptionNoFlag(hf, rp) ==
  /\ Called
  /\ rp \in After(next, reg)
  /\ flags' = FlagsAfterCall(hf)
  /\ nested' = IF rp > NestedAfterCall THEN rp ELSE NestedAfterCall
  /\ reg' = next[reg]
  /\ reports' = reports \cup {rp}
  /\ UNCHANGED <<head, next, irqlHigh, dpcActive, lowLimit, highLimit,
                 outcome>>

\* Lines 327-333 and 354: ExceptionNestedException; rp is
\* DispatcherContext.RegistrationPointer as the protector wrote it.
NestedException(hf, rp) ==
  /\ Called
  /\ rp \in After(next, reg)
  /\ flags' = FlagsAfterCall(hf) \cup {"NESTED_CALL"}
  /\ nested' = IF rp > NestedAfterCall THEN rp ELSE NestedAfterCall
  /\ reg' = next[reg]
  /\ reports' = reports \cup {rp}
  /\ UNCHANGED <<head, next, irqlHigh, dpcActive, lowLimit, highLimit,
                 outcome>>

\* Lines 340-346: any other disposition.
InvalidDisposition(hf) ==
  /\ Called
  /\ flags' = FlagsAfterCall(hf)
  /\ nested' = NestedAfterCall
  /\ outcome' = "STATUS_INVALID_DISPOSITION"
  /\ UNCHANGED <<head, next, irqlHigh, dpcActive, reg, lowLimit, highLimit,
                 reports>>

\* Line 363: the activation has returned (or raised); nothing more happens.
Returned ==
  /\ outcome # "running"
  /\ UNCHANGED vars

Next ==
  \/ ChainExhausted
  \/ SwitchToDpcStack
  \/ BadFrame
  \/ BadHandler
  \/ \E hf \in HandlerFlags :
       \/ ContinueExecution(hf)
       \/ ContinueSearch(hf)
       \/ \E rp \in Addrs : NestedException(hf, rp)
       \/ InvalidDisposition(hf)
  \/ Returned

\* The dispatcher runs to completion on the faulting thread: it is never
\* suspended, and every handler it calls returns.
Spec == Init /\ [][Next]_vars /\ WF_vars(Next)

-----------------------------------------------------------------------------
(***************************************************************************)
(* Properties.                                                             *)
(***************************************************************************)

\* The nested-call flag of the record is set exactly while a nested region
\* is open: NestedException sets both NESTED_CALL and NestedRegistration
\* (lines 328-331), and reaching the establisher clears both (277-280).
NestedFlagConsistent ==
  ("NESTED_CALL" \in flags) <=> (nested # 0)

\* Every handler the walk is about to call sees NESTED_CALL exactly when
\* its record lies at or below a frame that some earlier NestedException
\* named as the establisher of the in-flight dispatch: the handlers inside
\* the nested region, the establisher included, are told, and no other.
NestedRegionVisible ==
  (Walking /\ InLimits) =>
    (("NESTED_CALL" \in flags) <=> (\E r \in reports : reg <= r))

\* Every dispatch ends: it returns TRUE or FALSE or raises.
DispatchTerminates == <>(outcome # "running")

\* No handler is called for a record that does not lie wholly on the
\* thread stack or the DPC stack (spec section 3: each node lies within
\* the current thread stack bounds or the alternate stack).
InvokedOnStack == \A a \in invoked : OnAStack(a)

\* Every disposition RtlpLogLastExceptionDisposition records (line 267)
\* goes to the log entry RtlpLogExceptionHandler made for the same handler
\* call (line 249).
DispositionLoggedToItsEntry == ~ misLogged
=============================================================================
