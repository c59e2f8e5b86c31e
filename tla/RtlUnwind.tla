------------------------------ MODULE RtlUnwind -----------------------------
(***************************************************************************)
(* One activation of RtlUnwind (exdsptch.c lines 370-679).                 *)
(*                                                                         *)
(* The set-up of lines 441-498 (local exception record, UNWINDING and      *)
(* EXIT_UNWIND flags, captured context) is straight-line code and is the   *)
(* initial state.  Each step is then one iteration of the while loop of    *)
(* line 499, or the exit of lines 655-677.  ZwContinue, ZwRaiseException   *)
(* and RtlRaiseException of a noncontinuable status do not return: they    *)
(* end the activation.                                                     *)
(*                                                                         *)
(* The handler called through RtlpExecuteHandlerForUnwind is the           *)
(* environment.  It returns ContinueSearch, any invalid disposition, or    *)
(* CollidedUnwind; the last only when it is the protector record that an   *)
(* outer RtlpExecuteHandlerForUnwind pushed on top of the record the outer *)
(* unwind is processing, and it then reports that record, the protector's  *)
(* Next, in DispatcherContext.RegistrationPointer.                         *)
(***************************************************************************)
EXTENDS StackLimits

CONSTANTS
  Targets,     \* TargetFrame values: 0 is NULL (exit unwind)
  IntactOnly   \* TRUE: memories whose chains only go to older frames

ASSUME UnwindAssumption ==
  /\ Targets \subseteq Word
  /\ IntactOnly \in BOOLEAN

VARIABLES
  head,       \* the chain head, RtlpGetRegistrationHead(); RtlpUnlinkHandler
              \* writes it
  next,       \* RegistrationPointer->Next of every record in memory
  irqlHigh,   \* KeGetCurrentIrql() >= DISPATCH_LEVEL
  dpcActive,  \* Prcb->DpcRoutineActive
  target,     \* TargetFrame
  reg,        \* RegistrationPointer
  lowLimit,   \* LowLimit
  highLimit,  \* HighLimit
  flags,      \* ExceptionRecord->ExceptionFlags
  outcome,    \* "running", or the system service or status ending the call
  origHead,   \* history: the chain head when RtlUnwind was called
  unwound,    \* history: records whose unwind handler this call ran
  skipped,    \* history: records adopted from a collided unwind
  repeated    \* history: a handler was run a second time

vars == <<head, next, irqlHigh, dpcActive, target, reg, lowLimit, highLimit,
          flags, outcome, origHead, unwound, skipped, repeated>>

Flag == {"NONCONTINUABLE", "UNWINDING", "EXIT_UNWIND"}

Outcome == {"running", "ZwContinue", "ZwRaiseException",
            "STATUS_INVALID_UNWIND_TARGET", "STATUS_BAD_STACK",
            "STATUS_INVALID_DISPOSITION"}

TypeOK ==
  /\ head \in Addrs \cup {ChainEnd}
  /\ next \in Memory
  /\ irqlHigh \in BOOLEAN
  /\ dpcActive \in BOOLEAN
  /\ target \in Targets
  /\ reg \in Addrs \cup {ChainEnd}
  /\ lowLimit \in Word
  /\ highLimit \in Word
  /\ flags \subseteq Flag
  /\ outcome \in Outcome
  /\ origHead \in Addrs \cup {ChainEnd}
  /\ unwound \subseteq Addrs
  /\ skipped \subseteq Addrs
  /\ repeated \in BOOLEAN

\* ARGUMENT_PRESENT(TargetFrame)
TargetPresent == target # 0

\* Lines 441-498.  A record passed in by the caller may be noncontinuable;
\* the local one of lines 450-455 has no flags.  Lines 465-470 add
\* UNWINDING, and EXIT_UNWIND when no target frame is given.
Init ==
  /\ head \in Addrs \cup {ChainEnd}
  /\ next \in Memory
  /\ IntactOnly => Intact(next)
  /\ irqlHigh \in BOOLEAN
  /\ dpcActive \in BOOLEAN
  /\ target \in Targets
  /\ reg = head
  /\ lowLimit = StackLow
  /\ highLimit = StackHigh
  /\ \E given \in {{}, {"NONCONTINUABLE"}} :
       flags = given \cup IF target # 0 THEN {"UNWINDING"}
                          ELSE {"UNWINDING", "EXIT_UNWIND"}
  /\ outcome = "running"
  /\ origHead = head
  /\ unwound = {}
  /\ skipped = {}
  /\ repeated = FALSE

Walking == outcome = "running" /\ reg # ChainEnd

\* Bug variant: the test of line 507 is missing, so the target frame is
\* unwound like any other record.
PastTargetChecksNoTarget ==
  /\ Walking
  /\ ~ (TargetPresent /\ target < reg)

\* The record passes the tests of lines 507 and 515-516: it is not the
\* target, and the target is not below it.
PastTargetChecks ==
  /\ Walking
  /\ reg # target
  /\ ~ (TargetPresent /\ target < reg)

\* Bug variant: the test of line 536 against HighLimit is missing.
InLimitsNoHigh ==
  /\ reg >= lowLimit
  /\ Aligned(reg)

InLimits == ~ OutOfLimits(reg, lowLimit, highLimit)

Stopped(o) ==
  /\ outcome' = o
  /\ UNCHANGED <<head, next, irqlHigh, dpcActive, target, reg, lowLimit,
                 highLimit, flags, origHead, unwound, skipped, repeated>>

\* Lines 507-508: the target is reached; ZwContinue resumes there.
ReachTarget ==
  /\ Walking
  /\ reg = target
  /\ Stopped("ZwContinue")

\* Bug variant: the comparison of line 516 is reversed.
InvalidTargetReversed ==
  /\ Walking
  /\ reg # target
  /\ TargetPresent /\ target > reg
  /\ Stopped("STATUS_INVALID_UNWIND_TARGET")

\* Lines 515-521: the target lies below the current record.
InvalidTarget ==
  /\ Walking
  /\ reg # target
  /\ TargetPresent /\ target < reg
  /\ Stopped("STATUS_INVALID_UNWIND_TARGET")

\* Lines 532-566: out of limits but on the DPC stack; switch the limits
\* and restart the iteration.
SwitchToDpcStack ==
  /\ PastTargetChecks
  /\ ~ InLimits
  /\ OnDpcStack(reg, irqlHigh, dpcActive)
  /\ lowLimit' = DpcLow
  /\ highLimit' = DpcStack
  /\ UNCHANGED <<head, next, irqlHigh, dpcActive, target, reg, flags,
                 outcome, origHead, unwound, skipped, repeated>>

\* Lines 532-538 and 569-573: out of limits and not on the DPC stack.
BadStack ==
  /\ PastTargetChecks
  /\ ~ InLimits
  /\ ~ OnDpcStack(reg, irqlHigh, dpcActive)
  /\ Stopped("STATUS_BAD_STACK")

\* Lines 583-588: the unwind handler of reg runs.
Called ==
  /\ PastTargetChecks
  /\ InLimits
  /\ unwound' = unwound \cup {reg}
  /\ repeated' = (repeated \/ reg \in unwound \cup skipped)

\* Lines 638-645 from the record p: PriorPointer = p, RegistrationPointer =
\* p->Next, RtlpUnlinkHandler(PriorPointer) makes p->Next the chain head.
StepPast(p) ==
  /\ reg' = next[p]
  /\ head' = next[p]

\* Bug variant: the record is unlinked, but the walk starts again from the
\* head read when RtlUnwind was entered.
ContinueSearchRestart ==
  /\ Called
  /\ reg' = origHead
  /\ head' = next[reg]
  /\ UNCHANGED <<next, irqlHigh, dpcActive, target, lowLimit, highLimit,
                 flags, outcome, origHead, skipped>>

\* Lines 601-602 and 638-645: ExceptionContinueSearch.
ContinueSearch ==
  /\ Called
  /\ StepPast(reg)
  /\ UNCHANGED <<next, irqlHigh, dpcActive, target, lowLimit, highLimit,
                 flags, outcome, origHead, skipped>>

\* Bug variant: the record after the protector is marked as the outer
\* unwind's, but the walk goes on from the protector's Next, running that
\* record's handler again.
CollidedUnwindNoSkip ==
  /\ Called
  /\ next[reg] \in Addrs
  /\ StepPast(reg)
  /\ skipped' = skipped \cup {next[reg]}
  /\ UNCHANGED <<next, irqlHigh, dpcActive, target, lowLimit, highLimit,
                 flags, outcome, origHead>>

\* Bug variant: the head is unlinked at the protector's Next, not past the
\* adopted record.
CollidedUnwindUnlinkEarly ==
  /\ Called
  /\ next[reg] \in Addrs
  /\ LET rp == next[reg] IN
       /\ reg' = next[rp]
       /\ head' = rp
       /\ skipped' = skipped \cup {rp}
  /\ UNCHANGED <<next, irqlHigh, dpcActive, target, lowLimit, highLimit,
                 flags, outcome, origHead>>

\* Lines 609-617 and 638-645: ExceptionCollidedUnwind.  The protector
\* reports the record of the outer unwind, its own Next.
CollidedUnwind ==
  /\ Called
  /\ next[reg] \in Addrs
  /\ LET rp == next[reg] IN
       /\ StepPast(rp)
       /\ skipped' = skipped \cup {rp}
  /\ UNCHANGED <<next, irqlHigh, dpcActive, target, lowLimit, highLimit,
                 flags, outcome, origHead>>

\* Lines 625-631: any other disposition.
InvalidDisposition ==
  /\ Called
  /\ outcome' = "STATUS_INVALID_DISPOSITION"
  /\ UNCHANGED <<head, next, irqlHigh, dpcActive, target, reg, lowLimit,
                 highLimit, flags, origHead, skipped>>

\* Bug variant: an exhausted chain always resumes with ZwContinue.
ChainExhaustedContinue ==
  /\ outcome = "running"
  /\ reg = ChainEnd
  /\ Stopped("ZwContinue")

\* Lines 655-677: the chain is exhausted.  An unwind to EXCEPTION_CHAIN_END
\* continues; an exit unwind, or one whose target was not found, is raised
\* again for the debugger.
ChainExhausted ==
  /\ outcome = "running"
  /\ reg = ChainEnd
  /\ Stopped(IF target = ChainEnd THEN "ZwContinue" ELSE "ZwRaiseException")

\* Line 678: the activation has ended in a service that does not return.
Ended ==
  /\ outcome # "running"
  /\ UNCHANGED vars

Next ==
  \/ ReachTarget
  \/ InvalidTarget
  \/ SwitchToDpcStack
  \/ BadStack
  \/ ContinueSearch
  \/ CollidedUnwind
  \/ InvalidDisposition
  \/ ChainExhausted
  \/ Ended

\* RtlUnwind runs to completion on the calling thread.
Spec == Init /\ [][Next]_vars /\ WF_vars(Next)

-----------------------------------------------------------------------------
(***************************************************************************)
(* Properties.                                                             *)
(***************************************************************************)

\* The records on the chain from a.
ChainFrom(a) ==
  {Walk(next, a)[k] : k \in 0 .. Cardinality(Addrs)} \cap Addrs

\* While the unwind walks, the record it examines is the chain head, so
\* RtlpUnlinkHandler(PriorPointer), which makes PriorPointer->Next the
\* head, removes exactly the record just unwound (lines 638-645).
HeadIsCursor == outcome = "running" => head = reg

\* When the unwind resumes execution with ZwContinue, the chain head is the
\* target frame (the empty chain for EXCEPTION_CHAIN_END), and every record
\* that was in front of the target has had its unwind handler run, by this
\* unwind or by the outer one it collided with.
UnwindEndsAtTarget ==
  outcome = "ZwContinue" =>
    /\ head = target
    /\ \A a \in ChainFrom(origHead) : a < target => a \in unwound \cup skipped

\* No unwind handler runs twice: not in this call, and not for the record
\* whose handler the collided outer unwind is running.
HandlerRunsOnce == ~ repeated

\* Every unwind ends: it resumes execution or raises.
UnwindTerminates == <>(outcome # "running")

\* An unwind to a target frame on the chain never removes the target frame
\* from the chain (spec section 8, scenario 5: the target is not unwound).
TargetSurvives ==
  target \in ChainFrom(origHead) => target \in ChainFrom(head)

\* The unwind handler of a record runs only when the record lies wholly on
\* the thread stack or the DPC stack (spec section 3), with the limit test
\* of lines 532-538 in ULONG arithmetic.
UnwoundOnStack == \A a \in unwound : OnAStack(a)

\* The abstract status of the activation.
Status ==
  CASE outcome = "running"    -> "unwinding"
    [] outcome = "ZwContinue" -> "resumed"
    [] OTHER                  -> "raised"

\* RtlUnwind seen as UnwindFrames: the frames whose handler has run are
\* those this call unwound and those it adopted from a collided unwind.
Abstract == INSTANCE UnwindFrames WITH status <- Status,
                                       done <- unwound \cup skipped

\* On intact chains every iteration of the loop of line 499 removes front
\* frames of the chain in chain order after their handlers ran, or stutters,
\* and every exit either resumes with the target as head or raises: RtlUnwind
\* implements UnwindFrames.
ImplementsUnwindFrames == Abstract!ASpec
=============================================================================
