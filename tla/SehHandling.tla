---------------------------- MODULE SehHandling -----------------------------
(***************************************************************************)
(* The two walkers of exdsptch.c composed on one chain: RtlDispatchException *)
(* searches for a handler; the handler of the record X that takes the      *)
(* exception runs a global unwind, RtlUnwind(X), from inside the call of   *)
(* line 259, and resumes execution at X.                                   *)
(*                                                                         *)
(* RtlpExecuteHandlerForException registers a protector record P on top of *)
(* the chain before it calls the handler (spec section 4.4), so the global *)
(* unwind starts at P.  The protector has nothing to unwind: its handler   *)
(* returns ExceptionContinueSearch to the unwind, and the unwind unlinks   *)
(* it.  P lies on the stack below every frame of the chain: it is pushed   *)
(* by the dispatcher, which runs above the faulting frames.                *)
(*                                                                         *)
(* No handler raises in this composition, so there is no nested dispatch  *)
(* and no collided unwind; those are modelled on each walker alone.        *)
(***************************************************************************)
EXTENDS StackLimits

CONSTANTS
  Protector,  \* address of the record RtlpExecuteHandlerForException pushes
  IntactOnly  \* TRUE: memories whose chains only go to older frames

ASSUME ProtectorAssumption ==
  /\ Protector \in Addrs
  /\ \A a \in Addrs \ {Protector} : Protector < a

VARIABLES
  head, next, irqlHigh, dpcActive,
  \* RtlDispatchException
  dReg, dNested, dLow, dHigh, dFlags, dOutcome, dInvoked, dReports,
  dMisLogged,
  \* RtlUnwind
  uTarget, uReg, uLow, uHigh, uFlags, uOutcome, uOrigHead, uUnwound,
  uSkipped, uRepeated,
  \* the handler of dReg has taken the exception and started the unwind
  handling

dVars == <<dReg, dNested, dLow, dHigh, dFlags, dOutcome, dInvoked, dReports,
           dMisLogged>>

uVars == <<uTarget, uReg, uLow, uHigh, uFlags, uOutcome, uOrigHead, uUnwound,
           uSkipped, uRepeated>>

vars == <<head, next, irqlHigh, dpcActive, dVars, uVars, handling>>

D == INSTANCE ExceptionDispatch
       WITH reg <- dReg, nested <- dNested, lowLimit <- dLow,
            highLimit <- dHigh, flags <- dFlags, outcome <- dOutcome,
            invoked <- dInvoked, reports <- dReports, misLogged <- dMisLogged

U == INSTANCE RtlUnwind
       WITH target <- uTarget, reg <- uReg, lowLimit <- uLow,
            highLimit <- uHigh, flags <- uFlags, outcome <- uOutcome,
            origHead <- uOrigHead, unwound <- uUnwound, skipped <- uSkipped,
            repeated <- uRepeated, Targets <- Addrs

\* The exception is raised on a chain of frames above the protector; the
\* unwind has not started.
Init ==
  /\ D!Init
  /\ head # Protector
  /\ uTarget = Protector /\ uReg = Protector /\ uOrigHead = Protector
  /\ uLow = StackLow /\ uHigh = StackHigh
  /\ uFlags = {} /\ uOutcome = "running"
  /\ uUnwound = {} /\ uSkipped = {} /\ uRepeated = FALSE
  /\ handling = FALSE

\* One iteration of the dispatch loop in which the handler, if called,
\* returns (lines 184-355).
DispatchStep ==
  /\ ~ handling
  /\ \/ D!ChainExhausted
     \/ D!SwitchToDpcStack
     \/ D!BadFrame
     \/ D!BadHandler
     \/ \E hf \in D!HandlerFlags :
          \/ D!ContinueExecution(hf)
          \/ D!ContinueSearch(hf)
          \/ D!InvalidDisposition(hf)
  /\ UNCHANGED <<uVars, handling>>

(***************************************************************************)
(* The handler of dReg takes the exception (lines 248-264 up to the call). *)
(* RtlpExecuteHandlerForException pushes P; the handler calls              *)
(* RtlUnwind(dReg, ..., NULL, ...), whose set-up (lines 441-498) builds a  *)
(* local record with UNWINDING and reads the head and the stack limits.    *)
(***************************************************************************)
TakeException ==
  /\ ~ handling
  /\ D!Walking
  /\ D!InLimits
  /\ dInvoked' = dInvoked \cup {dReg}
  /\ next' = [next EXCEPT ![Protector] = head]
  /\ head' = Protector
  /\ uTarget' = dReg
  /\ uReg' = Protector
  /\ uOrigHead' = Protector
  /\ uLow' = StackLow /\ uHigh' = StackHigh
  /\ uFlags' = {"UNWINDING"}
  /\ uOutcome' = "running"
  /\ uUnwound' = {} /\ uSkipped' = {} /\ uRepeated' = FALSE
  /\ handling' = TRUE
  /\ UNCHANGED <<irqlHigh, dpcActive, dReg, dNested, dLow, dHigh, dFlags,
                 dOutcome, dReports, dMisLogged>>

\* One iteration of the unwind loop, or its exit (lines 499-677).  The
\* protector's handler returns ContinueSearch to an unwind.
UnwindStep ==
  /\ handling
  /\ \/ U!ReachTarget
     \/ U!InvalidTarget
     \/ U!SwitchToDpcStack
     \/ U!BadStack
     \/ U!ContinueSearch
     \/ U!InvalidDisposition /\ uReg # Protector
     \/ U!ChainExhausted
  /\ UNCHANGED <<dVars, handling>>

\* The dispatch has returned, or the unwind has resumed or raised.
Finished ==
  /\ IF handling THEN uOutcome # "running" ELSE dOutcome # "running"
  /\ UNCHANGED vars

Next == DispatchStep \/ TakeException \/ UnwindStep \/ Finished

\* Both walkers run to completion on the faulting thread.
Spec == Init /\ [][Next]_vars /\ WF_vars(Next)

-----------------------------------------------------------------------------
(***************************************************************************)
(* Properties.                                                             *)
(***************************************************************************)

\* The records the dispatch passed over before X took the exception.
Searched == dInvoked \ {dReg}

\* The global unwind runs the unwind handlers of the protector and of the
\* records the dispatch passed over, and of no other record; when it
\* resumes at X it has run all of them.
UnwindMatchesSearch ==
  handling =>
    /\ uUnwound \subseteq Searched \cup {Protector}
    /\ uOutcome = "ZwContinue" => uUnwound = Searched \cup {Protector}

\* A global unwind to the frame the dispatcher found ends in ZwContinue at
\* that frame, unless an unwind handler returns an invalid disposition: it
\* never meets a bad stack, a target below it, or the end of the chain.
GlobalUnwindReachesHandler ==
  (handling /\ uOutcome \notin {"running", "STATUS_INVALID_DISPOSITION"}) =>
    (uOutcome = "ZwContinue" /\ head = uTarget)

\* Every exception is either not handled by the dispatch, or handled and
\* unwound to its handler's frame: both walkers end.
HandlingTerminates ==
  <>(IF handling THEN uOutcome # "running" ELSE dOutcome # "running")
=============================================================================
