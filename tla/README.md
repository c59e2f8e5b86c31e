# Verification of the i386 exception dispatcher (exdsptch.c)

This directory models `src/base/ntos/rtl/i386/exdsptch.c` in TLA+. That file
contains the three routines of i386 structured exception handling:

| Routine | Lines | What it does |
|---|---|---|
| `RtlIsValidHandler` | 77-124 | Looks the handler up in the SafeSEH table of its image, by binary search. |
| `RtlDispatchException` | 126-364 | Walks the per-thread chain of registration records from the head (fs:[0]) towards `EXCEPTION_CHAIN_END`. It checks each record against the stack limits, with a fallback to the DPC stack. It validates the record's handler, calls it through `RtlpExecuteHandlerForException`, and acts on the disposition. |
| `RtlUnwind` | 370-679 | Walks the same chain. It calls each record's handler for unwind and unlinks the record (`RtlpUnlinkHandler`), until it reaches the target frame or the end of the chain. |

The two walkers interact through the handlers they call. A handler that
raises inside `RtlpExecuteHandlerForException` starts a nested dispatch. That
dispatch's exception protector returns `ExceptionNestedException`, naming the
outer dispatch's establisher frame. A handler that unwinds inside
`RtlpExecuteHandlerForUnwind` starts a nested unwind. When that unwind meets
the outer unwind's protector, the protector returns `ExceptionCollidedUnwind`
and names the record the outer unwind was processing. Both trampolines are
assembly and are not in this repository. Neither are `RtlpGetStackLimits`,
`RtlpUnlinkHandler`, `RtlLookupFunctionTable` or the logging routines.

## Inventory and the module for each part

| Part | Module | Status |
|---|---|---|
| Stack-limit test and DPC-stack fallback, shared by both walkers (193-228, 532-567) | `StackLimits` | modelled |
| `RtlDispatchException` | `ExceptionDispatch`, `MCExceptionDispatch` | modelled |
| `RtlUnwind` | `RtlUnwind`, `MCRtlUnwind` | modelled |
| `RtlIsValidHandler` | `HandlerValidation`, `MCHandlerValidation` | modelled |
| What `RtlUnwind` promises: front frames leave the chain in order, then resume or raise | `UnwindFrames` (abstract), refined by `RtlUnwind` | modelled |
| Dispatch, the handler that takes the exception, its protector and its global unwind | `SehHandling`, `MCSehHandling` (proofs: `SehHandling_proofs`, `SehHandling_unwind_proofs`) | modelled |
| Nested dispatch and collided unwind | environment of each walker | partly |
| `RtlInvalidHandlerDetected` (an empty hook) and the unused `HandlerList` globals | none | not modelled: no state changes |
| Exception logging (lines 248-268) | `ExceptionDispatch` (`Called`) | partly: which `Index` a disposition is logged under; not the log |

### Modelling choices

- **Addresses.** Addresses are words of `Width` bits, and `HighAddress` is
  computed modulo `2^Width`, as the ULONG arithmetic of the code is.
  `EXCEPTION_CHAIN_END` is the all-ones word.
- **Memory.** Memory is the function `next` from record addresses to their
  `Next` field.
- **Intact chains.** `Intact(next)` restricts memory to chains whose links go
  to higher addresses. The runs use it (`IntactOnly = TRUE`) when they check
  what the code guarantees for well-formed chains. Without it, memory is
  arbitrary: backward links, cycles, unaligned records.
- **One step per loop iteration.** Each step is one iteration of a walker's
  `while` loop. Its guard is the iteration's early returns, in the order the
  code tests them. The handler call and the disposition form one action per
  disposition, since nothing else runs on the thread in between. For
  example, `ContinueSearch(hf)` covers the lines of the call, the
  nested-region reset of lines 277-280, the disposition case, and the advance
  at line 354.
- **Handlers as environment.** A handler may return any disposition and may
  OR `EXCEPTION_STACK_INVALID` into the record.
  - `ExceptionNestedException` comes with a `RegistrationPointer` further
    down the chain: the establisher of the outer dispatch.
  - `ExceptionCollidedUnwind` is returned only by a protector, which reports
    its own `Next`.
  - Whether `RtlIsValidHandler` accepts a handler is a free choice in the
    walkers. `HandlerValidation` models that routine on its own.
- **Calls that do not return.** `RtlRaiseException` of a noncontinuable
  status, `ZwContinue` and `ZwRaiseException` do not return, so each ends the
  activation with an `outcome`.
- **The read past the table.** `RtlIsValidHandler` can read
  `FunctionTable[FunctionTableLength]`, which is outside the table. That read
  is undefined, so the model lets it return any word.
- **Logging.** `NtGlobalFlag` is read at line 248 and again at line 266.
  `Called` chooses both reads freely, and the history variable `misLogged`
  records a call whose disposition is logged under an `Index` that line 249
  did not set for that call.
- **History variables.** The properties use history variables that the code
  does not have: `invoked`, `reports`, `misLogged`, `origHead`, `unwound`,
  `skipped`, `repeated` and `pastEnd`.

### The composition (`SehHandling`)

`SehHandling` instantiates `ExceptionDispatch` and `RtlUnwind` on one chain
(`INSTANCE ... WITH`, the dispatcher's variables renamed `d...` and the
unwind's `u...`; `head`, `next`, `irqlHigh` and `dpcActive` are shared).

- `DispatchStep` is an iteration of the dispatch loop in which the handler,
  if called, returns.
- `TakeException` is the call of line 259 in which the handler takes the
  exception. `RtlpExecuteHandlerForException` has pushed the protector
  record `P` (spec section 4.4) in front of the head. The handler calls
  `RtlUnwind(EstablisherFrame)`, whose set-up (lines 441-498) starts at `P`
  with fresh stack limits.
- `UnwindStep` is an iteration of the unwind loop. The protector's handler
  returns `ExceptionContinueSearch` to an unwind, so it is unlinked like any
  other record.
- The constant `Protector` lies below every other record: the dispatcher
  that pushes it runs below the faulting frames.

No handler raises or unwinds inside the composition, so nested dispatch and
collided unwind stay the environment of each walker, as in the single
modules.

### The abstract unwind (`UnwindFrames`)

`UnwindFrames` states what an unwind promises, with no limits, cursor or
dispositions:

- `PopTo(h)`: the frames in front of a later frame `h` of the chain leave
  it, and their handlers have run;
- `Resume`: execution resumes with the target frame at the head;
- `Raise`: the unwind raises.

`RtlUnwind` maps to it by `status` (from `outcome`) and `done = unwound \cup
skipped`; `head`, `next` and `target` map to themselves. A collided unwind
is one `PopTo` over two frames. `PopTo` does not forbid popping the target:
the code can (finding for `unwind_collided`), and `TargetSurvives` covers
it separately.

## Runs

| Run | Expect | What it shows |
|---|---|---|
| dispatch_intact | pass | On intact chains, with DPC state, nested reports and any dispositions: <br>- `NestedFlagConsistent`: `NESTED_CALL` is set exactly while a nested region is open. <br>- `NestedRegionVisible`: every handler inside the nested region (its establisher included) sees `NESTED_CALL`, and no other handler does. <br>- `DispatchTerminates`: every dispatch ends. |
| dispatch_loop | violation | An in-bounds cycle makes the dispatch run forever. The comment at line 349 says a loop is reported. |
| dispatch_wrap | violation | A record at address `2^Width - 4` passes the limit test through the wrap, and its handler is called. |
| dispatch_logging | violation | If `NtGlobalFlag` turns logging on between its reads at lines 248 and 266, the disposition is logged under a stale or uninitialized `Index`. |
| unwind_intact | pass | On intact chains, with any targets and with collided unwinds: <br>- `HeadIsCursor`: the head follows the cursor. <br>- `UnwindEndsAtTarget`: `ZwContinue` happens only at the target, with every earlier frame unwound by this unwind or by the outer one. <br>- `HandlerRunsOnce`: no handler runs twice. <br>- `UnwindTerminates`: every unwind ends. <br>- `UnwoundOnStack`: off the wrap, only records that lie on a stack are unwound. <br>- `ImplementsUnwindFrames`: `RtlUnwind` implements `UnwindFrames`. |
| unwind_wrap | violation | `RtlUnwind` repeats the computation at line 532 with the same wrap: on an intact chain, a record at address 60 passes the limit test and its unwind handler is called. |
| unwind_collided | violation | A collided unwind whose reported record is the target unlinks the target (line 616). |
| unwind_loop | violation | An in-bounds cycle makes `RtlUnwind` run a handler twice. The comment at line 647 says it raises. |
| validation_search | pass | For every sorted table of up to 4 entries from {1,4,6,9}, for images with no table or a table of length 0, every base in {0,3} and every 4-bit handler: <br>- `ListedIsValid`: a listed handler is accepted. <br>- `ValidationTerminates`: the search ends. |
| validation_past_end | violation | The read at index `FunctionTableLength` accepts an unlisted handler. |
| seh_intact | pass | Dispatch and global unwind on intact chains: <br>- `UnwindMatchesSearch`: the global unwind runs the handlers of the protector and of exactly the records the dispatch passed over, all of them when it resumes. <br>- `GlobalUnwindReachesHandler`: it ends in `ZwContinue` at the handler's frame unless an unwind handler returns an invalid disposition. <br>- `HandlingTerminates`: dispatch and unwind end. |

The findings are in `PROJECT.json`.

A table pointer with `FunctionTableLength` 0 falls to `// Can't verify`
(line 123) and accepts every handler. Spec sections 3 and 4.3 call a handler
absent from a registered table invalid. The code's comment shows this is
deliberate, so it is not a run; `validation_search` includes such images.

Spec section 8 says that after an unwind to F, "F is no longer reachable".
This contradicts both its own scenario 5 and the code, which resumes at F
with F as the head. The model follows the code (`UnwindEndsAtTarget`).

### Bounds

- **Dispatch and unwind.** The runs use `Width = 6`: a 64-byte address space
  in which the wrap at the top is reachable. Records are 8 bytes. The thread
  stack is [24, 56) and the DPC stack is [4, 20).
  - The 5 record addresses {8, 24, 40, 48, 50} of the dispatch runs give:
    - a record on the DPC stack (8);
    - three aligned records on the thread stack;
    - an unaligned record (50).
  - The unwind runs use 52, aligned but ending above the stack top, in
    place of 50. `unwind_wrap` uses {24, 60}: 60 + 8 wraps to 4 in 6 bits.
  - So every early return is reachable, and so are two nested reports and a
    collided unwind over three frames.
  - The targets {0, 24, 40, 44, 63} are:
    - an exit unwind (0);
    - two frames on the chain (24, 40);
    - a frame that is not on the chain (44);
    - `EXCEPTION_CHAIN_END` (63).
- **Composition.** `MCSehHandling` has the thread stack [16, 56), the
  protector at 16 and records {24, 40, 50, 52}: every dispatch disposition,
  a search over two records before the handler takes the exception, and
  records rejected for alignment (50) and for the stack top (52). No record
  lies on the DPC stack there. The DPC fallback of both walkers is checked
  on each walker alone. In the composition it is unsound to put only the
  protector there: it lies on whichever stack the dispatcher runs on, and
  the model has no way to tie the two.
- **Validation.** `HandlerValidation` uses 4-bit words, so that the bias can
  wrap and entries occur on both sides of the sign bit.

### Fairness

`WF_vars(Next)` is assumed. Each activation runs to completion on one thread,
and every handler the model calls returns: a handler that does not return
leaves the walker's state as it was. So a walker that can take a step takes
one.

## Proofs (TLAPS)

| Module | Theorem | What it proves |
|---|---|---|
| `ExceptionDispatch_proofs` | `TypeCorrect` | `Spec => []TypeOK` |
| `ExceptionDispatch_proofs` | `NestedFlagInvariant` | `Spec => []NestedFlagConsistent` |
| `RtlUnwind_proofs` | `UnwindTypeCorrect` | `Spec => []TypeOK` |
| `RtlUnwind_proofs` | `HeadIsCursorInvariant` | `Spec => []HeadIsCursor` |
| `RtlUnwind_proofs` | `HandlerRunsOnceIntact` | under `IntactOnly`: `Spec => []HandlerRunsOnce` |
| `SehHandling_proofs` | `UnwindMatchesSearchIntact` | under `IntactOnly`: `Spec => []UnwindMatchesSearch` for the composition |
| `SehHandling_unwind_proofs` | `GlobalUnwindReachesHandlerOnThreadStack` | under `IntactOnly` and `ProtectorOnThreadStack`: `Spec => []GlobalUnwindReachesHandler` for the composition |
| `RtlUnwind_proofs` | `UnwoundOnStackNoWrap` | if no record lies in the last `RecordSize` bytes: `Spec => []UnwoundOnStack` |
| `ExceptionDispatch_proofs` | `InvokedOnStackNoWrap` | if no record lies in the last `RecordSize` bytes: `Spec => []InvokedOnStack`, on any memory |
| `HandlerValidation_proofs` | `ListedIsValidInvariant` | `Spec => []ListedIsValid` |

These hold for every width, record size, stack layout, set of addresses and
set of targets that satisfy the named assumptions (`LimitsAssumption`,
`IntactOnlyAssumption`, `UnwindAssumption`, `ProtectorAssumption`,
`ValidationAssumption`). `StackLimits_proofs` holds the lemmas about the
shared limit test that both walkers' proofs cite.

- **`NestedFlagInvariant`.** `NestedFlagConsistent` is not inductive on its
  own. The step that opens a region must know that the new
  `NestedRegistration` (the larger of the reported frame and the old value)
  is not 0. That follows only if both are addresses or 0, which is part of
  `TypeOK`. So the inductive invariant is `IInv == TypeOK /\
  NestedFlagConsistent`. The lemma `AfterCallConsistent` shows that the reset
  of lines 277-280 keeps the flag and the variable in step.
- **`HeadIsCursorInvariant`.** `HeadIsCursor` is inductive by itself. Every
  step that keeps the unwind running either leaves both head and cursor
  alone, or moves both to the same `Next`.
- **`HandlerRunsOnceIntact`.** The inductive invariant adds `Intact(next)`
  and that every record unwound or adopted lies below the cursor. A step
  moves the cursor to a `Next`, which is higher, so the record it calls has
  not been seen.
- **`UnwindMatchesSearchIntact`.** The argument needs no reachability. The
  records still owed an unwind form `Pending`: `Searched`, plus the
  protector once the handler has taken the exception. The inductive
  invariant `MatchInv` says three things:
  - every record of `Pending` lies below the dispatcher's record `dReg`;
  - `Next` takes `Pending` into `Pending \cup {dReg}`, and skips no record
    of it (`PendingOrdered`);
  - while the unwind runs, its cursor is in `Pending \cup {dReg}`, and
    `uUnwound` is exactly the records of `Pending` below the cursor.

  The step that pushes the protector keeps this true because the protector
  lies below every record, and the head lies below every searched record.
- **`GlobalUnwindReachesHandlerOnThreadStack`.** The global unwind walks
  the records the dispatch walked, so it should accept each record the
  dispatch accepted. But both walkers test a record against their current
  limits, and either may have switched to the DPC stack. The inductive
  invariant `ReachInv` is `MatchInv` and three more conjuncts:
  - `DispatchLimits`: the dispatch's limits are the thread's or, after a
    switch that needed `irqlHigh /\ dpcActive`, the DPC stack's. Every
    record whose handler the dispatch called passed the test under one of
    the two pairs. Once a record outside the thread's limits was called, the
    limits are the DPC stack's, and every later record passed under them.
  - `UnwindLimits`: while the unwind runs, its cursor is the head. Its
    limits are the thread's, unless it has already passed a called record
    outside them.
  - `UnwindEnds`: the unwind has only resumed at its target or failed on a
    disposition.

  The key lemma is `UnwindRecordOK`. A record of `Pending` meets one of two
  cases. Either it passes the unwind's limit test, or the limits are still
  the thread's and the record is one the dispatch called under the DPC
  stack's limits. In the second case the record is on the DPC stack (lines
  547-555), and the unwind switches exactly where the dispatch did. So
  `STATUS_BAD_STACK` cannot happen. `STATUS_INVALID_UNWIND_TARGET` cannot
  happen either, because the cursor never passes `dReg`, the target. The
  chain cannot run out, because `Pending` leads to `dReg`.

  The hypothesis `ProtectorOnThreadStack` says the protector passes the
  thread's limit test. `ProtectorAssumption` only places it below every
  record. The code pushes the protector on the stack the dispatcher runs
  on. If that stack is not within the thread's limits, the unwind's first
  test fails: it raises `STATUS_BAD_STACK` on the protector, before any
  frame is unwound. TLC finds this with the protector at 8 and the thread
  stack at [24, 56), all else as in `seh_intact`. The hypothesis is also
  what lets the proof rule out the protector as the record after which the
  limits became the DPC stack's. `seh_intact` satisfies it (protector 16,
  thread stack [16, 56)). `ReachInv` holds as an invariant under TLC there,
  and also on a layout where the dispatch does switch to the DPC stack.
  `StackLimits_proofs` holds the lemma `OnDpcStackInDpcLimits`: under the
  DPC stack's limits, the DPC-stack test is the limit test plus the IRQL
  and DPC conditions. `DispatchSwitchesOnce` and `UnwindSwitchesOnce`
  derive from it that neither walker switches a second time.
- **`UnwoundOnStackNoWrap` and `InvokedOnStackNoWrap`.** The inductive
  invariant is `TypeOK`, the stack limits being one of the two pairs of
  `LimitPairs` (the thread's, or the DPC stack's after the one switch), and
  the property itself. The lemma `InLimitsOnAStack` of `StackLimits_proofs`
  carries the argument: when `a + RecordSize < 2^Width`, `HighAddress(a)` is
  the true end of the record, and the DPC low limit computed in ULONG
  arithmetic is never below `DpcStack - KERNEL_STACK_SIZE`
  (`DpcLowAbove`). So a record that passes the limit test under either pair
  lies on that stack. The no-wrap hypothesis is not an assumption about the
  code: it is exactly what `dispatch_wrap` and `unwind_wrap` show to be needed. Nothing in
  the code keeps a record out of the last bytes of the address space, and a
  record there passes the test. So the theorems say that the wrap is the
  only way past the limit test.
- **`ListedIsValidInvariant`.** The inductive invariant adds `SearchInv`.
  While searching, `0 <= Low`, `High <= FunctionTableLength`, and a listed
  handler's entry has its index in `[Low, High]`. Low is also 0 before the
  search starts. A probe inside the table keeps the index in range because
  the table is sorted. A probe at `Middle = FunctionTableLength` reads the
  word past the table. That needs `Low = High = FunctionTableLength`, where no
  index of the table is in range. So the arbitrary word read there cannot
  reject a listed handler. It can only accept an unlisted one, as
  `validation_past_end` shows. `ValidationAssumption` states that every
  table is sorted: the binary search depends on it, and the image's table
  is built that way.
- **`2^Width`.** `LimitsAssumption` states `2^Width \in Nat \ {0}` as a
  conjunct. It follows from `Width \in Nat`, but showing that needs induction
  over `Nat`, which the provers cannot do. TLC evaluates the conjunct on
  every run. `ValidationAssumption` states the same fact for its own
  `Width`.

Some results are only model-checked, because they are out of the prover's
reach:

- termination (liveness under fairness);
- the properties that need reachability along the chain (`UnwindEndsAtTarget`,
  `NestedRegionVisible`, `ImplementsUnwindFrames`), which is defined by a
  recursive function. The refinement's `PopTo` and `Before` unfold `Walk`,
  and that would need the recursive-function theorem with an operator
  parameter;
- `UnlistedIsInvalid`, which the code violates (`validation_past_end`).

## Plan for later sittings

1. Nested activations in the composition: a handler that raises (a nested
   dispatch with its protector returning `NestedException`), and an unwind
   handler that unwinds (a collided unwind). This would replace the
   environment choices of each walker by the steps that produce them.
2. Tie the protector's stack to the dispatcher's in the model, so that the
   DPC fallback is exercised by a run of the composition. It is proved for
   every layout, but `seh_intact` does not reach it.
