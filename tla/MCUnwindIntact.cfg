\* Unwinds over chains as the code maintains them, to every kind of target.
CONSTANTS
  Width <- MCWidth
  RecordSize <- MCRecordSize
  KernelStackSize <- MCKernelStackSize
  StackLow <- MCStackLow
  StackHigh <- MCStackHigh
  DpcStack <- MCDpcStack
  Addrs <- MCAddrs
  Targets <- MCTargets
  IntactOnly = TRUE
SPECIFICATION Spec
INVARIANT HeadIsCursor
INVARIANT UnwindEndsAtTarget
INVARIANT HandlerRunsOnce
PROPERTY UnwindTerminates
PROPERTY ImplementsUnwindFrames
INVARIANT UnwoundOnStack
