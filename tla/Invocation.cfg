SPECIFICATION Spec
CONSTANTS
  Invocations <- SomeInvocations
  Sizes <- SomeSizes
INVARIANTS TypeOK ParsedByUsage RequestArrives ResponseArrives SplitRejoins
