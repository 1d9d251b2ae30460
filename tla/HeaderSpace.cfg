SPECIFICATION Spec
CONSTANTS
  Invocations <- SomeInvocations
  Sizes <- SomeSizes
INVARIANT SpaceSuffices
