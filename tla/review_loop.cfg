SPECIFICATION FairSpec
CONSTANTS
  MaxFailures = 1
  Generated <- SomeGenerated
  Documents <- SomeDocuments
  BundleLength = 2
  Limits <- SomeLimits
  RepairRounds = 2
  TestRepairRounds = 2
  MaxSent = 1
  Samples <- SomeSamples
\* A run of the pipeline ends.
CHECK_DEADLOCK FALSE
INVARIANTS
  DeliveredAsReported
  BundlesAreSafe
PROPERTIES
  RunsAreBounded
