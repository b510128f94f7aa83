\* One and two inputs, up to three gates, a network with as many gates as outputs
\* may be, and one for each way to compute the size limit.
SPECIFICATION Spec
CONSTANTS
  Networks <- SmallNetworks
  MaxOutputs = 4
  Reach = 70000
  SomeTables <- SomeTablesMC
  NoKey = NoKey
INVARIANTS
  TypeOK
  CombinationsComplete
  OffersComplete
  OffersAreKeys
  LimitIsLastKey
